----------------------------- MODULE ClientSession -----------------------------
(***************************************************************************)
(* The sign-in session of one user in one browser: the response            *)
(* interceptor of auth.interceptor.ts, which meets an expired access token *)
(* with one refresh per tab and queues the tab's other requests meanwhile, *)
(* and the token pairs of auth.service.ts and jwt-refresh.strategy.ts.     *)
(*                                                                         *)
(* Pairs are numbered as they are minted. The tabs share one cookie jar,   *)
(* which holds both halves of a pair; the user row keeps the hash of one   *)
(* refresh token, the last one minted on any device. A refresh rotates the *)
(* pair: the guard compares the cookie with the hash, and the handler then *)
(* overwrites the hash. The two are separate steps with an await between   *)
(* them, and the answer that sets the cookies is a third. A tab runs one   *)
(* callback at a time, so each callback is one step.                       *)
(***************************************************************************)
EXTENDS Naturals

CONSTANTS
    Tab,         \* the tabs, each with an interceptor state of its own
    Request,     \* requests the pages make
    TabOf,       \* TabOf[r]: the tab that makes request r
    MaxChanges   \* bound: how often somebody ends the session or signs in anew

ASSUME TabOfAssumption == TabOf \in [Request -> Tab]
ASSUME MaxChangesAssumption == MaxChanges \in Nat

VARIABLES
    signedIn,    \* signedIn[t]: isAuthenticated of tab t's store
    refreshing,  \* refreshing[t]: isRefreshing of tab t's interceptor
    phase,       \* phase[r]: how far request r is; "queued" is pendingRequests
    pair,        \* pair[r]: the pair whose access token request r carried
    call,        \* call[r]: the refresh that request r asked for, at the server
    jar,         \* the pair in the browser's cookies, 0 when there are none
    hash,        \* the pair whose refresh token the user row accepts, or 0
    active,      \* the user's status is ACTIVE
    minted,      \* how many pairs were minted
    expired,     \* the newest pair whose access token has expired
    session,     \* history: "closed" once ended with no refresh under way,
                 \* "leaky" once ended over one, or with an expired token
    changes,     \* history: how often somebody ended the session or signed in
    mishap,      \* history: a refresh's answer was lost, or a replay failed
    late,        \* history: requests queued after the refresh was answered
    raced        \* history: a refresh was asked for while another was under way

tabVars == <<signedIn, refreshing, phase, pair, late, raced>>
serverVars == <<hash, minted>>
history == <<session, changes, mishap>>
vars == <<tabVars, call, jar, serverVars, active, expired, history>>

-------------------------------------------------------------------------------

Phase == {"idle", "sent", "queued", "refreshing", "replayed", "done", "failed"}
Settled == {"done", "failed"}
Leading == {"refreshing", "replayed"}

NoCall == [step |-> "none", pair |-> 0]
UnderWay == {"asked", "validated", "rotated"}
Call == [step : {"none", "refused"} \cup UnderWay, pair : Nat]

TypeOK ==
    /\ signedIn \in [Tab -> BOOLEAN]
    /\ refreshing \in [Tab -> BOOLEAN]
    /\ phase \in [Request -> Phase]
    /\ pair \in [Request -> Nat]
    /\ call \in [Request -> Call]
    /\ jar \in Nat /\ hash \in Nat
    /\ minted \in Nat /\ expired \in Nat /\ changes \in Nat
    /\ active \in BOOLEAN /\ mishap \in BOOLEAN /\ raced \in BOOLEAN
    /\ session \in {"open", "closed", "leaky"}
    /\ late \subseteq Request

\* Signed in, with a first pair everywhere.
Init ==
    /\ signedIn = [t \in Tab |-> TRUE]
    /\ refreshing = [t \in Tab |-> FALSE]
    /\ phase = [r \in Request |-> "idle"]
    /\ pair = [r \in Request |-> 0]
    /\ call = [r \in Request |-> NoCall]
    /\ jar = 1 /\ hash = 1 /\ minted = 1 /\ expired = 0
    /\ active = TRUE
    /\ session = "open"
    /\ changes = 0 /\ mishap = FALSE /\ raced = FALSE
    /\ late = {}

\* JwtStrategy: the access token has not expired and the user is active.
Accepted(p) == p > expired /\ active

-------------------------------------------------------------------------------
(* A request, up to its first answer.                                      *)

Send(r) ==
    /\ phase[r] = "idle" /\ signedIn[TabOf[r]]
    /\ phase' = [phase EXCEPT ![r] = "sent"]
    /\ pair' = [pair EXCEPT ![r] = jar]
    /\ UNCHANGED <<signedIn, refreshing, late, raced, call, jar, serverVars,
                   active, expired, history>>

\* Any answer but a 401: the data, another error, or axios's timeout of 30 s.
AnswerOther(r) ==
    /\ phase[r] = "sent"
    /\ \/ Accepted(pair[r]) /\ phase' = [phase EXCEPT ![r] = "done"]
       \/ phase' = [phase EXCEPT ![r] = "failed"]
    /\ UNCHANGED <<signedIn, refreshing, pair, late, raced, call, jar,
                   serverVars, active, expired, history>>

\* A 401 while the tab refreshes: the request waits in pendingRequests. The
\* flag stays up until the leading request's replay is answered, and by then
\* pendingRequests has been replayed.
Queue(r) ==
    /\ phase[r] = "sent" /\ ~Accepted(pair[r]) /\ refreshing[TabOf[r]]
    /\ phase' = [phase EXCEPT ![r] = "queued"]
    /\ late' = IF \E l \in Request : /\ TabOf[l] = TabOf[r]
                                     /\ phase[l] = "replayed"
               THEN late \cup {r} ELSE late
    /\ UNCHANGED <<signedIn, refreshing, pair, raced, call, jar, serverVars,
                   active, expired, history>>

\* Mutant: the flag is not looked at, so that each 401 starts a refresh.
AskRefreshAlways(r) ==
    /\ phase[r] = "sent" /\ ~Accepted(pair[r])
    /\ refreshing' = [refreshing EXCEPT ![TabOf[r]] = TRUE]
    /\ phase' = [phase EXCEPT ![r] = "refreshing"]
    /\ call' = [call EXCEPT ![r] = [step |-> "asked", pair |-> jar]]
    /\ UNCHANGED <<signedIn, pair, late, raced, jar, serverVars, active, expired,
                   history>>

\* Any other 401: the request becomes the leading one and posts /auth/refresh.
AskRefresh(r) ==
    /\ phase[r] = "sent" /\ ~Accepted(pair[r]) /\ ~refreshing[TabOf[r]]
    /\ refreshing' = [refreshing EXCEPT ![TabOf[r]] = TRUE]
    /\ phase' = [phase EXCEPT ![r] = "refreshing"]
    /\ call' = [call EXCEPT ![r] = [step |-> "asked", pair |-> jar]]
    /\ raced' = (raced \/ \E q \in Request : call[q].step \in UnderWay)
    /\ UNCHANGED <<signedIn, pair, late, jar, serverVars, active, expired,
                   history>>

-------------------------------------------------------------------------------
(* The refresh at the server. It goes on when the tab has given it up.     *)

\* Mutant: any refresh token that was once minted passes the guard.
ValidateAny(r) ==
    /\ call[r].step = "asked"
    /\ call' = [call EXCEPT ![r] = [step |-> "validated", pair |-> call[r].pair]]
    /\ UNCHANGED <<tabVars, jar, serverVars, active, expired, history>>

\* Mutant: a refusal is recorded by its status, which nothing looks for.
ValidateByStatus(r) ==
    /\ call[r].step = "asked"
    /\ LET passes == active /\ hash # 0 /\ call[r].pair = hash IN
       call' = [call EXCEPT ![r] =
                  [step |-> IF passes THEN "validated" ELSE "401",
                   pair |-> call[r].pair]]
    /\ UNCHANGED <<tabVars, jar, serverVars, active, expired, history>>

\* JwtRefreshStrategy.validate.
Validate(r) ==
    /\ call[r].step = "asked"
    /\ LET passes == active /\ hash # 0 /\ call[r].pair = hash IN
       call' = [call EXCEPT ![r] =
                  [step |-> IF passes THEN "validated" ELSE "refused",
                   pair |-> call[r].pair]]
    /\ UNCHANGED <<tabVars, jar, serverVars, active, expired, history>>

\* Mutant: the new refresh token's hash is not stored.
RotateUnstored(r) ==
    /\ call[r].step = "validated" /\ active
    /\ minted' = minted + 1
    /\ call' = [call EXCEPT ![r] = [step |-> "rotated", pair |-> minted + 1]]
    /\ UNCHANGED <<tabVars, jar, hash, active, expired, history>>

\* AuthService.refresh: reads the status again, and overwrites the hash.
Rotate(r) ==
    /\ call[r].step = "validated"
    /\ IF active
       THEN /\ minted' = minted + 1
            /\ hash' = minted + 1
            /\ call' = [call EXCEPT ![r] = [step |-> "rotated", pair |-> minted + 1]]
       ELSE /\ call' = [call EXCEPT ![r] = [step |-> "refused", pair |-> call[r].pair]]
            /\ UNCHANGED serverVars
    /\ UNCHANGED <<tabVars, jar, active, expired, history>>

-------------------------------------------------------------------------------
(* The refresh's answer, and the replay.                                   *)

QueuedIn(t) == {r \in Request : TabOf[r] = t /\ phase[r] = "queued"}

\* Mutant: the queue is emptied without replaying what it held.
RefreshedForgetting(r) ==
    /\ phase[r] = "refreshing" /\ call[r].step = "rotated"
    /\ jar' = call[r].pair
    /\ call' = [call EXCEPT ![r] = NoCall]
    /\ phase' = [phase EXCEPT ![r] = "replayed"]
    /\ pair' = [pair EXCEPT ![r] = call[r].pair]
    /\ UNCHANGED <<signedIn, refreshing, late, raced, serverVars, active,
                   expired, history>>

\* The answer sets the cookies; the queue is replayed first, as requests that
\* may meet a 401 again, then the leading request, which may not (_retry).
Refreshed(r) ==
    /\ phase[r] = "refreshing" /\ call[r].step = "rotated"
    /\ jar' = call[r].pair
    /\ call' = [call EXCEPT ![r] = NoCall]
    /\ LET queued == QueuedIn(TabOf[r]) IN
       /\ phase' = [q \in Request |-> IF q = r THEN "replayed"
                                      ELSE IF q \in queued THEN "sent" ELSE phase[q]]
       /\ pair' = [q \in Request |-> IF q \in queued \cup {r} THEN call[r].pair
                                     ELSE pair[q]]
    /\ UNCHANGED <<signedIn, refreshing, late, raced, serverVars, active,
                   expired, history>>

\* The catch and finally blocks: the queue is rejected, onUnauthorized clears
\* the store, the flag comes down.
GiveUp(r) ==
    LET t == TabOf[r] IN
    /\ phase' = [q \in Request |-> IF q \in QueuedIn(t) \cup {r} THEN "failed"
                                   ELSE phase[q]]
    /\ signedIn' = [signedIn EXCEPT ![t] = FALSE]
    /\ refreshing' = [refreshing EXCEPT ![t] = FALSE]

RefreshRefused(r) ==
    /\ phase[r] = "refreshing" /\ call[r].step = "refused"
    /\ GiveUp(r)
    /\ call' = [call EXCEPT ![r] = NoCall]
    /\ UNCHANGED <<pair, late, raced, jar, serverVars, active, expired, history>>

\* A timeout or a lost connection: the server may still rotate the pair.
RefreshLost(r) ==
    /\ phase[r] = "refreshing"
    /\ GiveUp(r)
    /\ mishap' = TRUE
    /\ UNCHANGED <<pair, late, raced, call, jar, serverVars, active, expired,
                   session, changes>>

Replayed(r) ==
    /\ phase[r] = "replayed" /\ Accepted(pair[r])
    /\ phase' = [phase EXCEPT ![r] = "done"]
    /\ refreshing' = [refreshing EXCEPT ![TabOf[r]] = FALSE]
    /\ UNCHANGED <<signedIn, pair, late, raced, call, jar, serverVars, active,
                   expired, history>>

\* Whatever the replayed request fails with (a 404, a timeout) lands in the
\* same catch block as a refused refresh, and signs the tab out.
ReplayFails(r) ==
    /\ phase[r] = "replayed"
    /\ GiveUp(r)
    /\ mishap' = TRUE
    /\ UNCHANGED <<pair, late, raced, call, jar, serverVars, active, expired,
                   session, changes>>

-------------------------------------------------------------------------------
(* What goes on around the requests.                                       *)

\* The access token of the pair in use reaches its expiry. It does not while
\* a request replayed with it is under way: a fresh token outlives a request.
Expire ==
    /\ jar > expired
    /\ \A r \in Request : phase[r] = "replayed" => pair[r] < jar
    /\ expired' = jar
    /\ UNCHANGED <<tabVars, call, jar, serverVars, active, history>>

Change == changes < MaxChanges /\ changes' = changes + 1

\* Nobody holds a refresh that is past its guard and will store a new hash.
Quiet == \A r \in Request : call[r].step # "validated"

\* useLogout in one tab: the store is cleared whatever the server says. The
\* endpoint is guarded by the access token and never refreshes it, so with an
\* expired one the hash and the cookies stay.
Logout(t) ==
    /\ signedIn[t]
    /\ signedIn' = [signedIn EXCEPT ![t] = FALSE]
    /\ IF Accepted(jar) THEN hash' = 0 /\ jar' = 0 ELSE UNCHANGED <<hash, jar>>
    /\ session' = IF Accepted(jar) /\ Quiet THEN "closed" ELSE "leaky"
    /\ Change
    /\ UNCHANGED <<refreshing, phase, pair, late, raced, call, minted, active,
                   expired, mishap>>

\* resetPassword: "Invalidate all sessions".
ResetPassword ==
    /\ hash' = 0
    /\ session' = IF Quiet THEN "closed" ELSE "leaky"
    /\ Change
    /\ UNCHANGED <<tabVars, call, jar, minted, active, expired, mishap>>

\* deactivateUser.
Deactivate ==
    /\ active
    /\ active' = FALSE
    /\ hash' = 0
    /\ session' = IF Quiet THEN "closed" ELSE "leaky"
    /\ Change
    /\ UNCHANGED <<tabVars, call, jar, minted, expired, mishap>>

\* verifyOtp, in a signed-out tab or on another device, which has cookies of
\* its own: there is one hash for both. The status was checked at the password,
\* when the code was mailed, and is not looked at again.
SignIn ==
    /\ minted' = minted + 1
    /\ hash' = minted + 1
    /\ session' = "open"
    /\ Change
    /\ \/ UNCHANGED <<signedIn, jar>>
       \/ \E t \in Tab : /\ ~signedIn[t]
                         /\ signedIn' = [signedIn EXCEPT ![t] = TRUE]
                         /\ jar' = minted + 1
    /\ UNCHANGED <<refreshing, phase, pair, late, raced, call, active, expired,
                   mishap>>

-------------------------------------------------------------------------------

\* What the browser owes to each request: it is answered or times out.
Answer(r) ==
    \/ AnswerOther(r) \/ Queue(r) \/ AskRefresh(r)
    \/ Refreshed(r) \/ RefreshRefused(r) \/ RefreshLost(r)
    \/ Replayed(r) \/ ReplayFails(r)

Next ==
    \/ \E r \in Request : Send(r) \/ Answer(r) \/ Validate(r) \/ Rotate(r)
    \/ \E t \in Tab : Logout(t)
    \/ Expire \/ ResetPassword \/ Deactivate \/ SignIn

Spec == Init /\ [][Next]_vars

\* axios answers every request it sent within its timeout of 30 seconds.
FairSpec == Spec /\ \A r \in Request : WF_vars(Answer(r))

-------------------------------------------------------------------------------
(* Properties.                                                             *)

\* However many requests meet a 401, a tab has one refresh under way exactly
\* while its isRefreshing flag is up.
OneRefreshPerTab ==
    \A t \in Tab :
        LET leading == {r \in Request : TabOf[r] = t /\ phase[r] \in Leading} IN
        /\ refreshing[t] <=> leading # {}
        /\ \A r, q \in leading : r = q

\* The expiry of an access token is invisible: nobody is signed out by the
\* refresh and rotation of the pair, unless somebody ended the session, a
\* refresh's answer was lost, a replay failed, or two refreshes overlapped.
ExpiryIsInvisible ==
    changes > 0 \/ mishap \/ raced \/ \A t \in Tab : signedIn[t]

\* "Invalidate all sessions" (auth.service.ts:211): after a logout or a reset
\* no refresh brings the session back, unless it was past its guard by then
\* or the logout was sent with an expired token.
ClosedStaysClosed == session = "closed" => hash = 0

\* Every request settles, unless it is queued while the leading request of its
\* tab is replayed.
SettlesUnlessLate ==
    \A r \in Request :
        phase[r] = "sent" ~> phase[r] \in Settled \/ r \in late

\* "Queue this request until refresh completes", "Reject all queued requests
\* so their promises settle" (auth.interceptor.ts:72, 97): every request.
EveryRequestSettles ==
    \A r \in Request : phase[r] = "sent" ~> phase[r] \in Settled

===============================================================================
