----------------------------- MODULE BrowserProofs -----------------------------
(***************************************************************************)
(* Theorems about the two models in which pages of a browser meet the      *)
(* server: ClientSession, the signed-in tabs, and DeliveryPortal, the      *)
(* unauthenticated delivery pages. Neither uses a fact of the other.       *)
(*                                                                         *)
(* ClientSession, for any tabs and requests. Three facts carry it, each    *)
(* inductive with the types alone: the flag of a tab is up for exactly one *)
(* leading request (Leads); a closed session has no hash and no refresh    *)
(* past its guard (Shut); and while nothing but expiries happens, at most  *)
(* one refresh is under way, it carries the pair the user row accepts, and *)
(* so it is never refused (Calm).                                          *)
(*                                                                         *)
(* DeliveryPortal, for any pages, requests, files and bounds, in three     *)
(* layers. PortalSound: what requests, pages and the code row hold is of   *)
(* its type, and two requests under way never serve one call. CodesSound,  *)
(* as long as no writer of the row has missed a code: the row lists the    *)
(* newest of the codes due, every request's copy of it is one the row had, *)
(* and a code that opened a session has left the row for good.             *)
(* ReportsSound: a page that sent its form has the report it made noted on *)
(* its session, and no call of that session is beyond it.                  *)
(***************************************************************************)
EXTENDS ClientSession, DeliveryPortal,
        FunctionTheorems, FiniteSetTheorems, SequenceTheorems, TLAPS

-------------------------------------------------------------------------------
(* The session: the flag, the closed session, the calm.                    *)

Leads ==
    /\ \A r \in Request : phase[r] \in Leading => refreshing[TabOf[r]]
    /\ \A t \in Tab : refreshing[t] =>
          \E r \in Request : TabOf[r] = t /\ phase[r] \in Leading
    /\ \A r, q \in Request :
          phase[r] \in Leading /\ phase[q] \in Leading /\ TabOf[r] = TabOf[q] => r = q

Shut == session = "closed" => hash = 0 /\ Quiet

Undisturbed == changes = 0 /\ ~mishap /\ ~raced

Calm ==
    Undisturbed =>
        /\ active /\ hash # 0
        /\ \A t \in Tab : signedIn[t]
        /\ \A r \in Request : call[r].step # "refused"
        /\ \A r, q \in Request :
              call[r].step \in UnderWay /\ call[q].step \in UnderWay => r = q
        /\ \A r \in Request : call[r].step \in UnderWay => call[r].pair = hash
        /\ \A r \in Request : call[r].step \in {"asked", "validated"} => jar = hash
        /\ (\A r \in Request : call[r].step \notin UnderWay) => jar = hash

IInv == TypeOK /\ Leads /\ Shut /\ Calm

-------------------------------------------------------------------------------

LEMMA Starts == Init => IInv
<1> SUFFICES ASSUME Init PROVE IInv
    OBVIOUS
<1>1. NoCall \in Call /\ NoCall.step = "none"
      BY DEF NoCall, Call
<1>2. TypeOK
      BY <1>1 DEF Init, TypeOK, Phase
<1>3. Leads
      BY TabOfAssumption DEF Init, Leads, Leading
<1>4. Shut
      BY DEF Init, Shut
<1>5. \A r \in Request : call[r].step = "none"
      BY <1>1 DEF Init
<1>6. Calm
      BY <1>5 DEF Init, Calm, UnderWay
<1> QED BY <1>2, <1>3, <1>4, <1>6 DEF IInv

LEMMA TypeStep == TypeOK /\ [Next]_vars => TypeOK'
<1> SUFFICES ASSUME TypeOK, [Next]_vars PROVE TypeOK'
    OBVIOUS
<1> USE TabOfAssumption DEF TypeOK, tabVars, serverVars, history
<1>1. ASSUME NEW r \in Request, Send(r) PROVE TypeOK'
      BY <1>1 DEF Send, Phase
<1>2. ASSUME NEW r \in Request, AnswerOther(r) PROVE TypeOK'
      BY <1>2 DEF AnswerOther, Phase
<1>3. ASSUME NEW r \in Request, Queue(r) PROVE TypeOK'
      BY <1>3 DEF Queue, Phase
<1>4. ASSUME NEW r \in Request, AskRefresh(r) PROVE TypeOK'
  <2> [step |-> "asked", pair |-> jar] \in Call
      BY DEF Call, UnderWay
  <2> QED BY <1>4 DEF AskRefresh, Phase
<1>5. ASSUME NEW r \in Request, Validate(r) PROVE TypeOK'
  <2> DEFINE p == IF active /\ hash # 0 /\ call[r].pair = hash
                  THEN "validated" ELSE "refused"
             new == [step |-> p, pair |-> call[r].pair]
  <2>1. call[r].pair \in Nat
        BY DEF Call
  <2>2. new \in Call
        BY <2>1 DEF Call, UnderWay
  <2>3. call' = [call EXCEPT ![r] = new]
        BY <1>5 DEF Validate
  <2> HIDE DEF new
  <2> QED BY <1>5, <2>2, <2>3 DEF Validate
<1>6. ASSUME NEW r \in Request, Rotate(r) PROVE TypeOK'
  <2>1. call[r].pair \in Nat
        BY DEF Call
  <2>2. /\ [step |-> "refused", pair |-> call[r].pair] \in Call
        /\ [step |-> "rotated", pair |-> minted + 1] \in Call
        BY <2>1 DEF Call, UnderWay
  <2> QED BY <1>6, <2>2 DEF Rotate
<1>7. ASSUME NEW r \in Request, Refreshed(r) PROVE TypeOK'
  <2>1. call[r].pair \in Nat
        BY DEF Call
  <2>2. NoCall \in Call
        BY DEF NoCall, Call
  <2> QED BY <1>7, <2>1, <2>2 DEF Refreshed, Phase
<1>8. ASSUME NEW r \in Request, GiveUp(r)
      PROVE  phase' \in [Request -> Phase] /\ signedIn' \in [Tab -> BOOLEAN]
             /\ refreshing' \in [Tab -> BOOLEAN]
      BY <1>8 DEF GiveUp, Phase
<1>9. ASSUME NEW r \in Request, RefreshRefused(r) PROVE TypeOK'
  <2>1. NoCall \in Call
        BY DEF NoCall, Call
  <2> QED BY <1>8, <1>9, <2>1 DEF RefreshRefused
<1>10. ASSUME NEW r \in Request, RefreshLost(r) PROVE TypeOK'
       BY <1>8, <1>10 DEF RefreshLost
<1>11. ASSUME NEW r \in Request, Replayed(r) PROVE TypeOK'
       BY <1>11 DEF Replayed, Phase
<1>12. ASSUME NEW r \in Request, ReplayFails(r) PROVE TypeOK'
       BY <1>8, <1>12 DEF ReplayFails
<1>13. ASSUME NEW t \in Tab, Logout(t) PROVE TypeOK'
  <2>1. /\ signedIn' = [signedIn EXCEPT ![t] = FALSE]
        /\ hash' \in {hash, 0} /\ jar' \in {jar, 0}
        /\ session' \in {"closed", "leaky"}
        /\ changes' = changes + 1
        BY <1>13 DEF Logout, Change
  <2>2. UNCHANGED <<refreshing, phase, pair, late, raced, call, minted, active,
                    expired, mishap>>
        BY <1>13 DEF Logout
  <2> QED BY <2>1, <2>2
<1>14. CASE Expire
       BY <1>14 DEF Expire
<1>15. CASE ResetPassword
       BY <1>15 DEF ResetPassword, Change
<1>16. CASE Deactivate
  <2>1. active' \in BOOLEAN
        BY <1>16, Zenon DEF Deactivate
  <2>2. changes' = changes + 1 /\ hash' = 0 /\ session' \in {"closed", "leaky"}
        BY <1>16 DEF Deactivate, Change
  <2>3. changes' \in Nat /\ hash' \in Nat /\ session' \in {"open", "closed", "leaky"}
        BY <2>2
  <2> QED BY <1>16, <2>1, <2>3, Zenon DEF Deactivate
<1>17. CASE SignIn
  <2>0. signedIn' \in [Tab -> BOOLEAN]
    <3>1. ASSUME NEW t \in Tab, signedIn' = [signedIn EXCEPT ![t] = TRUE]
          PROVE  signedIn' \in [Tab -> BOOLEAN]
          BY <3>1
    <3> QED BY <1>17, <3>1, Zenon DEF SignIn
  <2>1. /\ minted' = minted + 1 /\ hash' = minted + 1
        /\ jar' \in {jar, minted + 1} /\ changes' = changes + 1
        /\ session' = "open"
        BY <1>17, Zenon DEF SignIn, Change
  <2>2. UNCHANGED <<refreshing, phase, pair, late, raced, call, active, expired,
                    mishap>>
        BY <1>17 DEF SignIn
  <2>3. /\ minted' \in Nat /\ hash' \in Nat /\ jar' \in Nat /\ changes' \in Nat
        /\ session' \in {"open", "closed", "leaky"}
        BY <2>1
  <2> QED BY <2>0, <2>2, <2>3, Zenon
<1>18. CASE UNCHANGED vars
       BY <1>18 DEF vars
<1> QED BY <1>1, <1>2, <1>3, <1>4, <1>5, <1>6, <1>7, <1>9, <1>10, <1>11, <1>12,
           <1>13, <1>14, <1>15, <1>16, <1>17, <1>18 DEF Next, Answer

-------------------------------------------------------------------------------
(* The flag and the leading request.                                       *)

LEMMA LeadsStep == TypeOK /\ Leads /\ [Next]_vars => Leads'
<1> SUFFICES ASSUME TypeOK, Leads, [Next]_vars PROVE Leads'
    OBVIOUS
<1>0. /\ phase \in [Request -> Phase] /\ refreshing \in [Tab -> BOOLEAN]
      /\ TabOf \in [Request -> Tab]
      BY TabOfAssumption DEF TypeOK
<1> HIDE DEF TypeOK
\* A step that leaves the flags and the leading requests as they are.
<1>1. ASSUME refreshing' = refreshing,
             \A q \in Request : phase'[q] \in Leading <=> phase[q] \in Leading
      PROVE  Leads'
      BY <1>0, <1>1 DEF Leads
\* A step that ends the leading request of a tab.
<1>2. ASSUME NEW r \in Request, phase[r] \in Leading,
             refreshing' = [refreshing EXCEPT ![TabOf[r]] = FALSE],
             phase'[r] \notin Leading,
             \A q \in Request \ {r} : phase'[q] \in Leading <=> phase[q] \in Leading
      PROVE  Leads'
      BY <1>0, <1>2, Zenon DEF Leads
<1>3. ASSUME NEW r \in Request, Send(r) PROVE Leads'
      BY <1>0, <1>1, <1>3 DEF Send, Leading
<1>4. ASSUME NEW r \in Request, AnswerOther(r) PROVE Leads'
      BY <1>0, <1>1, <1>4 DEF AnswerOther, Leading
<1>5. ASSUME NEW r \in Request, Queue(r) PROVE Leads'
      BY <1>0, <1>1, <1>5 DEF Queue, Leading
<1>6. ASSUME NEW r \in Request, AskRefresh(r) PROVE Leads'
  <2>1. /\ phase' = [phase EXCEPT ![r] = "refreshing"]
        /\ refreshing' = [refreshing EXCEPT ![TabOf[r]] = TRUE]
        /\ ~refreshing[TabOf[r]]
        BY <1>6 DEF AskRefresh
  <2>2. /\ phase'[r] \in Leading
        /\ \A q \in Request \ {r} : phase'[q] \in Leading <=> phase[q] \in Leading
        BY <1>0, <2>1 DEF Leading
  <2>3. \A q \in Request : TabOf[q] = TabOf[r] => phase[q] \notin Leading
        BY <2>1, Zenon DEF Leads
  <2> QED BY <1>0, <2>1, <2>2, <2>3, Zenon DEF Leads
<1>7. ASSUME NEW r \in Request, Validate(r) \/ Rotate(r) PROVE Leads'
      BY <1>1, <1>7 DEF Validate, Rotate, tabVars
<1>8. ASSUME NEW r \in Request, Refreshed(r) PROVE Leads'
  <2>1. \A q \in Request :
          phase'[q] = IF q = r THEN "replayed"
                      ELSE IF q \in QueuedIn(TabOf[r]) THEN "sent" ELSE phase[q]
        BY <1>8 DEF Refreshed
  <2>2. phase[r] \in Leading /\ refreshing' = refreshing
        BY <1>8 DEF Refreshed, Leading
  <2> QED BY <1>1, <2>1, <2>2 DEF QueuedIn, Leading
\* What a leading request's failure does.
<1>9. ASSUME NEW r \in Request, phase[r] \in Leading, GiveUp(r) PROVE Leads'
  <2>1. \A q \in Request :
          phase'[q] = IF q \in QueuedIn(TabOf[r]) \cup {r} THEN "failed" ELSE phase[q]
        BY <1>9 DEF GiveUp
  <2>2. /\ phase'[r] \notin Leading
        /\ \A q \in Request \ {r} : phase'[q] \in Leading <=> phase[q] \in Leading
        BY <2>1 DEF QueuedIn, Leading
  <2> QED BY <1>2, <1>9, <2>2 DEF GiveUp
<1>10. ASSUME NEW r \in Request,
              RefreshRefused(r) \/ RefreshLost(r) \/ ReplayFails(r)
       PROVE  Leads'
       BY <1>9, <1>10 DEF RefreshRefused, RefreshLost, ReplayFails, Leading
<1>11. ASSUME NEW r \in Request, Replayed(r) PROVE Leads'
  <2>1. /\ phase' = [phase EXCEPT ![r] = "done"] /\ phase[r] \in Leading
        /\ refreshing' = [refreshing EXCEPT ![TabOf[r]] = FALSE]
        BY <1>11 DEF Replayed, Leading
  <2> QED BY <1>0, <1>2, <2>1 DEF Leading
<1>12. ASSUME phase' = phase, refreshing' = refreshing PROVE Leads'
       BY <1>1, <1>12
<1>13. CASE \/ \E t \in Tab : Logout(t)
            \/ Expire \/ ResetPassword \/ Deactivate \/ SignIn \/ UNCHANGED vars
       BY <1>12, <1>13
          DEF Logout, Expire, ResetPassword, Deactivate, SignIn, vars, tabVars
<1> QED BY <1>3, <1>4, <1>5, <1>6, <1>7, <1>8, <1>10, <1>11, <1>13 DEF Next, Answer

-------------------------------------------------------------------------------
(* The end of a session.                                                   *)

LEMMA ShutStep == TypeOK /\ Shut /\ [Next]_vars => Shut'
<1> SUFFICES ASSUME TypeOK, Shut, [Next]_vars PROVE Shut'
    OBVIOUS
<1>0. call \in [Request -> Call]
      BY DEF TypeOK
\* A step that makes no refresh pass its guard and leaves the hash alone.
<1>1. ASSUME session' = session, hash' = hash,
             \A q \in Request : call'[q].step = "validated" => call[q].step = "validated"
      PROVE  Shut'
      BY <1>1 DEF Shut, Quiet
<1>2. ASSUME NEW r \in Request, Send(r) \/ AnswerOther(r) \/ Queue(r)
                                \/ RefreshLost(r) \/ Replayed(r) \/ ReplayFails(r)
      PROVE  Shut'
      BY <1>1, <1>2 DEF Send, AnswerOther, Queue, RefreshLost, Replayed,
                        ReplayFails, serverVars, history
<1>3. ASSUME NEW r \in Request, AskRefresh(r) PROVE Shut'
  <2>1. \A q \in Request : call'[q] = IF q = r THEN [step |-> "asked", pair |-> jar]
                                      ELSE call[q]
        BY <1>0, <1>3 DEF AskRefresh
  <2> QED BY <1>1, <1>3, <2>1 DEF AskRefresh, serverVars, history
<1>4. ASSUME NEW r \in Request, Validate(r) PROVE Shut'
  <2>1. /\ call'[r].step = "validated" => hash # 0
        /\ \A q \in Request \ {r} : call'[q] = call[q]
        /\ session' = session /\ hash' = hash
        BY <1>0, <1>4 DEF Validate, serverVars, history
  <2> QED BY <2>1 DEF Shut, Quiet
<1>5. ASSUME NEW r \in Request, Rotate(r) PROVE Shut'
  <2>1. session' = session /\ call[r].step = "validated"
        BY <1>5 DEF Rotate, history
  <2> QED BY <2>1 DEF Shut, Quiet
<1>6. ASSUME NEW r \in Request, Refreshed(r) \/ RefreshRefused(r) PROVE Shut'
  <2>1. \A q \in Request : call'[q] = IF q = r THEN NoCall ELSE call[q]
        BY <1>0, <1>6 DEF Refreshed, RefreshRefused
  <2> QED BY <1>1, <1>6, <2>1
          DEF Refreshed, RefreshRefused, NoCall, serverVars, history
<1>7. ASSUME NEW t \in Tab, Logout(t) PROVE Shut'
  <2>1. call' = call
        BY <1>7 DEF Logout
  <2> QED BY <1>7, <2>1 DEF Logout, Shut, Quiet
<1>8. CASE ResetPassword \/ Deactivate
      BY <1>8 DEF ResetPassword, Deactivate, Shut, Quiet
<1>9. CASE SignIn
      BY <1>9 DEF SignIn, Shut
<1>10. CASE Expire \/ UNCHANGED vars
       BY <1>1, <1>10 DEF Expire, vars, serverVars, history
<1> QED BY <1>2, <1>3, <1>4, <1>5, <1>6, <1>7, <1>8, <1>9, <1>10 DEF Next, Answer

-------------------------------------------------------------------------------
(* A session nobody ends, in which refreshes neither overlap nor get lost. *)

LEMMA CalmStep == TypeOK /\ Calm /\ [Next]_vars => Calm'
<1> SUFFICES ASSUME TypeOK, Calm, [Next]_vars, Undisturbed' PROVE Calm'
    BY DEF Calm
<1>0. /\ call \in [Request -> Call] /\ changes \in Nat
      /\ {jar, hash, minted} \subseteq Nat
      BY DEF TypeOK
\* A step that concerns neither the pairs nor the stores.
<1>1. ASSUME UNCHANGED <<changes, mishap, raced, signedIn, call, jar, hash, active>>
      PROVE  Calm'
      BY <1>1 DEF Calm, Undisturbed
<1>2. ASSUME NEW r \in Request, Send(r) \/ AnswerOther(r) \/ Queue(r) \/ Replayed(r)
      PROVE  Calm'
      BY <1>1, <1>2 DEF Send, AnswerOther, Queue, Replayed, serverVars, history
<1>3. CASE Expire \/ UNCHANGED vars
      BY <1>1, <1>3 DEF Expire, vars, tabVars, serverVars, history
<1>4. ASSUME NEW r \in Request, RefreshLost(r) \/ ReplayFails(r) PROVE FALSE
      BY <1>4 DEF RefreshLost, ReplayFails, Undisturbed
<1>5. CASE \/ \E t \in Tab : Logout(t)
           \/ ResetPassword \/ Deactivate \/ SignIn
  <2>1. Change
        BY <1>5 DEF Logout, ResetPassword, Deactivate, SignIn
  <2> QED BY <1>0, <2>1 DEF Change, Undisturbed
<1>6. ASSUME NEW r \in Request, AskRefresh(r) PROVE Calm'
  <2>1. /\ UNCHANGED <<changes, mishap, signedIn, jar, hash, active>>
        /\ call' = [call EXCEPT ![r] = [step |-> "asked", pair |-> jar]]
        /\ ~raced /\ \A q \in Request : call[q].step \notin UnderWay
        BY <1>6 DEF AskRefresh, serverVars, history, Undisturbed
  <2>2. Undisturbed
        BY <2>1 DEF Undisturbed
  <2>3. \A q \in Request : call'[q] = IF q = r THEN [step |-> "asked", pair |-> jar]
                                      ELSE call[q]
        BY <1>0, <2>1
  <2> QED BY <2>1, <2>2, <2>3 DEF Calm, UnderWay
<1>7. ASSUME NEW r \in Request, Validate(r) PROVE Calm'
  <2>1. /\ UNCHANGED <<changes, mishap, raced, signedIn, jar, hash, active>>
        /\ call[r].step = "asked"
        BY <1>7 DEF Validate, tabVars, serverVars, history
  <2>2. Undisturbed
        BY <2>1 DEF Undisturbed
  <2>3. active /\ hash # 0 /\ call[r].pair = hash /\ jar = hash
        BY <2>1, <2>2 DEF Calm, UnderWay
  <2>4. call' = [call EXCEPT ![r] = [step |-> "validated", pair |-> call[r].pair]]
        BY <1>7, <2>3 DEF Validate
  <2>5. \A q \in Request :
          call'[q] = IF q = r THEN [step |-> "validated", pair |-> call[r].pair]
                     ELSE call[q]
        BY <1>0, <2>4
  <2> QED BY <2>1, <2>2, <2>3, <2>5 DEF Calm, UnderWay
<1>8. ASSUME NEW r \in Request, Rotate(r) PROVE Calm'
  <2>1. /\ UNCHANGED <<changes, mishap, raced, signedIn, jar, active>>
        /\ call[r].step = "validated"
        BY <1>8 DEF Rotate, tabVars, history
  <2>2. Undisturbed
        BY <2>1 DEF Undisturbed
  <2>3. active
        BY <2>2 DEF Calm
  <2>4. /\ hash' = minted + 1
        /\ call' = [call EXCEPT ![r] = [step |-> "rotated", pair |-> minted + 1]]
        BY <1>8, <2>3 DEF Rotate
  <2>5. \A q \in Request :
          call'[q] = IF q = r THEN [step |-> "rotated", pair |-> minted + 1]
                     ELSE call[q]
        BY <1>0, <2>4
  <2>6. \A q \in Request \ {r} : call[q].step \notin UnderWay
        BY <2>1, <2>2 DEF Calm, UnderWay
  <2>7. hash' # 0
        BY <1>0, <2>4
  <2> QED BY <2>1, <2>2, <2>3, <2>4, <2>5, <2>6, <2>7 DEF Calm, UnderWay
<1>9. ASSUME NEW r \in Request, Refreshed(r) PROVE Calm'
  <2>1. /\ UNCHANGED <<changes, mishap, raced, signedIn, hash, active>>
        /\ call[r].step = "rotated" /\ jar' = call[r].pair
        /\ call' = [call EXCEPT ![r] = NoCall]
        BY <1>9 DEF Refreshed, serverVars, history
  <2>2. Undisturbed
        BY <2>1 DEF Undisturbed
  <2>3. \A q \in Request : call'[q] = IF q = r THEN NoCall ELSE call[q]
        BY <1>0, <2>1
  <2>4. jar' = hash /\ \A q \in Request \ {r} : call[q].step \notin UnderWay
        BY <2>1, <2>2 DEF Calm, UnderWay
  <2> QED BY <2>1, <2>2, <2>3, <2>4 DEF Calm, UnderWay, NoCall
<1>10. ASSUME NEW r \in Request, RefreshRefused(r) PROVE FALSE
  <2>1. UNCHANGED <<changes, mishap, raced>> /\ call[r].step = "refused"
        BY <1>10 DEF RefreshRefused, history
  <2> QED BY <2>1 DEF Calm, Undisturbed
<1> QED BY <1>2, <1>3, <1>4, <1>5, <1>6, <1>7, <1>8, <1>9, <1>10 DEF Next, Answer

-------------------------------------------------------------------------------

LEMMA Inductive == Spec => []IInv
<1>1. IInv /\ [Next]_vars => IInv'
      BY TypeStep, LeadsStep, ShutStep, CalmStep DEF IInv
<1> QED BY Starts, <1>1, PTL DEF Spec

\* Every variable keeps its type.
THEOREM TypeCorrect == Spec => []TypeOK
BY Inductive, PTL DEF IInv

\* However many 401s a tab's requests meet, one refresh is under way in it
\* exactly while isRefreshing is up.
THEOREM OneRefresh == Spec => []OneRefreshPerTab
<1>1. IInv => OneRefreshPerTab
  <2> SUFFICES ASSUME Leads, NEW t \in Tab
               PROVE  LET leading == {r \in Request : TabOf[r] = t /\ phase[r] \in Leading}
                      IN  /\ refreshing[t] <=> leading # {}
                          /\ \A r, q \in leading : r = q
      BY DEF IInv, OneRefreshPerTab
  <2> DEFINE leading == {r \in Request : TabOf[r] = t /\ phase[r] \in Leading}
  <2>1. refreshing[t] => leading # {}
        BY DEF Leads
  <2>2. leading # {} => refreshing[t]
        BY DEF Leads
  <2>3. \A r, q \in leading : r = q
        BY DEF Leads
  <2> QED BY <2>1, <2>2, <2>3, Zenon
<1> QED BY Inductive, <1>1, PTL

\* After a logout or a password reset no refresh brings the session back,
\* unless it was past its guard by then.
THEOREM StaysClosed == Spec => []ClosedStaysClosed
<1>1. IInv => ClosedStaysClosed
      BY DEF IInv, Shut, ClosedStaysClosed
<1> QED BY Inductive, <1>1, PTL

\* Refreshing and rotating the pair signs nobody out by itself.
THEOREM Invisible == Spec => []ExpiryIsInvisible
<1>1. TypeOK => changes \in Nat
      BY DEF TypeOK
<1>2. IInv => ExpiryIsInvisible
      BY <1>1, SMT DEF IInv, Calm, Undisturbed, ExpiryIsInvisible
<1> QED BY Inductive, <1>2, PTL

-------------------------------------------------------------------------------
(* The portal: what a filter leaves of a list of codes.                    *)

\* A list of codes of which later ones are older.
Descending(s) == \A i, j \in DOMAIN s : i < j => s[i] > s[j]

\* s is what t begins with.
Begins(s, t) == Len(s) <= Len(t) /\ \A i \in 1..Len(s) : s[i] = t[i]

LEMMA CodesAreNumbers ==
    ASSUME NEW s \in Seq(Code)
    PROVE  /\ Len(s) \in Nat /\ DOMAIN s = 1..Len(s)
           /\ \A i \in 1..Len(s) : s[i] \in Code /\ s[i] \in Nat
<1>1. Len(s) \in Nat /\ DOMAIN s = 1..Len(s) /\ s \in [1..Len(s) -> Code]
      BY LenProperties
<1>2. \A c \in Code : c \in Nat
      BY BoundAssumption DEF Code
<1> QED  BY <1>1, <1>2

\* The places of a list are numbered by their rank among the live ones.
LEMMA Ranks ==
    ASSUME NEW m \in Nat, NEW live \in SUBSET (1..m)
    PROVE  /\ Cardinality(live) \in 0..m
           /\ \A i \in live : Cardinality({j \in live : j <= i}) \in 1..Cardinality(live)
           /\ \A k \in 1..Cardinality(live) :
                 \E i \in live : Cardinality({j \in live : j <= i}) = k
<1> DEFINE n == Cardinality(live)
           upTo(i) == {j \in live : j <= i}
           rank == [i \in live |-> Cardinality(upTo(i))]
<1>1. IsFiniteSet(1..m) /\ Cardinality(1..m) = m
      BY FS_Interval
<1>2. IsFiniteSet(live) /\ n <= m /\ n \in Nat
      BY <1>1, FS_Subset, FS_CardinalityType
<1>3. ASSUME NEW i \in live
      PROVE  IsFiniteSet(upTo(i)) /\ Cardinality(upTo(i)) \in 1..n
  <2>1. IsFiniteSet(upTo(i)) /\ Cardinality(upTo(i)) <= n
        BY <1>2, FS_Subset
  <2>2. Cardinality(upTo(i)) \in Nat /\ upTo(i) # {}
        BY <2>1, FS_CardinalityType
  <2>3. Cardinality(upTo(i)) # 0
        BY <2>1, <2>2, FS_EmptySet
  <2> QED  BY <1>2, <2>1, <2>2, <2>3
<1>4. ASSUME NEW i \in live, NEW j \in live, rank[i] = rank[j]
      PROVE  i = j
  <2>1. ASSUME NEW a \in live, NEW b \in live, a < b,
               Cardinality(upTo(a)) = Cardinality(upTo(b))
        PROVE  FALSE
    <3>0. a \in Int /\ b \in Int /\ \A x \in live : x \in Int
          OBVIOUS
    <3>1. a < b
          BY <2>1
    <3>2. \A x \in live : x <= a => x <= b
          BY <3>0, <3>1
    <3>3. upTo(a) \subseteq upTo(b)
          BY <3>2
    <3>4. b \in upTo(b) /\ b \notin upTo(a)
          BY <3>0, <3>1
    <3> HIDE DEF upTo
    <3> QED  BY <1>3, <2>1, <3>3, <3>4, FS_Subset
  <2> QED  BY <1>4, <2>1
<1>5. rank \in [live -> 1..n]
      BY <1>3
<1>6. IsFiniteSet(1..n) /\ Cardinality(1..n) = n
      BY <1>2, FS_Interval
<1>7. rank \in Injection(live, 1..n)
  <2> HIDE DEF rank, n
  <2> QED  BY <1>4, <1>5, Fun_IsInj
<1>8. rank \in Surjection(live, 1..n)
  <2> HIDE DEF rank
  <2> QED  BY <1>2, <1>6, <1>7, FS_Injection
<1>9. \A k \in 1..n : \E i \in live : rank[i] = k
  <2> HIDE DEF rank, n
  <2> QED  BY <1>8 DEF Surjection
<1> QED  BY <1>2, <1>3, <1>9

\* The filter's result is a list of the same codes, no longer than before.
LEMMA UnexpiredType ==
    ASSUME NEW s \in Seq(Code), lapsed \in Nat
    PROVE  Unexpired(s) \in Seq(Code) /\ Len(Unexpired(s)) <= Len(s)
<1> DEFINE live == {i \in DOMAIN s : s[i] > lapsed}
           n == Cardinality(live)
           Nth(k) == CHOOSE i \in live : Cardinality({j \in live : j <= i}) = k
<1>1. live \in SUBSET (1..Len(s)) /\ Len(s) \in Nat
      BY LenProperties
<1>2. /\ n \in 0..Len(s)
      /\ \A k \in 1..n : \E i \in live : Cardinality({j \in live : j <= i}) = k
  <2> HIDE DEF live
  <2> QED  BY <1>1, Ranks
<1>3. \A k \in 1..n : Nth(k) \in live
  <2> HIDE DEF live, n
  <2> QED  BY <1>2
<1>4. \A i \in live : s[i] \in Code
      BY <1>1, ElementOfSeq
<1>5. Unexpired(s) = [k \in 1..n |-> s[Nth(k)]]
      BY DEF Unexpired
<1> HIDE DEF live, n, Nth
<1>6. Unexpired(s) \in [1..n -> Code]
      BY <1>3, <1>4, <1>5
<1> QED  BY <1>1, <1>2, <1>6, IsASeq, LenProperties

\* Of a list in order it leaves a beginning, up to the first that expired.
LEMMA UnexpiredBegins ==
    ASSUME NEW s \in Seq(Code), lapsed \in Nat, Descending(s)
    PROVE  /\ Begins(Unexpired(s), s)
           /\ \A i \in 1..Len(Unexpired(s)) : s[i] > lapsed
           /\ Len(Unexpired(s)) < Len(s) => s[Len(Unexpired(s)) + 1] <= lapsed
<1> DEFINE live == {i \in DOMAIN s : s[i] > lapsed}
           n == Cardinality(live)
           Nth(k) == CHOOSE i \in live : Cardinality({j \in live : j <= i}) = k
<1>1. live \in SUBSET (1..Len(s)) /\ Len(s) \in Nat /\ DOMAIN s = 1..Len(s)
      BY LenProperties
<1>2. /\ n \in 0..Len(s)
      /\ \A i \in live : Cardinality({j \in live : j <= i}) \in 1..n
      /\ \A k \in 1..n : \E i \in live : Cardinality({j \in live : j <= i}) = k
  <2> HIDE DEF live
  <2> QED  BY <1>1, Ranks
<1>3. ASSUME NEW i \in live PROVE Cardinality({j \in live : j <= i}) = i
  <2>1. \A j \in 1..i : j \in live
    <3> SUFFICES ASSUME NEW j \in 1..i, j # i PROVE j \in live
        OBVIOUS
    <3>1. j \in DOMAIN s /\ i \in DOMAIN s /\ s[j] > s[i] /\ s[i] > lapsed
          BY <1>1 DEF Descending
    <3>2. s[j] \in Nat /\ s[i] \in Nat
          BY <1>1, <3>1, CodesAreNumbers
    <3> QED  BY <3>1, <3>2
  <2>2. {j \in live : j <= i} = 1..i
        BY <1>1, <2>1
  <2>3. i \in Nat
        BY <1>1
  <2>4. Cardinality(1..i) = i
        BY <1>1, <2>3, FS_Interval
  <2> QED  BY <2>2, <2>4
<1>4. live = 1..n
  <2> HIDE DEF live, n
  <2>1. \A i \in live : i \in 1..n
        BY <1>2, <1>3
  <2>2. \A k \in 1..n : k \in live
        BY <1>2, <1>3
  <2> QED  BY <2>1, <2>2
<1>5. ASSUME NEW k \in 1..n PROVE Nth(k) = k
  <2>1. Nth(k) \in live /\ Cardinality({j \in live : j <= Nth(k)}) = k
    <3> HIDE DEF live, n
    <3> QED  BY <1>2
  <2> HIDE DEF live, n, Nth
  <2> QED  BY <1>3, <2>1
<1>6. Unexpired(s) = [k \in 1..n |-> s[Nth(k)]]
      BY DEF Unexpired
<1>7. \A i \in 1..Len(s) : i \in 1..n <=> s[i] > lapsed
      BY <1>1, <1>4
<1>8. \A i \in 1..Len(s) : s[i] \in Nat
      BY CodesAreNumbers
<1> HIDE DEF live, n, Nth
<1>9. Unexpired(s) = [k \in 1..n |-> s[k]]
      BY <1>5, <1>6
<1>10. Len(Unexpired(s)) = n
  <2>1. [k \in 1..n |-> s[k]] \in [1..n -> Code]
        BY <1>1, <1>2, ElementOfSeq
  <2> QED  BY <1>2, <1>9, <2>1, IsASeq, LenProperties
<1>11. Begins(Unexpired(s), s)
      BY <1>2, <1>9, <1>10 DEF Begins
<1>12. \A i \in 1..n : s[i] > lapsed
      BY <1>1, <1>2, <1>7
<1>13. n < Len(s) => s[n + 1] <= lapsed
      BY <1>1, <1>2, <1>7, <1>8
<1> QED  BY <1>10, <1>11, <1>12, <1>13

\* The list as it is cut off.
LEMMA NewestType ==
    ASSUME NEW s \in Seq(Code)
    PROVE  /\ Newest(s) \in Seq(Code) /\ Begins(Newest(s), s)
           /\ Len(Newest(s)) = IF Len(s) < MaxActive THEN Len(s) ELSE MaxActive
<1> DEFINE n == IF Len(s) < MaxActive THEN Len(s) ELSE MaxActive
<1>1. n \in 0..Len(s) /\ Len(s) \in Nat
      BY LimitAssumption, LenProperties
<1>2. Newest(s) = SubSeq(s, 1, n)
      BY DEF Newest
<1> HIDE DEF n
<1>3. /\ SubSeq(s, 1, n) \in Seq(Code) /\ Len(SubSeq(s, 1, n)) = n
      /\ \A i \in 1..n : SubSeq(s, 1, n)[i] = s[i]
      BY <1>1, SubSeqProperties
<1> QED  BY <1>1, <1>2, <1>3 DEF Begins, n

-------------------------------------------------------------------------------
(* The portal: pages, requests and rows agree. A request names rows that   *)
(* exist, and a page awaits calls of the step it is in, made for it and,   *)
(* but for uploads, with its session and one at a time; a session names a  *)
(* report that was made with it, and a report the session that made it.    *)

LinkOp == {"identify", "verify"}
CallOp == {"submit", "finalize"}
HasSession == {"form", "uploading", "finalizing", "submitted"}

\* The calls a page awaits in each step.
Expected ==
    [closed |-> {}, error |-> {}, identify |-> LinkOp, code |-> {"verify"},
     form |-> {"submit"}, uploading |-> {"upload"}, finalizing |-> {"finalize"},
     submitted |-> {}]

RequestSound(r) ==
    LET q == req[r] IN
    /\ q.op \in LinkOp =>
          /\ Len(q.seen) <= MaxActive /\ Len(q.valid) <= MaxActive
          /\ q.op = "identify" => q.code \in 1..generated
    /\ q.op \in CallOp =>
          /\ q.session \in 1..Len(sessions)
          /\ q.report \in 0..Len(reports)
          /\ q.step = "created" => /\ q.op = "submit" /\ q.report # 0
                                   /\ reports[q.report] = q.session

PageSound(p) ==
    /\ IF page[p] \in HasSession THEN holds[p] \in 1..Len(sessions) ELSE holds[p] = 0
    /\ \A r \in waits[p] : /\ req[r].op \in Expected[page[p]] /\ req[r].page = p
                           /\ req[r].op \in CallOp => req[r].session = holds[p]
    /\ page[p] # "uploading" => \A r, s \in waits[p] : r = s

RequestsSound == \A r \in Req : RequestSound(r)
PagesSound == \A p \in Page : PageSound(p)
HoldersDiffer == \A p, q \in Page : p # q /\ holds[p] = holds[q] => holds[p] = 0

RowsSound ==
    /\ \A i \in 1..Len(sessions) :
          /\ sessions[i].report \in 0..Len(reports)
          /\ sessions[i].report # 0 => reports[sessions[i].report] = i
    /\ \A i \in 1..Len(reports) : reports[i] \in 1..Len(sessions)

PortalSound ==
    PortalTypeOK /\ RequestsSound /\ PagesSound /\ HoldersDiffer /\ RowsSound

\* Codes, sessions and reports only get more.
Grown ==
    /\ generated' \in Nat /\ generated <= generated'
    /\ sessions' \in Seq(Session) /\ Len(sessions) <= Len(sessions')
    /\ reports' \in Seq(Nat) /\ Len(reports) <= Len(reports')
    /\ \A i \in 1..Len(reports) : reports'[i] = reports[i]

LEMMA CallFields ==
    ASSUME NEW q \in {Idle} \cup CodeReq \cup SessionReq \cup UploadReq
    PROVE  /\ q.op \in {"none", "upload"} \cup LinkOp \cup CallOp
           /\ q.op = "none" <=> q = Idle
           /\ q.op \in LinkOp =>
                 /\ q \in CodeReq /\ q.page \in Page /\ q.code \in Nat
                 /\ q.seen \in Seq(Code) /\ q.valid \in Seq(Code) /\ q.attempts \in Nat
           /\ q.op \in CallOp =>
                 /\ q \in SessionReq /\ q.page \in Page /\ q.session \in Nat
                 /\ q.step \in {"read", "admitted", "created"}
                 /\ q.used \in BOOLEAN /\ q.report \in Nat
           /\ q.op = "upload" => q.page \in Page /\ q.file \in File
<1>1. CASE q = Idle
      BY <1>1 DEF Idle, LinkOp, CallOp
<1>2. CASE q \in CodeReq
      BY <1>2 DEF Idle, LinkOp, CallOp, CodeReq
<1>3. CASE q \in SessionReq
      BY <1>3 DEF Idle, LinkOp, CallOp, SessionReq
<1>4. CASE q \in UploadReq
      BY <1>4 DEF Idle, LinkOp, CallOp, UploadReq
<1> QED  BY <1>1, <1>2, <1>3, <1>4

LEMMA Typed ==
    ASSUME PortalSound
    PROVE  /\ page \in [Page -> Step] /\ waits \in [Page -> SUBSET Req]
           /\ todo \in [Page -> SUBSET File] /\ failed \in [Page -> SUBSET File]
           /\ holds \in [Page -> Nat]
           /\ req \in [Req -> {Idle} \cup CodeReq \cup SessionReq \cup UploadReq]
           /\ slot \in Slot /\ slot.codes \in Seq(Code) /\ slot.attempts \in Nat
           /\ Len(slot.codes) <= MaxActive
           /\ generated \in Nat /\ generated <= MaxCodes
           /\ lapsed \in Nat /\ lapsed <= generated
           /\ sessions \in Seq(Session) /\ Len(sessions) \in Nat
           /\ reports \in Seq(Nat) /\ Len(reports) \in Nat
           /\ due \in Seq(Code) /\ opened \in [Code -> Nat]
BY BoundAssumption, LenProperties DEF PortalSound, PortalTypeOK, Slot

\* Grown rows keep a request sound that goes on.
LEMMA RequestStaysSound ==
    ASSUME PortalSound, Grown, NEW r \in Req, req'[r] = req[r]
    PROVE  RequestSound(r)'
<1>1. /\ generated \in Nat /\ Len(sessions) \in Nat /\ Len(reports) \in Nat
      /\ Len(sessions') \in Nat /\ Len(reports') \in Nat
      BY Typed, LenProperties DEF Grown
<1>2. PICK q \in {Idle} \cup CodeReq \cup SessionReq \cup UploadReq : q = req[r]
      BY Typed
<1>3. RequestSound(r)
      BY DEF PortalSound, RequestsSound
<1>4. CASE q.op \in LinkOp
      BY <1>1, <1>2, <1>3, <1>4 DEF RequestSound, LinkOp, CallOp, Grown
<1>5. CASE q.op \in CallOp
  <2>1. q.op \notin LinkOp /\ q.report \in Nat
        BY <1>5, CallFields DEF LinkOp, CallOp
  <2>2. q.session \in 1..Len(sessions') /\ q.report \in 0..Len(reports')
        BY <1>1, <1>2, <1>3, <1>5 DEF RequestSound, Grown
  <2>3. q.step = "created" => reports'[q.report] = q.session
        BY <1>1, <1>2, <1>3, <1>5 DEF RequestSound, Grown
  <2> QED  BY <1>2, <1>3, <1>5, <2>1, <2>2, <2>3 DEF RequestSound
<1>6. CASE q.op \notin LinkOp \cup CallOp
      BY <1>2, <1>6 DEF RequestSound
<1> QED  BY <1>4, <1>5, <1>6

LEMMA RequestsStaySound ==
    ASSUME PortalSound, Grown, NEW r \in Req,
           NEW new \in {Idle} \cup CodeReq \cup SessionReq \cup UploadReq,
           req' = [req EXCEPT ![r] = new],
           new.op \in LinkOp =>
              /\ Len(new.seen) <= MaxActive /\ Len(new.valid) <= MaxActive
              /\ new.op = "identify" => new.code \in 1..generated',
           new.op \in CallOp =>
              /\ new.session \in 1..Len(sessions')
              /\ new.report \in 0..Len(reports')
              /\ new.step = "created" => /\ new.op = "submit" /\ new.report # 0
                                         /\ reports'[new.report] = new.session
    PROVE  /\ req' \in [Req -> {Idle} \cup CodeReq \cup SessionReq \cup UploadReq]
           /\ RequestsSound'
           /\ req'[r] = new /\ \A s \in Req : s # r => req'[s] = req[s]
<1>1. /\ req' \in [Req -> {Idle} \cup CodeReq \cup SessionReq \cup UploadReq]
      /\ req'[r] = new /\ \A s \in Req : s # r => req'[s] = req[s]
      BY Typed
<1>2. RequestSound(r)'
      BY <1>1 DEF RequestSound
<1>3. ASSUME NEW s \in Req PROVE RequestSound(s)'
      BY <1>1, <1>2, RequestStaysSound
<1> QED  BY <1>1, <1>3 DEF RequestsSound

\* Other pages are not touched by a step of page p and of request r, none of theirs.
LEMMA PageStaysSound ==
    ASSUME PortalSound, Grown, NEW p \in Page,
           page'[p] = page[p], waits'[p] = waits[p], holds'[p] = holds[p],
           \A s \in waits[p] : /\ req'[s].op = req[s].op /\ req'[s].page = req[s].page
                               /\ req[s].op \in CallOp => req'[s].session = req[s].session
    PROVE  PageSound(p)'
<1>1. PageSound(p) /\ Len(sessions) \in Nat /\ Len(sessions') \in Nat
      BY Typed, LenProperties DEF PortalSound, PagesSound, Grown
<1>2. holds[p] \in 1..Len(sessions) => holds[p] \in 1..Len(sessions')
      BY <1>1 DEF Grown
<1> QED  BY <1>1, <1>2 DEF PageSound

\* What the caller's page does on an answer.
LEMMA Settling ==
    ASSUME PortalSound, NEW r \in Req, req[r] # Idle, NEW ok \in BOOLEAN, NEW s \in Nat,
           Settle(req[r].page, r, ok, s)
    PROVE  LET p == req[r].page IN
           /\ p \in Page
           /\ page' \in [Page -> Step] /\ waits' \in [Page -> SUBSET Req]
           /\ todo' \in [Page -> SUBSET File] /\ failed' \in [Page -> SUBSET File]
           /\ holds' \in [Page -> Nat]
           /\ \A q \in Page : q # p =>
                 /\ page'[q] = page[q] /\ waits'[q] = waits[q]
                 /\ todo'[q] = todo[q] /\ holds'[q] = holds[q] /\ r \notin waits[q]
           /\ waits'[p] = waits[p] \ {r}
           /\ r \notin waits[p] =>
                 page'[p] = page[p] /\ todo'[p] = todo[p] /\ holds'[p] = holds[p]
           /\ r \in waits[p] =>
                 /\ page'[p] = After(page[p], req[r].op, ok)
                 /\ todo'[p] = IF req[r].op = "submit" /\ ok THEN File ELSE todo[p]
                 /\ holds'[p] = IF req[r].op = "verify" /\ ok THEN s ELSE holds[p]
<1>1. PICK q \in {Idle} \cup CodeReq \cup SessionReq \cup UploadReq : q = req[r]
      BY Typed
<1>2. PICK p : p = q.page
      OBVIOUS
<1>3. /\ p \in Page /\ q.op \in LinkOp \cup CallOp \cup {"upload"}
      /\ q.op = "upload" => q.file \in File
      BY <1>1, <1>2, CallFields
<1>4. \A x \in Page : x # p => r \notin waits[x]
      BY <1>1, <1>2 DEF PortalSound, PagesSound, PageSound
<1>5. page[p] \in Step
      BY <1>3, Typed
<1>6. After(page[p], q.op, ok) \in Step
      BY <1>3, <1>5 DEF After, Step, LinkOp, CallOp
<1>7. CASE r \in waits[p]
  <2>1. /\ waits' = [waits EXCEPT ![p] = @ \ {r}]
        /\ page' = [page EXCEPT ![p] = After(@, q.op, ok)]
        /\ todo' = [todo EXCEPT ![p] = IF q.op = "submit" /\ ok THEN File ELSE @]
        /\ failed' = [failed EXCEPT ![p] =
               IF q.op = "submit" /\ ok THEN {}
               ELSE IF q.op = "upload" /\ ~ok THEN @ \cup {q.file} ELSE @]
        /\ holds' = [holds EXCEPT ![p] = IF q.op = "verify" /\ ok THEN s ELSE @]
        BY <1>1, <1>2, <1>7 DEF Settle
  <2>2. failed' \in [Page -> SUBSET File]
    <3>1. (IF q.op = "submit" /\ ok THEN {}
           ELSE IF q.op = "upload" /\ ~ok THEN failed[p] \cup {q.file} ELSE failed[p])
             \in SUBSET File
          BY <1>3, Typed
    <3> QED  BY <1>3, <2>1, <3>1, Typed
  <2> QED  BY <1>1, <1>2, <1>3, <1>4, <1>6, <1>7, <2>1, <2>2, Typed
<1>8. CASE r \notin waits[p]
  <2>1. UNCHANGED <<page, waits, todo, failed, holds>>
        BY <1>1, <1>2, <1>8 DEF Settle, pageVars
  <2> QED  BY <1>1, <1>2, <1>3, <1>4, <1>8, <2>1, Typed
<1> QED  BY <1>7, <1>8

\* What r is to the page that awaits it.
LEMMA AwaitedBy ==
    ASSUME PortalSound, NEW p \in Page, NEW r \in waits[p]
    PROVE  /\ r \in Req /\ req[r] # Idle /\ req[r].page = p
           /\ \/ page[p] = "identify" /\ req[r].op \in LinkOp
              \/ page[p] = "code" /\ req[r].op = "verify"
              \/ page[p] = "form" /\ req[r].op = "submit"
              \/ page[p] = "uploading" /\ req[r].op = "upload"
              \/ page[p] = "finalizing" /\ req[r].op = "finalize"
           /\ req[r].op \in CallOp => req[r].session = holds[p]
           /\ page[p] # "uploading" => waits[p] = {r}
<1>1. r \in Req /\ page[p] \in Step /\ req[r] \in {Idle} \cup CodeReq \cup SessionReq \cup UploadReq
      BY Typed
<1>2. PageSound(p)
      BY DEF PortalSound, PagesSound
<1>3. req[r].op \in Expected[page[p]] /\ req[r].page = p
      BY <1>2 DEF PageSound
<1>4. req[r].op # "none"
      BY <1>1, <1>3 DEF Expected, Step, LinkOp
<1> QED  BY <1>1, <1>2, <1>3, <1>4, CallFields DEF PageSound, Expected, Step

LEMMA HoldsBounds ==
    ASSUME PortalSound, NEW p \in Page
    PROVE  /\ holds[p] \in 0..Len(sessions)
           /\ page[p] \in HasSession <=> holds[p] # 0
BY Typed DEF PortalSound, PagesSound, PageSound

\* An answer leaves every page sound, whatever becomes of the request.
LEMMA SettledPages ==
    ASSUME PortalSound, Grown, NEW r \in Req, req[r] # Idle, NEW ok \in BOOLEAN, NEW s \in Nat,
           Settle(req[r].page, r, ok, s),
           \A x \in Req : x # r => req'[x] = req[x],
           req[r].op = "verify" /\ ok => s = Len(sessions) + 1 /\ Len(sessions') = s
    PROVE  PagesSound' /\ HoldersDiffer'
<1>1. PICK p \in Page : p = req[r].page
      BY Settling
<1>2. /\ \A q \in Page : q # p =>
            /\ page'[q] = page[q] /\ waits'[q] = waits[q] /\ holds'[q] = holds[q]
            /\ r \notin waits[q]
      /\ waits'[p] = waits[p] \ {r}
      /\ r \notin waits[p] => page'[p] = page[p] /\ holds'[p] = holds[p]
      /\ r \in waits[p] =>
            /\ page'[p] = After(page[p], req[r].op, ok)
            /\ holds'[p] = IF req[r].op = "verify" /\ ok THEN s ELSE holds[p]
      BY <1>1, Settling
<1>3. \A q \in Page : waits[q] \subseteq Req
      BY Typed
<1>4. ASSUME NEW q \in Page, q # p PROVE PageSound(q)'
      BY <1>2, <1>3, <1>4, PageStaysSound
<1>5. /\ Len(sessions) \in Nat /\ Len(sessions') \in Nat /\ Len(sessions) <= Len(sessions')
      /\ holds[p] \in 0..Len(sessions) /\ page[p] \in Step
      /\ page[p] \in HasSession <=> holds[p] # 0
      BY Typed, HoldsBounds, LenProperties DEF Grown
<1>6. PageSound(p)'
  <2>1. CASE r \notin waits[p]
    <3>1. waits'[p] = waits[p]
          BY <1>2, <2>1
    <3> QED  BY <1>2, <1>3, <2>1, <3>1, PageStaysSound
  <2>2. CASE r \in waits[p] /\ page[p] = "uploading"
    <3>1. /\ req[r].op = "upload" /\ page'[p] = "uploading" /\ holds'[p] = holds[p]
          BY <1>2, <2>2, AwaitedBy DEF After
    <3>2. \A x \in waits'[p] : req'[x] = req[x] /\ req[x].page = p /\ req[x].op = "upload"
          BY <1>2, <1>3, <2>2, AwaitedBy DEF CallOp
    <3> QED  BY <1>5, <2>2, <3>1, <3>2 DEF PageSound, HasSession, Expected, CallOp
  <2>3. CASE r \in waits[p] /\ page[p] # "uploading"
    <3>1. waits'[p] = {}
          BY <1>2, <2>3, AwaitedBy
    <3>2. IF page'[p] \in HasSession THEN holds'[p] \in 1..Len(sessions') ELSE holds'[p] = 0
          BY <1>1, <1>2, <1>5, <2>3, AwaitedBy DEF After, HasSession, LinkOp
    <3> QED  BY <3>1, <3>2 DEF PageSound
  <2> QED  BY <2>1, <2>2, <2>3
<1>7. HoldersDiffer'
  <2>1. holds'[p] = holds[p] \/ holds'[p] = Len(sessions) + 1
        BY <1>2
  <2>2. \A q \in Page : holds[q] \in 0..Len(sessions)
        BY HoldsBounds
  <2>3. HoldersDiffer
        BY DEF PortalSound
  <2> QED  BY <1>2, <1>5, <2>1, <2>2, <2>3 DEF HoldersDiffer
<1> QED  BY <1>4, <1>6, <1>7 DEF PagesSound

PagesTyped ==
    /\ page \in [Page -> Step] /\ waits \in [Page -> SUBSET Req]
    /\ todo \in [Page -> SUBSET File] /\ failed \in [Page -> SUBSET File]
    /\ holds \in [Page -> Nat]

CodesTyped ==
    /\ slot \in Slot /\ Len(slot.codes) <= MaxActive
    /\ generated \in 0..MaxCodes /\ lapsed \in 0..generated
    /\ mailed \subseteq 1..generated
    /\ due \in Seq(Code) /\ opened \in [Code -> Nat] /\ crossed \in BOOLEAN

CountsTyped ==
    linkCalls \in 0..LinkLimit /\ unlucky \subseteq Page /\ faults \in 0..MaxFaults

RequestsTyped == req \in [Req -> {Idle} \cup CodeReq \cup SessionReq \cup UploadReq]

LEMMA TypeParts ==
    ASSUME PagesTyped', RequestsTyped', CodesTyped', CountsTyped',
           sessions' \in Seq(Session), reports' \in Seq(Nat)
    PROVE  PortalTypeOK'
BY DEF PortalTypeOK, PagesTyped, RequestsTyped, CodesTyped, CountsTyped

LEMMA NothingGrown ==
    ASSUME PortalSound, UNCHANGED <<generated, sessionVars>>
    PROVE  Grown /\ RowsSound'
BY Typed DEF Grown, sessionVars, PortalSound, RowsSound

\* A request that is answered, with a step on the rows that only adds.
LEMMA ReplySound ==
    ASSUME PortalSound, Grown, NEW r \in Req, req[r] # Idle, NEW ok \in BOOLEAN,
           Reply(r, ok), req[r].op = "verify" => ~ok
    PROVE  PagesTyped' /\ RequestsTyped' /\ RequestsSound' /\ PagesSound' /\ HoldersDiffer'
<1>1. Settle(req[r].page, r, ok, 0) /\ req' = [req EXCEPT ![r] = Idle]
      BY DEF Reply
<1>2. Idle.op \notin LinkOp \cup CallOp
      BY DEF Idle, LinkOp, CallOp
<1>3. RequestsTyped' /\ RequestsSound' /\ \A s \in Req : s # r => req'[s] = req[s]
      BY <1>1, <1>2, RequestsStaySound DEF RequestsTyped
<1>4. PagesSound' /\ HoldersDiffer'
      BY <1>1, <1>3, SettledPages
<1>5. PagesTyped'
      BY <1>1, Settling DEF PagesTyped
<1> QED  BY <1>3, <1>4, <1>5

\* The operation of a request.
LEMMA CallOf ==
    ASSUME PortalSound, NEW r \in Req
    PROVE  /\ req[r].op \in LinkOp => req[r] # Idle /\ req[r].op \notin CallOp
           /\ req[r].op \in CallOp => req[r] # Idle /\ req[r].op \notin LinkOp
BY Typed, CallFields DEF LinkOp, CallOp, Idle

-------------------------------------------------------------------------------
(* The page's steps.                                                       *)

LEMMA OpenSound ==
    ASSUME PortalSound, NEW p \in Page, Open(p) \/ BackToIdentify(p)
    PROVE  PortalSound'
<1>1. /\ page' \in [Page -> Step] /\ page'[p] \in {"identify", "error"}
      /\ \A q \in Page : q # p => page'[q] = page[q]
      /\ page'[p] = "identify" \/ waits'[p] = {}
      /\ waits' \in [Page -> SUBSET Req] /\ todo' \in [Page -> SUBSET File]
      /\ \A q \in Page : q # p => waits'[q] = waits[q]
      /\ waits'[p] = {} \/ (waits' = waits /\ page[p] \in {"code", "submitted"})
      /\ holds' \in [Page -> Nat] /\ holds'[p] = 0
      /\ \A q \in Page : q # p => holds'[q] = holds[q]
      /\ linkCalls' \in 0..LinkLimit /\ unlucky' \subseteq Page
      /\ UNCHANGED <<failed, req, codeVars, sessionVars, faults>>
  <2>1. linkCalls \in 0..LinkLimit /\ unlucky \subseteq Page /\ LinkLimit \in Nat
        BY LimitAssumption DEF PortalSound, PortalTypeOK
  <2>2. CASE Open(p)
    <3>1. \/ /\ linkCalls < LinkLimit /\ linkCalls' = linkCalls + 1
             /\ page' = [page EXCEPT ![p] = "identify"]
          \/ /\ linkCalls' = linkCalls /\ page' = [page EXCEPT ![p] = "error"]
          BY <2>2 DEF Open
    <3>2. linkCalls' \in 0..LinkLimit
          BY <2>1, <3>1
    <3>3. /\ page' \in [Page -> Step] /\ page'[p] \in {"identify", "error"}
          /\ \A q \in Page : q # p => page'[q] = page[q]
          BY <3>1, Typed DEF Step
    <3> QED  BY <2>1, <2>2, <3>2, <3>3, Typed DEF Open
  <2>3. CASE BackToIdentify(p)
        BY <2>1, <2>3, Typed DEF BackToIdentify, Step
  <2> QED  BY <2>2, <2>3
<1>2. Grown /\ RowsSound'
      BY <1>1, NothingGrown DEF codeVars
<1>3. PortalTypeOK'
  <2>1. PagesTyped' /\ CountsTyped'
        BY <1>1 DEF PagesTyped, CountsTyped, PortalSound, PortalTypeOK
  <2>2. RequestsTyped' /\ CodesTyped' /\ sessions' \in Seq(Session) /\ reports' \in Seq(Nat)
        BY <1>1 DEF PortalSound, PortalTypeOK, RequestsTyped, CodesTyped, codeVars, sessionVars
  <2> QED  BY <2>1, <2>2, TypeParts
<1>4. RequestsSound'
      BY <1>1, <1>2, RequestStaysSound DEF RequestsSound
<1>5. ASSUME NEW q \in Page PROVE PageSound(q)'
  <2>1. CASE q # p
        BY <1>1, <1>2, <2>1, PageStaysSound
  <2>2. CASE q = p /\ waits'[p] = {}
        BY <1>1, <2>2 DEF PageSound, HasSession
  <2>3. CASE q = p /\ waits'[p] # {}
    <3>1. page'[p] = "identify" /\ page[p] \in {"code", "submitted"} /\ waits'[p] = waits[p]
          BY <1>1, <2>3
    <3>2. \A r \in waits[p] : /\ req[r].op = "verify" /\ req[r].page = p
                              /\ waits[p] = {r}
          BY <3>1, AwaitedBy
    <3> QED  BY <1>1, <2>3, <3>1, <3>2 DEF PageSound, HasSession, Expected, LinkOp, CallOp
  <2> QED  BY <2>1, <2>2, <2>3
<1>6. HoldersDiffer'
      BY <1>1 DEF PortalSound, HoldersDiffer
<1> QED  BY <1>2, <1>3, <1>4, <1>5, <1>6 DEF PortalSound, PagesSound

\* A page that starts a call awaits it.
LEMMA CallingSound ==
    ASSUME PortalSound, Grown, NEW p \in Page, NEW r \in Req, req[r] = Idle,
           page[p] # "uploading" => waits[p] = {},
           waits' = [waits EXCEPT ![p] = @ \cup {r}], holds' = holds,
           page' \in [Page -> Step], \A q \in Page : q # p => page'[q] = page[q],
           page'[p] = page[p] \/ (waits[p] = {} /\ {page[p], page'[p]} \subseteq HasSession),
           \A x \in Req : x # r => req'[x] = req[x],
           req'[r].page = p, req'[r].op \in Expected[page'[p]],
           req'[r].op \in CallOp => req'[r].session = holds[p]
    PROVE  /\ PagesSound' /\ HoldersDiffer'
           /\ waits' \in [Page -> SUBSET Req] /\ holds' \in [Page -> Nat]
<1>1. \A q \in Page : r \notin waits[q]
      BY AwaitedBy
<1>2. /\ waits' \in [Page -> SUBSET Req]
      /\ waits'[p] = waits[p] \cup {r} /\ \A q \in Page : q # p => waits'[q] = waits[q]
      BY Typed
<1>3. \A q \in Page : waits[q] \subseteq Req
      BY Typed
<1>4. ASSUME NEW q \in Page, q # p PROVE PageSound(q)'
      BY <1>1, <1>2, <1>3, <1>4, PageStaysSound
<1>5. /\ Len(sessions) \in Nat /\ Len(sessions') \in Nat /\ Len(sessions) <= Len(sessions')
      /\ holds[p] \in 0..Len(sessions) /\ page[p] \in Step
      /\ page[p] \in HasSession <=> holds[p] # 0
      BY Typed, HoldsBounds, LenProperties DEF Grown
<1>6. IF page'[p] \in HasSession THEN holds'[p] \in 1..Len(sessions') ELSE holds'[p] = 0
      BY <1>5
<1>7. ASSUME NEW s \in waits[p]
      PROVE  /\ req'[s] = req[s] /\ req[s].op \in Expected[page[p]] /\ req[s].page = p
             /\ req[s].op \in CallOp => req[s].session = holds[p]
             /\ page'[p] = page[p] /\ page[p] = "uploading"
      BY <1>1, <1>3, <1>7 DEF PortalSound, PagesSound, PageSound
<1>8. PageSound(p)'
      BY <1>2, <1>6, <1>7 DEF PageSound
<1> QED  BY <1>2, <1>4, <1>8, Typed DEF PagesSound, PortalSound, HoldersDiffer

LEMMA LinkCallSound ==
    ASSUME PortalSound, NEW p \in Page, NEW r \in Req,
           (\E c \in 0..MaxCodes : Verify(p, r, c)) \/ Identify(p, r)
    PROVE  PortalSound'
<1>1. /\ generated \in Nat /\ generated <= MaxCodes /\ lapsed \in Nat /\ lapsed <= generated
      /\ mailed \subseteq 1..generated /\ linkCalls \in 0..LinkLimit /\ LinkLimit \in Nat
      /\ MaxCodes \in Nat
      BY Typed, LimitAssumption, BoundAssumption DEF PortalSound, PortalTypeOK
<1>2. PICK op \in LinkOp, c \in Nat :
          /\ LinkCall(p, r, op, c) /\ op \in Expected[page[p]]
          /\ UNCHANGED <<slot, lapsed, mailed, due, opened, crossed>>
          /\ generated' \in generated..MaxCodes
          /\ op = "identify" => c \in 1..generated'
  <2>1. CASE Identify(p, r)
    <3>1. /\ LinkCall(p, r, "identify", generated + 1)
          /\ UNCHANGED <<slot, lapsed, mailed, due, opened, crossed>>
          /\ page[p] = "identify" /\ generated < MaxCodes /\ generated' = generated + 1
          BY <2>1 DEF Identify
    <3>2. "identify" \in LinkOp /\ "identify" \in Expected[page[p]]
          BY <3>1 DEF Expected, LinkOp
    <3>3. /\ generated' \in generated..MaxCodes /\ generated + 1 \in 1..generated'
          /\ generated + 1 \in Nat
          BY <1>1, <3>1
    <3> QED  BY <3>1, <3>2, <3>3
  <2>2. CASE \E c \in 0..MaxCodes : Verify(p, r, c)
    <3>1. PICK c \in 0..MaxCodes : Verify(p, r, c)
          BY <2>2
    <3>2. /\ LinkCall(p, r, "verify", c) /\ page[p] = "code"
          /\ UNCHANGED <<slot, generated, lapsed, mailed, due, opened, crossed>>
          BY <3>1 DEF Verify, codeVars
    <3>3. "verify" \in LinkOp /\ "verify" \in Expected[page[p]] /\ "verify" # "identify"
          BY <3>2 DEF Expected, LinkOp
    <3>4. generated' \in generated..MaxCodes
          BY <1>1, <3>2
    <3> QED  BY <3>2, <3>3, <3>4
  <2> QED  BY <2>1, <2>2
<1> DEFINE new == [op |-> op, page |-> p, code |-> c, seen |-> slot.codes,
                   valid |-> Unexpired(slot.codes), attempts |-> slot.attempts]
<1>3. /\ waits[p] = {} /\ req[r] = Idle /\ linkCalls < LinkLimit
      /\ linkCalls' = linkCalls + 1 /\ req' = [req EXCEPT ![r] = new]
      /\ waits' = [waits EXCEPT ![p] = {r}]
      /\ UNCHANGED <<page, todo, failed, holds, sessionVars, faultVars>>
      BY <1>2 DEF LinkCall
<1>4. Grown /\ RowsSound'
  <2>1. generated' \in Nat /\ generated <= generated'
        BY <1>1, <1>2
  <2> QED  BY <1>3, <2>1, Typed DEF Grown, sessionVars, PortalSound, RowsSound
<1>5. /\ Unexpired(slot.codes) \in Seq(Code) /\ Len(Unexpired(slot.codes)) <= MaxActive
      /\ Len(slot.codes) <= MaxActive
  <2>1. /\ slot.codes \in Seq(Code) /\ Len(slot.codes) \in Nat /\ Len(slot.codes) <= MaxActive
        /\ MaxActive \in Nat
        BY Typed, LenProperties, LimitAssumption
  <2>2. /\ Unexpired(slot.codes) \in Seq(Code)
        /\ Len(Unexpired(slot.codes)) <= Len(slot.codes)
        BY <1>1, <2>1, UnexpiredType
  <2>3. Len(Unexpired(slot.codes)) \in Nat
        BY <2>2, LenProperties
  <2> QED  BY <2>1, <2>2, <2>3
<1>6. /\ new \in CodeReq /\ new.op = op /\ new.page = p /\ new.seen = slot.codes
      /\ new.valid = Unexpired(slot.codes) /\ new.code = c
      BY <1>2, <1>5, Typed DEF CodeReq, LinkOp
<1> HIDE DEF new
<1>7. new.op \notin CallOp
      BY <1>2, <1>6 DEF LinkOp, CallOp
<1>8. RequestsTyped' /\ RequestsSound' /\ req'[r] = new /\ \A s \in Req : s # r => req'[s] = req[s]
      BY <1>2, <1>3, <1>4, <1>5, <1>6, <1>7, RequestsStaySound DEF RequestsTyped
<1>9. waits' = [waits EXCEPT ![p] = @ \cup {r}]
      BY <1>3, Typed
<1>10. /\ PagesSound' /\ HoldersDiffer'
       /\ waits' \in [Page -> SUBSET Req] /\ holds' \in [Page -> Nat]
  <2>1. /\ page' = page /\ page \in [Page -> Step] /\ holds' = holds /\ waits[p] = {}
        /\ req[r] = Idle
        BY <1>3, Typed
  <2>2. req'[r].page = p /\ req'[r].op \in Expected[page'[p]] /\ req'[r].op \notin CallOp
        BY <1>2, <1>6, <1>7, <1>8, <2>1
  <2> QED  BY <1>4, <1>8, <1>9, <2>1, <2>2, CallingSound
<1>11. PagesTyped'
       BY <1>3, <1>10, Typed DEF PagesTyped
<1>12. CountsTyped'
       BY <1>1, <1>3 DEF CountsTyped, faultVars, PortalSound, PortalTypeOK
<1>13. CodesTyped'
  <2>1. generated' \in 0..MaxCodes /\ lapsed \in 0..generated' /\ mailed \subseteq 1..generated'
        BY <1>1, <1>2
  <2> QED  BY <1>2, <2>1 DEF CodesTyped, PortalSound, PortalTypeOK
<1>14. PortalTypeOK'
       BY <1>3, <1>8, <1>11, <1>12, <1>13, TypeParts, Typed DEF sessionVars
<1> QED  BY <1>4, <1>8, <1>10, <1>14 DEF PortalSound

\* A call of the page, with its session or an upload.
LEMMA CallSound ==
    ASSUME PortalSound, NEW p \in Page, NEW r \in Req, NEW new \in SessionReq \cup UploadReq,
           Post(p, r, new), new.page = p, new.op \in Expected[page'[p]],
           new.op \in CallOp => new.session = holds[p] /\ new.report = 0 /\ new.step = "read",
           page[p] # "uploading" => waits[p] = {}, page[p] \in HasSession,
           page' \in [Page -> Step], \A q \in Page : q # p => page'[q] = page[q],
           page'[p] = page[p] \/ (waits[p] = {} /\ page'[p] \in HasSession),
           todo' \in [Page -> SUBSET File]
    PROVE  PortalSound'
<1>1. /\ req[r] = Idle /\ req' = [req EXCEPT ![r] = new]
      /\ waits' = [waits EXCEPT ![p] = @ \cup {r}]
      /\ UNCHANGED <<failed, holds, codeVars, linkCalls, sessionVars, faultVars>>
      BY DEF Post
<1>2. Grown /\ RowsSound'
      BY <1>1, NothingGrown DEF codeVars
<1>3. sessions' = sessions /\ reports' = reports /\ holds[p] \in 1..Len(sessions)
      BY <1>1, HoldsBounds, Typed DEF sessionVars
<1>4. new.op \notin LinkOp
      BY DEF SessionReq, UploadReq, LinkOp
<1>5. RequestsTyped' /\ RequestsSound' /\ req'[r] = new /\ \A x \in Req : x # r => req'[x] = req[x]
  <2>1. new.op \in CallOp => /\ new.session \in 1..Len(sessions')
                             /\ new.report \in 0..Len(reports') /\ new.step # "created"
        BY <1>3, Typed
  <2>2. new \in {Idle} \cup CodeReq \cup SessionReq \cup UploadReq
        OBVIOUS
  <2> QED  BY <1>1, <1>2, <1>4, <2>1, <2>2, RequestsStaySound DEF RequestsTyped
<1>6. /\ PagesSound' /\ HoldersDiffer'
      /\ waits' \in [Page -> SUBSET Req] /\ holds' \in [Page -> Nat]
  <2>1. page'[p] = page[p] \/ (waits[p] = {} /\ {page[p], page'[p]} \subseteq HasSession)
        OBVIOUS
  <2> QED  BY <1>1, <1>2, <1>5, <2>1, CallingSound
<1>7. PagesTyped'
      BY <1>1, <1>6, Typed DEF PagesTyped
<1>8. CountsTyped' /\ CodesTyped'
      BY <1>1 DEF CountsTyped, CodesTyped, codeVars, faultVars, PortalSound, PortalTypeOK
<1>9. PortalTypeOK'
      BY <1>3, <1>5, <1>7, <1>8, TypeParts, Typed
<1> QED  BY <1>2, <1>5, <1>6, <1>9 DEF PortalSound

\* The request of a call with the session's token.
LEMMA SessionRequest ==
    ASSUME PortalSound, NEW p \in Page, NEW op \in CallOp, page[p] \in HasSession
    PROVE  LET new == [op |-> op, page |-> p, step |-> "read", session |-> holds[p],
                       used |-> sessions[holds[p]].used, report |-> 0] IN
           /\ new \in SessionReq /\ new.op = op /\ new.page = p /\ new.session = holds[p]
           /\ new.report = 0 /\ new.step = "read"
<1>1. holds[p] \in 1..Len(sessions) /\ holds[p] \in Nat
      BY HoldsBounds, Typed
<1>2. sessions[holds[p]] \in Session
      BY <1>1, Typed, ElementOfSeq
<1>3. PICK t \in Session : t = sessions[holds[p]]
      BY <1>2
<1>4. t.used \in BOOLEAN
      BY DEF Session
<1> QED  BY <1>1, <1>3, <1>4 DEF SessionReq, CallOp

LEMMA PageCallSound ==
    ASSUME PortalSound, NEW p \in Page, NEW r \in Req,
           Submit(p, r) \/ (\E f \in File : Upload(p, r, f)) \/ Finalize(p, r)
    PROVE  PortalSound'
<1> DEFINE start(op) == [op |-> op, page |-> p, step |-> "read", session |-> holds[p],
                        used |-> sessions[holds[p]].used, report |-> 0]
<1>1. ASSUME page[p] \in HasSession, NEW op \in CallOp
      PROVE  /\ start(op) \in SessionReq /\ start(op).op = op /\ start(op).page = p
             /\ start(op).session = holds[p] /\ start(op).report = 0 /\ start(op).step = "read"
      BY <1>1, SessionRequest
<1>2. CASE Submit(p, r)
  <2>1. /\ waits[p] = {} /\ page[p] = "form" /\ Post(p, r, start("submit"))
        /\ page' = page /\ todo' = todo
        BY <1>2 DEF Submit, SessionCall
  <2>2. "submit" \in CallOp /\ "submit" \in Expected["form"] /\ "form" \in HasSession
        BY DEF CallOp, Expected, HasSession
  <2>3. PICK new : new = start("submit")
        OBVIOUS
  <2> HIDE DEF start
  <2>4. /\ new \in SessionReq /\ new.op = "submit" /\ new.page = p
        /\ new.session = holds[p] /\ new.report = 0 /\ new.step = "read" /\ Post(p, r, new)
        BY <1>1, <2>1, <2>2, <2>3
  <2> QED  BY <2>1, <2>2, <2>4, Typed, CallSound
<1>3. CASE Finalize(p, r)
  <2>1. /\ waits[p] = {} /\ page[p] = "uploading" /\ Post(p, r, start("finalize"))
        /\ page' = [page EXCEPT ![p] = "finalizing"] /\ todo' = todo
        BY <1>3 DEF Finalize, SessionCall
  <2>2. /\ page' \in [Page -> Step] /\ \A q \in Page : q # p => page'[q] = page[q]
        /\ page'[p] = "finalizing"
        BY <2>1, Typed DEF Step
  <2>3. /\ "finalize" \in CallOp /\ "finalize" \in Expected["finalizing"]
        /\ {"uploading", "finalizing"} \subseteq HasSession
        BY DEF CallOp, Expected, HasSession
  <2>4. PICK new : new = start("finalize")
        OBVIOUS
  <2> HIDE DEF start
  <2>5. /\ new \in SessionReq /\ new.op = "finalize" /\ new.page = p
        /\ new.session = holds[p] /\ new.report = 0 /\ new.step = "read" /\ Post(p, r, new)
        BY <1>1, <2>1, <2>3, <2>4
  <2> QED  BY <2>1, <2>2, <2>3, <2>5, Typed, CallSound
<1>4. ASSUME NEW f \in File, Upload(p, r, f) PROVE PortalSound'
  <2>1. PICK new : new = [op |-> "upload", page |-> p, file |-> f]
        OBVIOUS
  <2>2. /\ page[p] = "uploading" /\ Post(p, r, new) /\ page' = page
        /\ todo' = [todo EXCEPT ![p] = @ \ {f}]
        BY <1>4, <2>1 DEF Upload
  <2>3. new \in UploadReq /\ new.op = "upload" /\ new.page = p
        BY <2>1 DEF UploadReq
  <2>4. "upload" \notin CallOp /\ "upload" \in Expected["uploading"] /\ "uploading" \in HasSession
        BY DEF CallOp, Expected, HasSession
  <2>5. todo' \in [Page -> SUBSET File]
        BY <2>2, Typed
  <2> QED  BY <2>2, <2>3, <2>4, <2>5, Typed, CallSound
<1> QED  BY <1>2, <1>3, <1>4

-------------------------------------------------------------------------------
(* Requests at the server.                                                 *)

LEMMA ReplyKeepsSound ==
    ASSUME PortalSound, Grown, RowsSound', CodesTyped', CountsTyped',
           NEW r \in Req, req[r] # Idle, NEW ok \in BOOLEAN, Reply(r, ok),
           req[r].op = "verify" => ~ok
    PROVE  PortalSound'
<1>1. PagesTyped' /\ RequestsTyped' /\ RequestsSound' /\ PagesSound' /\ HoldersDiffer'
      BY ReplySound
<1>2. PortalTypeOK'
      BY <1>1, TypeParts DEF Grown
<1> QED  BY <1>1, <1>2 DEF PortalSound

LEMMA CodesKept ==
    ASSUME PortalSound, UNCHANGED codeVars PROVE CodesTyped'
BY DEF PortalSound, PortalTypeOK, CodesTyped, codeVars

LEMMA CountsKept ==
    ASSUME PortalSound, UNCHANGED <<linkCalls, faultVars>> PROVE CountsTyped'
BY DEF PortalSound, PortalTypeOK, CountsTyped, faultVars

\* The stored list is at most as long as the limit, and never empty.
LEMMA StoredCodes ==
    ASSUME PortalSound, NEW r \in Req, req[r].op = "identify"
    PROVE  LET codes == Newest(<<req[r].code>> \o req[r].valid) IN
           /\ req[r].code \in Code /\ req[r].valid \in Seq(Code) /\ req[r].code \in 1..generated
           /\ <<req[r].code>> \o req[r].valid \in Seq(Code)
           /\ codes \in Seq(Code) /\ Len(codes) <= MaxActive
<1>1. PICK q \in {Idle} \cup CodeReq \cup SessionReq \cup UploadReq : q = req[r]
      BY Typed
<1>2. q.op = "identify" /\ q.op \in LinkOp
      BY <1>1 DEF LinkOp
<1>3. q.valid \in Seq(Code) /\ q.code \in 1..generated
      BY <1>1, <1>2, CallFields DEF PortalSound, RequestsSound, RequestSound
<1>4. q.code \in Code
      BY <1>3, Typed, BoundAssumption DEF Code
<1>5. <<q.code>> \in Seq(Code)
      BY <1>4
<1>6. <<q.code>> \o q.valid \in Seq(Code)
      BY <1>3, <1>5, ConcatProperties
<1>7. /\ Newest(<<q.code>> \o q.valid) \in Seq(Code)
      /\ Len(Newest(<<q.code>> \o q.valid)) <= MaxActive
  <2>1. PICK t \in Seq(Code) : t = <<q.code>> \o q.valid
        BY <1>6
  <2>2. MaxActive \in Nat /\ Len(t) \in Nat
        BY LimitAssumption, LenProperties
  <2>3. Newest(t) \in Seq(Code) /\ Len(Newest(t)) <= MaxActive
        BY <2>2, NewestType
  <2> QED  BY <2>1, <2>3
<1> QED  BY <1>1, <1>3, <1>4, <1>6, <1>7

LEMMA StoreCodeSound ==
    ASSUME PortalSound, NEW r \in Req, StoreCode(r) PROVE PortalSound'
<1> DEFINE codes == Newest(<<req[r].code>> \o req[r].valid)
<1>1. /\ req[r].op = "identify" /\ slot' = [codes |-> codes, attempts |-> 0]
      /\ due' = <<req[r].code>> \o due /\ Mail(req[r].code) /\ Reply(r, TRUE)
      /\ crossed' = (crossed \/ slot.codes # req[r].seen)
      /\ UNCHANGED <<generated, lapsed, opened, linkCalls, sessionVars, unlucky>>
      BY DEF StoreCode, Upsert
<1>2. /\ req[r].code \in Code /\ req[r].code \in 1..generated
      /\ codes \in Seq(Code) /\ Len(codes) <= MaxActive
      BY <1>1, StoredCodes
<1> HIDE DEF codes
<1>3. slot' \in Slot /\ slot'.codes = codes
      BY <1>1, <1>2 DEF Slot
<1>4. due' \in Seq(Code)
      BY <1>1, <1>2, Typed, ConcatProperties
<1>5. /\ mailed' \subseteq 1..generated /\ faults' \in 0..MaxFaults
  <2>1. /\ mailed \subseteq 1..generated /\ faults \in 0..MaxFaults /\ MaxFaults \in Nat
        BY BoundAssumption DEF PortalSound, PortalTypeOK
  <2>2. PICK c \in 1..generated : c = req[r].code
        BY <1>2
  <2>3. \/ mailed' = mailed \cup {c} /\ faults' = faults
        \/ faults < MaxFaults /\ faults' = faults + 1 /\ mailed' = mailed
        BY <1>1, <2>2 DEF Mail
  <2>4. mailed' \subseteq 1..generated
        BY <2>1, <2>3
  <2>5. faults' \in 0..MaxFaults
        BY <2>1, <2>3
  <2> QED  BY <2>4, <2>5
<1>6. CodesTyped' /\ CountsTyped'
  <2>1. crossed' \in BOOLEAN
        BY <1>1, Zenon DEF PortalSound, PortalTypeOK
  <2> QED  BY <1>1, <1>2, <1>3, <1>4, <1>5, <2>1
           DEF CodesTyped, CountsTyped, PortalSound, PortalTypeOK
<1>7. Grown /\ RowsSound'
      BY <1>1, NothingGrown
<1>8. req[r] # Idle
      BY <1>1, CallOf DEF LinkOp
<1> QED  BY <1>1, <1>6, <1>7, <1>8, ReplyKeepsSound

LEMMA VerifyFailsSound ==
    ASSUME PortalSound, NEW r \in Req, VerifyNothing(r) \/ VerifyTooLate(r) \/ VerifyMiss(r)
    PROVE  PortalSound'
<1>1. /\ req[r].op = "verify" /\ Reply(r, FALSE)
      /\ UNCHANGED <<generated, sessionVars, linkCalls, faultVars>>
      BY DEF VerifyNothing, VerifyTooLate, VerifyMiss, DeleteSlot, codeVars, sessionVars
<1>2. PICK q \in {Idle} \cup CodeReq \cup SessionReq \cup UploadReq : q = req[r]
      BY Typed
<1>3. q.op \in LinkOp
      BY <1>1, <1>2 DEF LinkOp
<1>4. q.valid \in Seq(Code) /\ Len(q.valid) <= MaxActive
      BY <1>2, <1>3, CallFields DEF PortalSound, RequestsSound, RequestSound
<1>5. NoSlot \in Slot /\ NoSlot.codes = <<>> /\ Len(<<>>) <= MaxActive /\ <<>> \in Seq(Code)
      BY LimitAssumption DEF Slot, NoSlot
<1>6. CodesTyped'
  <2>0. CodesTyped
        BY DEF PortalSound, PortalTypeOK, CodesTyped
  <2>1. CASE VerifyNothing(r)
        BY <2>1, CodesKept DEF VerifyNothing
  <2>2. CASE VerifyTooLate(r)
        BY <1>5, <2>0, <2>2 DEF VerifyTooLate, DeleteSlot, CodesTyped
  <2>3. CASE VerifyMiss(r)
    <3>1. slot' = [codes |-> q.valid, attempts |-> slot.attempts + 1]
          BY <1>2, <2>3 DEF VerifyMiss
    <3>2. slot' \in Slot /\ slot'.codes = q.valid
          BY <1>4, <3>1, Typed DEF Slot
    <3>3. crossed' \in BOOLEAN
          BY <2>0, <2>3, Zenon DEF VerifyMiss, CodesTyped
    <3> QED  BY <1>4, <2>0, <2>3, <3>2, <3>3 DEF VerifyMiss, CodesTyped
  <2> QED  BY <2>1, <2>2, <2>3
<1>7. Grown /\ RowsSound' /\ CountsTyped'
      BY <1>1, NothingGrown, CountsKept
<1> QED  BY <1>1, <1>6, <1>7, CallOf, ReplyKeepsSound DEF LinkOp

LEMMA VerifyMatchSound ==
    ASSUME PortalSound, NEW r \in Req, VerifyMatch(r) PROVE PortalSound'
<1> DEFINE n == [calls |-> 0, used |-> FALSE, live |-> TRUE, report |-> 0]
<1>1. /\ req[r].op = "verify" /\ slot' = NoSlot /\ due' = <<>>
      /\ crossed' = (crossed \/ slot.codes # req[r].seen)
      /\ UNCHANGED <<generated, lapsed, mailed, linkCalls, reports, faultVars>>
      /\ opened' = [opened EXCEPT ![req[r].code] = @ + 1]
      /\ sessions' = Append(sessions, n)
      /\ Settle(req[r].page, r, TRUE, Len(sessions) + 1)
      /\ req' = [req EXCEPT ![r] = Idle]
      BY DEF VerifyMatch, DeleteSlot
<1>2. n \in Session /\ n.report = 0
      BY LimitAssumption DEF Session
<1> HIDE DEF n
<1>3. /\ sessions' \in Seq(Session) /\ Len(sessions') = Len(sessions) + 1
      /\ \A i \in 1..Len(sessions) : sessions'[i] = sessions[i]
      /\ sessions'[Len(sessions) + 1] = n
      BY <1>1, <1>2, Typed, AppendProperties
<1>4. Grown
      BY <1>1, <1>3, Typed DEF Grown
<1>5. RowsSound'
  <2>1. ASSUME NEW i \in 1..Len(sessions')
        PROVE  /\ sessions'[i].report \in 0..Len(reports)
               /\ sessions'[i].report # 0 => reports[sessions'[i].report] = i
    <3>1. i \in 1..Len(sessions) \/ i = Len(sessions) + 1
          BY <1>3, <2>1, Typed
    <3>2. \A k \in 1..Len(sessions) :
             /\ sessions[k].report \in 0..Len(reports)
             /\ sessions[k].report # 0 => reports[sessions[k].report] = k
          BY DEF PortalSound, RowsSound
    <3>3. 0 \in 0..Len(reports)
          BY Typed
    <3> QED  BY <1>2, <1>3, <3>1, <3>2, <3>3
  <2>2. \A i \in 1..Len(reports) : reports[i] \in 1..Len(sessions')
        BY <1>3, Typed DEF PortalSound, RowsSound
  <2> QED  BY <1>1, <2>1, <2>2 DEF RowsSound
<1>6. Idle.op \notin LinkOp \cup CallOp
      BY DEF Idle, LinkOp, CallOp
<1>7. RequestsTyped' /\ RequestsSound' /\ \A s \in Req : s # r => req'[s] = req[s]
      BY <1>1, <1>4, <1>6, RequestsStaySound DEF RequestsTyped
<1>8. req[r] # Idle /\ Len(sessions) + 1 \in Nat /\ Len(sessions') = Len(sessions) + 1
      BY <1>1, <1>3, CallOf, Typed DEF LinkOp
<1>9. PagesSound' /\ HoldersDiffer'
      BY <1>1, <1>4, <1>7, <1>8, SettledPages
<1>10. PagesTyped'
      BY <1>1, <1>8, Settling DEF PagesTyped
<1>11. CodesTyped'
  <2>0. CodesTyped
        BY DEF PortalSound, PortalTypeOK, CodesTyped
  <2>1. NoSlot \in Slot /\ NoSlot.codes = <<>> /\ Len(<<>>) <= MaxActive /\ <<>> \in Seq(Code)
        BY LimitAssumption DEF Slot, NoSlot
  <2>2. crossed' \in BOOLEAN
        BY <1>1, <2>0, Zenon DEF CodesTyped
  <2>3. opened' \in [Code -> Nat]
    <3>1. PICK c : c = req[r].code
          OBVIOUS
    <3>2. opened' = [opened EXCEPT ![c] = opened[c] + 1] /\ opened \in [Code -> Nat]
          BY <1>1, <3>1, Typed
    <3>3. c \in Code => opened[c] + 1 \in Nat
          BY <3>2
    <3>4. opened' = [x \in Code |-> IF x = c THEN opened[c] + 1 ELSE opened[x]]
          BY <3>2
    <3>5. \A x \in Code : (IF x = c THEN opened[c] + 1 ELSE opened[x]) \in Nat
          BY <3>2, <3>3
    <3> QED  BY <3>4, <3>5
  <2> QED  BY <1>1, <2>0, <2>1, <2>2, <2>3 DEF CodesTyped
<1>12. CountsTyped'
      BY <1>1, CountsKept
<1>13. PortalTypeOK'
      BY <1>1, <1>3, <1>4, <1>7, <1>10, <1>11, <1>12, TypeParts DEF Grown
<1> QED  BY <1>5, <1>7, <1>9, <1>13 DEF PortalSound

LEMMA ExpireSound ==
    ASSUME PortalSound, CodesExpire PROVE PortalSound'
<1>1. /\ lapsed < generated /\ lapsed' = lapsed + 1
      /\ UNCHANGED <<pageVars, req, slot, generated, mailed, due, opened, crossed,
                     linkCalls, sessionVars, faultVars>>
      BY DEF CodesExpire
<1>2. lapsed' \in 0..generated
      BY <1>1, Typed
<1>3. PortalTypeOK'
      BY <1>1, <1>2 DEF PortalSound, PortalTypeOK, pageVars, sessionVars, faultVars
<1> QED  BY <1>1, <1>3 DEF PortalSound, RequestsSound, RequestSound, PagesSound, PageSound,
                           HoldersDiffer, RowsSound, pageVars, sessionVars
-------------------------------------------------------------------------------
(* The calls of a session.                                                 *)

\* A call names a session and, if any, a report that exist.
LEMMA CallNames ==
    ASSUME PortalSound, NEW r \in Req, req[r].op \in CallOp
    PROVE  /\ req[r] \in SessionReq /\ req[r] # Idle /\ req[r].op \notin LinkOp
           /\ req[r].page \in Page
           /\ req[r].session \in 1..Len(sessions) /\ sessions[req[r].session] \in Session
           /\ req[r].report \in 0..Len(reports)
           /\ req[r].step = "created" =>
                 /\ req[r].op = "submit" /\ req[r].report # 0
                 /\ reports[req[r].report] = req[r].session
<1>1. req[r] \in {Idle} \cup CodeReq \cup SessionReq \cup UploadReq
      BY Typed
<1>2. RequestSound(r)
      BY DEF PortalSound, RequestsSound
<1>3. req[r] \in SessionReq /\ req[r] # Idle /\ req[r].op \notin LinkOp /\ req[r].page \in Page
      BY <1>1, CallFields, CallOf
<1> QED  BY <1>2, <1>3, Typed, ElementOfSeq DEF RequestSound

\* One session is changed.
LEMMA SessionChanged ==
    ASSUME PortalSound, NEW i \in 1..Len(sessions), NEW t \in Session,
           t.report \in 0..Len(reports), t.report # 0 => reports[t.report] = i,
           sessions' = [sessions EXCEPT ![i] = t], UNCHANGED <<generated, reports>>
    PROVE  /\ Grown /\ RowsSound' /\ Len(sessions') = Len(sessions) /\ sessions'[i] = t
           /\ \A j \in 1..Len(sessions) : j # i => sessions'[j] = sessions[j]
<1>1. /\ sessions' \in Seq(Session) /\ Len(sessions') = Len(sessions) /\ sessions'[i] = t
      /\ \A j \in 1..Len(sessions) : j # i => sessions'[j] = sessions[j]
      BY Typed, ExceptSeq
<1>2. Grown
      BY <1>1, Typed DEF Grown
<1>3. RowsSound'
  <2>1. \A j \in 1..Len(sessions) :
           /\ sessions'[j].report \in 0..Len(reports)
           /\ sessions'[j].report # 0 => reports[sessions'[j].report] = j
        BY <1>1 DEF PortalSound, RowsSound
  <2> QED  BY <1>1, <2>1 DEF PortalSound, RowsSound
<1> QED  BY <1>1, <1>2, <1>3

\* A counted call changes its session's count and life only.
LEMMA CountedSession ==
    ASSUME PortalSound, NEW r \in Req, Reading(r), NEW live \in BOOLEAN, Counted(r, live),
           UNCHANGED <<generated, reports>>
    PROVE  LET i == req[r].session IN
           /\ Grown /\ RowsSound' /\ Len(sessions') = Len(sessions)
           /\ sessions'[i].used = sessions[i].used /\ sessions'[i].report = sessions[i].report
           /\ \A j \in 1..Len(sessions) : j # i => sessions'[j] = sessions[j]
<1>1. PICK i : i = req[r].session
      OBVIOUS
<1>2. req[r].op \in CallOp
      BY DEF Reading, CallOp
<1>3. i \in 1..Len(sessions) /\ sessions[i] \in Session
      BY <1>1, <1>2, CallNames
<1>4. PICK q \in Session : q = sessions[i]
      BY <1>3
<1>5. PICK n : n = IF q.calls < CallLimit THEN q.calls + 1 ELSE q.calls
      OBVIOUS
<1>6. n \in 0..CallLimit
      BY <1>5, LimitAssumption DEF Session
<1>7. sessions' = [sessions EXCEPT ![i] = [q EXCEPT !.calls = n, !.live = live]]
  <2>1. sessions' = [sessions EXCEPT ![i].calls = IF @ < CallLimit THEN @ + 1 ELSE @,
                                     ![i].live = live]
        BY <1>1 DEF Counted
  <2>2. i \in DOMAIN sessions
        BY <1>3, Typed, LenProperties
  <2> QED  BY <1>4, <1>5, <2>1, <2>2
<1>8. PICK t : t = [q EXCEPT !.calls = n, !.live = live]
      OBVIOUS
<1>9. t \in Session /\ t.used = q.used /\ t.report = q.report
      BY <1>6, <1>8 DEF Session
<1>10. t.report \in 0..Len(reports) /\ (t.report # 0 => reports[t.report] = i)
      BY <1>3, <1>4, <1>9 DEF PortalSound, RowsSound
<1>11. /\ Grown /\ RowsSound' /\ Len(sessions') = Len(sessions) /\ sessions'[i] = t
       /\ \A j \in 1..Len(sessions) : j # i => sessions'[j] = sessions[j]
       BY <1>3, <1>7, <1>8, <1>9, <1>10, SessionChanged
<1> QED  BY <1>1, <1>4, <1>9, <1>11

LEMMA TurnAwaySound ==
    ASSUME PortalSound, NEW r \in Req, TurnAway(r) PROVE PortalSound'
<1>1. /\ Reading(r) /\ Reply(r, FALSE) /\ unlucky' = unlucky \cup {req[r].page}
      /\ UNCHANGED <<codeVars, linkCalls, reports, faults>>
      /\ Counted(r, sessions[req[r].session].live) \/ Counted(r, FALSE)
      BY DEF TurnAway
<1>2. req[r].op \in CallOp
      BY <1>1 DEF Reading, CallOp
<1>3. sessions[req[r].session].live \in BOOLEAN /\ req[r].page \in Page
      BY <1>2, CallNames DEF Session
<1>4. Grown /\ RowsSound'
      BY <1>1, <1>3, CountedSession DEF codeVars
<1>5. CodesTyped' /\ CountsTyped'
      BY <1>1, <1>3, CodesKept DEF CountsTyped, PortalSound, PortalTypeOK
<1> QED  BY <1>1, <1>2, <1>4, <1>5, CallNames, ReplyKeepsSound DEF LinkOp, CallOp

\* A request that goes on for its page keeps the pages sound.
LEMMA GoesOnSound ==
    ASSUME PortalSound, Grown, NEW r \in Req, NEW new \in SessionReq, req[r].op \in CallOp,
           req' = [req EXCEPT ![r] = new], new.op = req[r].op, new.page = req[r].page,
           new.session = req[r].session, UNCHANGED pageVars
    PROVE  /\ PagesSound' /\ HoldersDiffer' /\ PagesTyped'
           /\ req'[r] = new /\ \A s \in Req : s # r => req'[s] = req[s]
<1>1. req'[r] = new /\ \A s \in Req : s # r => req'[s] = req[s]
      BY Typed
<1>2. \A p \in Page : waits[p] \subseteq Req
      BY Typed
<1>3. UNCHANGED <<page, waits, todo, failed, holds>>
      BY DEF pageVars
<1>4. ASSUME NEW p \in Page PROVE PageSound(p)'
  <2>1. \A s \in waits[p] : /\ req'[s].op = req[s].op /\ req'[s].page = req[s].page
                            /\ req[s].op \in CallOp => req'[s].session = req[s].session
        BY <1>1, <1>2
  <2> QED  BY <1>3, <2>1, PageStaysSound
<1>5. HoldersDiffer' /\ PagesTyped'
      BY <1>3, Typed DEF PortalSound, HoldersDiffer, PagesTyped
<1> QED  BY <1>1, <1>4, <1>5 DEF PagesSound

LEMMA AdmitSound ==
    ASSUME PortalSound, NEW r \in Req, Admit(r) PROVE PortalSound'
<1>1. /\ Reading(r) /\ Counted(r, TRUE)
      /\ req' = [req EXCEPT ![r].step = "admitted"]
      /\ UNCHANGED <<pageVars, codeVars, linkCalls, reports, faultVars>>
      BY DEF Admit
<1>2. req[r].op \in CallOp
      BY <1>1 DEF Reading, CallOp
<1>3. Grown /\ RowsSound'
      BY <1>1, CountedSession DEF codeVars
<1>4. PICK q \in SessionReq : q = req[r]
      BY <1>2, CallNames
<1>7. PICK new : new = [q EXCEPT !.step = "admitted"]
      OBVIOUS
<1>8. req' = [req EXCEPT ![r] = new]
      BY <1>1, <1>4, <1>7, Typed
<1>9. /\ new \in SessionReq /\ new.op = q.op /\ new.page = q.page /\ new.session = q.session
      /\ new.report = q.report /\ new.step = "admitted"
  <2>1. new \in SessionReq
        BY <1>7 DEF SessionReq
  <2> QED  BY <1>7, <2>1 DEF SessionReq
<1>10. /\ PagesSound' /\ HoldersDiffer' /\ PagesTyped'
       BY <1>2, <1>3, <1>4, <1>8, <1>9, <1>1, GoesOnSound
<1>11. RequestsTyped' /\ RequestsSound'
  <2>1. new.session \in 1..Len(sessions') /\ new.report \in 0..Len(reports')
        BY <1>1, <1>2, <1>3, <1>4, <1>9, CallNames, Typed, LenProperties DEF Grown
  <2>3. new.op \notin LinkOp /\ new.step # "created"
        BY <1>2, <1>4, <1>9, CallNames
  <2> QED  BY <1>3, <1>8, <1>9, <2>1, <2>3, RequestsStaySound DEF RequestsTyped
<1>12. PortalTypeOK'
      BY <1>1, <1>3, <1>10, <1>11, CodesKept, CountsKept, TypeParts DEF Grown
<1> QED  BY <1>3, <1>10, <1>11, <1>12 DEF PortalSound

\* A report is added.
LEMMA ReportAdded ==
    ASSUME PortalSound, NEW i \in 1..Len(sessions),
           reports' = Append(reports, i), UNCHANGED <<generated, sessions>>
    PROVE  /\ Grown /\ RowsSound' /\ Len(reports') = Len(reports) + 1
           /\ reports'[Len(reports) + 1] = i
           /\ \A j \in 1..Len(reports) : reports'[j] = reports[j]
<1>1. i \in Nat
      BY Typed
<1>2. /\ reports' \in Seq(Nat) /\ Len(reports') = Len(reports) + 1
      /\ reports'[Len(reports) + 1] = i
      /\ \A j \in 1..Len(reports) : reports'[j] = reports[j]
      BY <1>1, Typed, AppendProperties
<1>3. Grown
      BY <1>2, Typed DEF Grown
<1>4. RowsSound'
  <2>1. \A j \in 1..Len(sessions) :
           /\ sessions[j].report \in 0..Len(reports')
           /\ sessions[j].report # 0 => reports'[sessions[j].report] = j
        BY <1>2, Typed DEF PortalSound, RowsSound
  <2>2. ASSUME NEW j \in 1..Len(reports') PROVE reports'[j] \in 1..Len(sessions)
    <3>1. j \in 1..Len(reports) \/ j = Len(reports) + 1
          BY <1>2, Typed
    <3> QED  BY <1>1, <1>2, <3>1 DEF PortalSound, RowsSound
  <2> QED  BY <2>1, <2>2 DEF RowsSound
<1> QED  BY <1>2, <1>3, <1>4

LEMMA CreateReportSound ==
    ASSUME PortalSound, NEW r \in Req, CreateReport(r) PROVE PortalSound'
<1>1. /\ req[r].op = "submit" /\ UNCHANGED <<codeVars, linkCalls, sessions, faultVars>>
      BY DEF CreateReport, Admitted
<1>2. req[r].op \in CallOp /\ req[r].op # "verify"
      BY <1>1 DEF CallOp
<1>3. CodesTyped' /\ CountsTyped'
      BY <1>1, CodesKept, CountsKept
<1>4. CASE Reply(r, FALSE) /\ reports' = reports
  <2>1. Grown /\ RowsSound'
        BY <1>1, <1>4, NothingGrown DEF codeVars, sessionVars
  <2> QED  BY <1>2, <1>3, <1>4, <2>1, CallNames, ReplyKeepsSound
<1>5. CASE /\ reports' = Append(reports, req[r].session)
           /\ req' = [req EXCEPT ![r].step = "created", ![r].report = Len(reports) + 1]
           /\ UNCHANGED pageVars
  <2>1. PICK q \in SessionReq : q = req[r]
        BY <1>2, CallNames
  <2>0. PICK n \in Nat : n = Len(reports) + 1
        BY Typed
  <2>2. PICK new : new = [q EXCEPT !.step = "created", !.report = n]
        OBVIOUS
  <2>3. req' = [req EXCEPT ![r] = new]
        BY <1>5, <2>0, <2>1, <2>2, Typed
  <2>4. /\ new \in SessionReq /\ new.op = "submit" /\ new.page = q.page
        /\ new.session = q.session /\ new.report = Len(reports) + 1
    <3>1. new \in SessionReq
          BY <2>2 DEF SessionReq
    <3>2. q.op = "submit"
          BY <1>1, <2>1
    <3> QED  BY <2>0, <2>2, <3>1, <3>2 DEF SessionReq
  <2>5. PICK i \in 1..Len(sessions) : i = req[r].session
        BY <1>2, CallNames
  <2>6. /\ Grown /\ RowsSound' /\ Len(reports') = Len(reports) + 1
        /\ reports'[Len(reports) + 1] = i
        BY <1>1, <1>5, <2>5, ReportAdded DEF codeVars
  <2>7. /\ PagesSound' /\ HoldersDiffer' /\ PagesTyped'
        BY <1>1, <1>2, <1>5, <2>1, <2>3, <2>4, <2>6, GoesOnSound
  <2>8. RequestsTyped' /\ RequestsSound'
    <3>1. new.session \in 1..Len(sessions') /\ new.report \in 0..Len(reports')
          BY <1>1, <2>1, <2>4, <2>5, <2>6, Typed
    <3>2. new.report # 0 /\ reports'[new.report] = new.session
          BY <2>1, <2>4, <2>5, <2>6, Typed
    <3>3. new.op \notin LinkOp
          BY <2>4 DEF LinkOp
    <3> QED  BY <2>3, <2>4, <2>6, <3>1, <3>2, <3>3, RequestsStaySound DEF RequestsTyped
  <2>9. PortalTypeOK'
        BY <1>3, <2>6, <2>7, <2>8, TypeParts DEF Grown
  <2> QED  BY <2>6, <2>7, <2>8, <2>9 DEF PortalSound
<1> QED  BY <1>4, <1>5 DEF CreateReport

\* The report of a session is noted.
LEMMA Stamped ==
    ASSUME PortalSound, NEW r \in Req, StampReport(r)
    PROVE  LET i == req[r].session IN
           /\ Grown /\ RowsSound' /\ Len(sessions') = Len(sessions)
           /\ sessions'[i].report = req[r].report /\ sessions'[i].used = sessions[i].used
           /\ \A j \in 1..Len(sessions) : j # i => sessions'[j] = sessions[j]
<1>1. req[r].op \in CallOp
      BY DEF StampReport, CallOp
<1>2. PICK i \in 1..Len(sessions), q \in Session, n \in 0..Len(reports) :
          i = req[r].session /\ q = sessions[i] /\ n = req[r].report
      BY <1>1, CallNames
<1>0. n # 0 => reports[n] = i
      BY <1>1, <1>2, CallNames DEF StampReport
<1>3. PICK t : t = [q EXCEPT !.report = n]
      OBVIOUS
<1>4. n \in Nat
      BY Typed
<1>5. t \in Session /\ t.report = n /\ t.used = q.used
      BY <1>3, <1>4 DEF Session
<1>6. sessions' = [sessions EXCEPT ![i] = t] /\ UNCHANGED <<generated, reports>>
  <2>1. sessions' = [sessions EXCEPT ![i].report = n] /\ UNCHANGED <<generated, reports>>
        BY <1>2 DEF StampReport, codeVars
  <2> QED  BY <1>2, <1>3, <2>1
<1>7. /\ Grown /\ RowsSound' /\ Len(sessions') = Len(sessions) /\ sessions'[i] = t
      /\ \A j \in 1..Len(sessions) : j # i => sessions'[j] = sessions[j]
      BY <1>0, <1>5, <1>6, SessionChanged
<1> QED  BY <1>2, <1>5, <1>7

LEMMA StampReportSound ==
    ASSUME PortalSound, NEW r \in Req, StampReport(r) PROVE PortalSound'
<1>1. /\ req[r].op \in CallOp /\ Reply(r, TRUE)
      /\ UNCHANGED <<codeVars, linkCalls, faultVars>> /\ req[r].op # "verify"
      BY DEF StampReport, CallOp
<1> QED  BY <1>1, Stamped, CallNames, CodesKept, CountsKept, ReplyKeepsSound

\* A session is used up.
LEMMA Consumed ==
    ASSUME PortalSound, NEW r \in Req, req[r].op \in CallOp,
           sessions' = [sessions EXCEPT ![req[r].session].used = TRUE],
           UNCHANGED <<generated, reports>>
    PROVE  LET i == req[r].session IN
           /\ Grown /\ RowsSound' /\ Len(sessions') = Len(sessions)
           /\ sessions'[i].used /\ sessions'[i].report = sessions[i].report
           /\ \A j \in 1..Len(sessions) : j # i => sessions'[j] = sessions[j]
<1>1. PICK i \in 1..Len(sessions), q \in Session : i = req[r].session /\ q = sessions[i]
      BY CallNames
<1>2. PICK t : t = [q EXCEPT !.used = TRUE]
      OBVIOUS
<1>3. t \in Session /\ t.report = q.report /\ t.used = TRUE
      BY <1>2 DEF Session
<1>4. sessions' = [sessions EXCEPT ![i] = t]
      BY <1>1, <1>2
<1>5. t.report \in 0..Len(reports) /\ (t.report # 0 => reports[t.report] = i)
      BY <1>1, <1>3 DEF PortalSound, RowsSound
<1>6. /\ Grown /\ RowsSound' /\ Len(sessions') = Len(sessions) /\ sessions'[i] = t
      /\ \A j \in 1..Len(sessions) : j # i => sessions'[j] = sessions[j]
      BY <1>3, <1>4, <1>5, SessionChanged
<1> QED  BY <1>1, <1>3, <1>6

LEMMA ConsumeSound ==
    ASSUME PortalSound, NEW r \in Req, Consume(r) PROVE PortalSound'
<1>1. /\ req[r].op \in CallOp /\ req[r].op # "verify"
      /\ UNCHANGED <<codeVars, linkCalls, reports, faultVars>>
      BY DEF Consume, Admitted, CallOp
<1>2. \/ /\ Reply(r, TRUE)
         /\ sessions' = [sessions EXCEPT ![req[r].session].used = TRUE]
      \/ Reply(r, FALSE) /\ sessions' = sessions
      BY DEF Consume
<1>3. generated' = generated /\ reports' = reports
      BY <1>1 DEF codeVars
<1>4. Grown /\ RowsSound'
      BY <1>1, <1>2, <1>3, Consumed, NothingGrown DEF sessionVars
<1> QED  BY <1>1, <1>2, <1>4, CallNames, CodesKept, CountsKept, ReplyKeepsSound

LEMMA RefuseUploadSound ==
    ASSUME PortalSound, NEW r \in Req, RefuseUpload(r) PROVE PortalSound'
<1>1. /\ req[r].op = "upload" /\ Reply(r, FALSE)
      /\ UNCHANGED <<codeVars, linkCalls, sessionVars, faultVars>>
      BY DEF RefuseUpload
<1>2. Grown /\ RowsSound'
      BY <1>1, NothingGrown DEF codeVars
<1>3. req[r] # Idle
      BY <1>1 DEF Idle
<1> QED  BY <1>1, <1>2, <1>3, CodesKept, CountsKept, ReplyKeepsSound

-------------------------------------------------------------------------------
(* Faults.                                                                 *)

LEMMA FaultCounted ==
    ASSUME PortalSound, NEW r \in Req, req[r] # Idle, faults < MaxFaults,
           unlucky' = unlucky \cup {req[r].page}, faults' = faults + 1,
           UNCHANGED <<codeVars, linkCalls, sessionVars>>
    PROVE  CountsTyped' /\ CodesTyped' /\ Grown /\ RowsSound'
<1>1. req[r].page \in Page
      BY Typed, CallFields
<1>2. faults' \in 0..MaxFaults
      BY BoundAssumption DEF PortalSound, PortalTypeOK
<1>3. CountsTyped'
      BY <1>1, <1>2 DEF PortalSound, PortalTypeOK, CountsTyped
<1>4. Grown /\ RowsSound'
      BY NothingGrown DEF codeVars
<1> QED  BY <1>3, <1>4, CodesKept

LEMMA DieSound ==
    ASSUME PortalSound, NEW r \in Req, Die(r) PROVE PortalSound'
<1>1. PICK ok \in BOOLEAN : Reply(r, ok) /\ (req[r].op = "verify" => ~ok)
      BY DEF Die
<1>2. /\ req[r] # Idle /\ faults < MaxFaults /\ unlucky' = unlucky \cup {req[r].page}
      /\ faults' = faults + 1 /\ UNCHANGED <<codeVars, linkCalls, sessionVars>>
      BY DEF Die
<1> QED  BY <1>1, <1>2, FaultCounted, ReplyKeepsSound

LEMMA StopWaitingSound ==
    ASSUME PortalSound, NEW r \in Req, StopWaiting(r) PROVE PortalSound'
<1>1. /\ req[r] # Idle /\ Settle(req[r].page, r, FALSE, 0) /\ faults < MaxFaults
      /\ unlucky' = unlucky \cup {req[r].page} /\ faults' = faults + 1
      /\ UNCHANGED <<req, codeVars, linkCalls, sessionVars>>
      BY DEF StopWaiting
<1>2. CountsTyped' /\ CodesTyped' /\ Grown /\ RowsSound'
      BY <1>1, FaultCounted
<1>3. PagesSound' /\ HoldersDiffer'
      BY <1>1, <1>2, SettledPages
<1>4. PagesTyped'
      BY <1>1, Settling DEF PagesTyped
<1>5. RequestsTyped'
      BY <1>1, Typed DEF RequestsTyped
<1>6. RequestsSound'
      BY <1>1, <1>2, RequestStaysSound DEF RequestsSound
<1>7. PortalTypeOK'
      BY <1>2, <1>4, <1>5, TypeParts DEF Grown
<1> QED  BY <1>2, <1>3, <1>6, <1>7 DEF PortalSound

-------------------------------------------------------------------------------

LEMMA InitSound == PortalInit => PortalSound
<1> SUFFICES ASSUME PortalInit PROVE PortalSound
    OBVIOUS
<1>1. Len(<<>>) = 0 /\ <<>> \in Seq(Code) /\ <<>> \in Seq(Session) /\ <<>> \in Seq(Nat)
      OBVIOUS
<1>2. NoSlot \in Slot /\ NoSlot.codes = <<>> /\ Len(<<>>) <= MaxActive
      BY <1>1, LimitAssumption DEF Slot, NoSlot
<1>3. PortalTypeOK
  <2>1. /\ page \in [Page -> Step] /\ waits \in [Page -> SUBSET Req]
        /\ todo \in [Page -> SUBSET File] /\ failed \in [Page -> SUBSET File]
        /\ holds \in [Page -> Nat]
        /\ req \in [Req -> {Idle} \cup CodeReq \cup SessionReq \cup UploadReq] /\ opened \in [Code -> Nat]
        BY DEF PortalInit, Step
  <2>2. /\ generated \in 0..MaxCodes /\ lapsed \in 0..generated
        /\ linkCalls \in 0..LinkLimit /\ faults \in 0..MaxFaults
        BY LimitAssumption, BoundAssumption DEF PortalInit
  <2> QED  BY <1>1, <1>2, <2>1, <2>2 DEF PortalInit, PortalTypeOK
<1>4. RequestsSound /\ PagesSound /\ HoldersDiffer /\ RowsSound
      BY <1>1 DEF PortalInit, RequestsSound, RequestSound, PagesSound, PageSound, HoldersDiffer,
                  RowsSound, HasSession, Idle, LinkOp, CallOp
<1> QED  BY <1>3, <1>4 DEF PortalSound

LEMMA SoundStutters == PortalSound /\ UNCHANGED portalVars => PortalSound'
<1> SUFFICES ASSUME PortalSound, UNCHANGED portalVars PROVE PortalSound'
    OBVIOUS
<1>1. UNCHANGED <<page, waits, todo, failed, holds, req, slot, generated, lapsed, mailed, due, opened,
                  crossed, linkCalls, sessions, reports, unlucky, faults>>
      BY DEF portalVars, pageVars, codeVars, sessionVars, faultVars
<1> QED  BY <1>1 DEF PortalSound, PortalTypeOK, RequestsSound, RequestSound, PagesSound,
                     PageSound, HoldersDiffer, RowsSound

LEMMA StepSound == PortalSound /\ [PortalNext]_portalVars => PortalSound'
<1> SUFFICES ASSUME PortalSound, [PortalNext]_portalVars PROVE PortalSound'
    OBVIOUS
<1>1. CASE \E p \in Page : Open(p) \/ BackToIdentify(p)
      BY <1>1, OpenSound
<1>2. CASE \E p \in Page, r \in Req : Identify(p, r) \/ \E c \in 0..MaxCodes : Verify(p, r, c)
      BY <1>2, LinkCallSound
<1>3. CASE \E p \in Page, r \in Req :
              Submit(p, r) \/ Finalize(p, r) \/ \E f \in File : Upload(p, r, f)
      BY <1>3, PageCallSound
<1>4. CASE \E r \in Req : StoreCode(r)
      BY <1>4, StoreCodeSound
<1>5. CASE \E r \in Req : VerifyNothing(r) \/ VerifyTooLate(r) \/ VerifyMiss(r)
      BY <1>5, VerifyFailsSound
<1>6. CASE \E r \in Req : VerifyMatch(r)
      BY <1>6, VerifyMatchSound
<1>7. CASE \E r \in Req : Admit(r) \/ TurnAway(r)
      BY <1>7, AdmitSound, TurnAwaySound
<1>8. CASE \E r \in Req : CreateReport(r) \/ StampReport(r)
      BY <1>8, CreateReportSound, StampReportSound
<1>9. CASE \E r \in Req : RefuseUpload(r) \/ Consume(r)
      BY <1>9, RefuseUploadSound, ConsumeSound
<1>10. CASE \E r \in Req : StopWaiting(r) \/ Die(r)
      BY <1>10, StopWaitingSound, DieSound
<1>11. CASE CodesExpire
      BY <1>11, ExpireSound
<1>12. CASE UNCHANGED portalVars
      BY <1>12, SoundStutters
<1> QED  BY <1>1, <1>2, <1>3, <1>4, <1>5, <1>6, <1>7, <1>8, <1>9, <1>10, <1>11, <1>12
         DEF PortalNext

\* The state of the pages, the requests and the rows has its type.
THEOREM PortalTypeCorrect == PortalSpec => []PortalTypeOK
<1>1. PortalSpec => []PortalSound
      BY InitSound, StepSound, PTL DEF PortalSpec
<1>2. PortalSound => PortalTypeOK
      BY DEF PortalSound
<1> QED  BY <1>1, <1>2, PTL

-------------------------------------------------------------------------------
(* The codes. As long as no writer of the row wrote over codes it had not  *)
(* read, the row is a beginning of the codes that are due, which are in    *)
(* order and none was used; a list that was read is an order of codes, and *)
(* its valid ones a beginning of it; the code of a request that is to be   *)
(* stored is newer than all it read and neither used nor due.              *)

\* What the list ends at: what follows in t is over, or the list is full.
EndsAt(s, t) == Len(s) < Len(t) => t[Len(s) + 1] <= lapsed

RowSound ==
    /\ Descending(due) /\ Begins(slot.codes, due)
    /\ Len(slot.codes) < MaxActive => EndsAt(slot.codes, due)
    /\ Len(slot.codes) = 0 => Len(due) = 0

OpenedSound ==
    /\ \A i \in 1..Len(due) : opened[due[i]] = 0 /\ due[i] <= generated
    /\ \A c \in Code : opened[c] <= 1 /\ (c > generated => opened[c] = 0)

ReadSound(r) ==
    req[r].op \in LinkOp =>
       /\ Descending(req[r].seen) /\ Begins(req[r].valid, req[r].seen)
       /\ EndsAt(req[r].valid, req[r].seen)

FreshSound(r) ==
    req[r].op = "identify" =>
       /\ opened[req[r].code] = 0 /\ \A i \in 1..Len(due) : due[i] # req[r].code
       /\ \A i \in 1..Len(req[r].seen) : req[r].seen[i] < req[r].code
       /\ \A s \in Req : s # r /\ req[s].op = "identify" => req[s].code # req[r].code

CodesSound ==
    ~crossed => /\ RowSound /\ OpenedSound
                /\ \A r \in Req : ReadSound(r) /\ FreshSound(r)

\* What a link request has read.
LEMMA LinkFields ==
    ASSUME PortalSound, NEW r \in Req, req[r].op \in LinkOp
    PROVE  /\ req[r].seen \in Seq(Code) /\ req[r].valid \in Seq(Code)
           /\ req[r].op = "identify" => req[r].code \in 1..generated /\ req[r].code \in Code
<1>1. PICK q \in {Idle} \cup CodeReq \cup SessionReq \cup UploadReq : q = req[r]
      BY Typed
<1>2. q.seen \in Seq(Code) /\ q.valid \in Seq(Code)
      BY <1>1, CallFields
<1>3. RequestSound(r)
      BY DEF PortalSound, RequestsSound
<1>4. q.op = "identify" => q.code \in 1..generated
      BY <1>1, <1>3 DEF RequestSound
<1> QED  BY <1>1, <1>2, <1>4, Typed, BoundAssumption DEF Code

LEMMA Prepended ==
    ASSUME NEW c \in Code, NEW s \in Seq(Code)
    PROVE  /\ <<c>> \o s \in Seq(Code) /\ Len(<<c>> \o s) = Len(s) + 1
           /\ (<<c>> \o s)[1] = c /\ \A i \in 1..Len(s) : (<<c>> \o s)[i + 1] = s[i]
<1>1. <<c>> \in Seq(Code) /\ Len(<<c>>) = 1 /\ <<c>>[1] = c
      OBVIOUS
<1>2. /\ <<c>> \o s \in Seq(Code) /\ Len(<<c>> \o s) = 1 + Len(s)
      /\ \A i \in 1..(1 + Len(s)) :
            (<<c>> \o s)[i] = IF i <= 1 THEN <<c>>[i] ELSE s[i - 1]
      BY <1>1, ConcatProperties
<1>3. Len(s) \in Nat
      BY LenProperties
<1> QED  BY <1>1, <1>2, <1>3

\* A beginning of a list in order is in order; and so is a beginning of it.
LEMMA Beginnings ==
    ASSUME NEW s \in Seq(Code), NEW t \in Seq(Code), Begins(s, t), Descending(t)
    PROVE  Descending(s)
<1>1. DOMAIN s = 1..Len(s) /\ DOMAIN t = 1..Len(t) /\ Len(s) \in Nat /\ Len(t) \in Nat
      BY LenProperties
<1> QED  BY <1>1 DEF Begins, Descending

LEMMA BeginsThrough ==
    ASSUME NEW s \in Seq(Code), NEW t \in Seq(Code), NEW u \in Seq(Code),
           Begins(s, t), Begins(t, u)
    PROVE  Begins(s, u)
<1>1. Len(s) \in Nat /\ Len(t) \in Nat /\ Len(u) \in Nat
      BY LenProperties
<1> QED  BY <1>1 DEF Begins

\* The codes of requests that leave the row alone.
LEMMA CodesUntouched ==
    ASSUME CodesSound, UNCHANGED codeVars,
           \A s \in Req : req'[s].op \in LinkOp => req'[s] = req[s]
    PROVE  CodesSound'
<1>1. UNCHANGED <<slot, generated, lapsed, due, opened, crossed>>
      BY DEF codeVars
<1>2. SUFFICES ASSUME ~crossed
               PROVE  /\ RowSound' /\ OpenedSound'
                      /\ \A r \in Req : ReadSound(r)' /\ FreshSound(r)'
      BY <1>1 DEF CodesSound
<1>3. RowSound' /\ OpenedSound'
      BY <1>1, <1>2 DEF CodesSound, RowSound, OpenedSound, EndsAt, Begins, Descending
<1>4. ASSUME NEW r \in Req PROVE ReadSound(r)' /\ FreshSound(r)'
  <2>1. ReadSound(r) /\ FreshSound(r)
        BY <1>2 DEF CodesSound
  <2>2. ReadSound(r)'
        BY <1>1, <2>1 DEF ReadSound, EndsAt
  <2>3. FreshSound(r)'
        BY <1>1, <2>1 DEF FreshSound, LinkOp
  <2> QED  BY <2>2, <2>3
<1> QED  BY <1>3, <1>4

\* The row's codes are the newest that are due and valid.
LEMMA RowIsNewest == PortalSound /\ CodesSound => NewestCodesWork
<1> SUFFICES ASSUME PortalSound, CodesSound, ~crossed
             PROVE  Unexpired(slot.codes) = Newest(Unexpired(due))
    BY DEF NewestCodesWork
<1>1. slot.codes \in Seq(Code) /\ due \in Seq(Code) /\ lapsed \in Nat /\ Len(slot.codes) <= MaxActive
      BY Typed
<1>2. PICK s \in Seq(Code), d \in Seq(Code) : s = slot.codes /\ d = due
      BY <1>1
<1>3. /\ Descending(d) /\ Begins(s, d)
      /\ Len(s) < MaxActive /\ Len(s) < Len(d) => d[Len(s) + 1] <= lapsed
      BY <1>2 DEF CodesSound, RowSound, EndsAt
<1>4. Descending(s)
      BY <1>3, Beginnings
<1>5. PICK u \in Seq(Code), v \in Seq(Code) : u = Unexpired(s) /\ v = Unexpired(d)
      BY <1>1, UnexpiredType
<1>6. /\ Begins(u, s) /\ \A i \in 1..Len(u) : s[i] > lapsed
      /\ Len(u) < Len(s) => s[Len(u) + 1] <= lapsed
      BY <1>1, <1>4, <1>5, UnexpiredBegins
<1>7. /\ Begins(v, d) /\ \A i \in 1..Len(v) : d[i] > lapsed
      BY <1>1, <1>3, <1>5, UnexpiredBegins
<1>8. Len(v) < Len(d) => d[Len(v) + 1] <= lapsed
      BY <1>1, <1>3, <1>5, UnexpiredBegins
<1>9. PICK w \in Seq(Code) : w = Newest(v)
      BY NewestType
<1>10. Begins(w, v) /\ Len(w) = IF Len(v) < MaxActive THEN Len(v) ELSE MaxActive
       BY <1>9, NewestType
<1>11. /\ Len(s) \in Nat /\ Len(d) \in Nat /\ Len(u) \in Nat /\ Len(v) \in Nat /\ MaxActive \in Nat
       BY LimitAssumption, LenProperties
<1>12. /\ \A i \in 1..Len(d) : d[i] \in Nat
       BY CodesAreNumbers
<1>13. Begins(u, d) /\ Begins(w, d)
       BY <1>3, <1>6, <1>7, <1>10, BeginsThrough
<1>14. Len(u) = Len(w)
  <2>1. Len(u) <= Len(s) /\ Len(s) <= Len(d) /\ Len(v) <= Len(d) /\ Len(s) <= MaxActive
        BY <1>1, <1>2, <1>3, <1>6, <1>7 DEF Begins
  <2>2. \A i \in 1..Len(u) : d[i] > lapsed
        BY <1>3, <1>6, <1>11, <2>1 DEF Begins
  <2>3. Len(u) <= Len(v)
    <3> SUFFICES ASSUME Len(v) < Len(u) PROVE FALSE
        BY <1>11
    <3>1. Len(v) + 1 \in 1..Len(u) /\ Len(v) + 1 \in 1..Len(d) /\ Len(v) < Len(d)
          BY <1>11, <2>1
    <3> QED  BY <1>1, <1>8, <1>12, <2>2, <3>1
  <2>4. Len(u) < MaxActive => Len(u) = Len(v)
    <3> SUFFICES ASSUME Len(u) < MaxActive, Len(u) < Len(v) PROVE FALSE
        BY <1>11, <2>3
    <3>1. Len(u) + 1 \in 1..Len(v) /\ Len(u) + 1 \in 1..Len(d) /\ Len(u) < Len(d)
          BY <1>11, <2>1
    <3>2. d[Len(u) + 1] > lapsed /\ d[Len(u) + 1] \in Nat
          BY <1>7, <1>12, <3>1
    <3>3. CASE Len(u) < Len(s)
      <4>1. Len(u) + 1 \in 1..Len(s)
            BY <1>11, <3>3
      <4>2. d[Len(u) + 1] <= lapsed
            BY <1>3, <1>6, <3>3, <4>1 DEF Begins
      <4> QED  BY <1>1, <3>2, <4>2
    <3>4. CASE Len(u) = Len(s)
          BY <1>1, <1>3, <3>1, <3>2, <3>4
    <3> QED  BY <1>11, <2>1, <3>3, <3>4
  <2> QED  BY <1>10, <1>11, <2>1, <2>3, <2>4
<1>15. u = w
  <2>1. \A i \in 1..Len(u) : u[i] = w[i]
        BY <1>13, <1>14 DEF Begins
  <2> QED  BY <1>14, <2>1, SeqEqual
<1> QED  BY <1>2, <1>5, <1>9, <1>15

\* Other requests that are answered, and the calls of sessions.
LEMMA AnswerAlone ==
    ASSUME PortalSound, NEW r \in Req, NEW ok \in BOOLEAN, Reply(r, ok)
    PROVE  /\ req'[r] = Idle /\ \A s \in Req : s # r => req'[s] = req[s]
           /\ \A s \in Req : req'[s].op \in LinkOp => s # r
BY Typed DEF Reply, Idle, LinkOp

\* Unless the row meanwhile changed, what a request read begins what is due.
LEMMA ReadIsDue ==
    ASSUME PortalSound, CodesSound, ~crossed, NEW r \in Req, req[r].op \in LinkOp,
           slot.codes = req[r].seen
    PROVE  /\ req[r].valid \in Seq(Code) /\ Begins(req[r].valid, due)
           /\ Len(req[r].valid) < MaxActive => EndsAt(req[r].valid, due)
<1>1. PICK v \in Seq(Code), s \in Seq(Code), d \in Seq(Code) :
          v = req[r].valid /\ s = req[r].seen /\ d = due
      BY LinkFields, Typed
<1>2. /\ Begins(v, s) /\ Begins(s, d)
      /\ Len(v) < Len(s) => s[Len(v) + 1] <= lapsed
      BY <1>1 DEF CodesSound, ReadSound, RowSound, EndsAt
<1>3. Len(s) < MaxActive => (Len(s) < Len(d) => d[Len(s) + 1] <= lapsed)
      BY <1>1 DEF CodesSound, RowSound, EndsAt
<1>4. Len(v) \in Nat /\ Len(s) \in Nat /\ Len(d) \in Nat /\ Len(v) <= Len(s) /\ Len(s) <= Len(d)
      BY <1>2, LenProperties DEF Begins
<1>5. ASSUME Len(v) < MaxActive, Len(v) < Len(d) PROVE d[Len(v) + 1] <= lapsed
  <2>1. CASE Len(v) < Len(s)
    <3>1. Len(v) + 1 \in 1..Len(s)
          BY <1>4, <2>1
    <3> QED  BY <1>2, <2>1, <3>1 DEF Begins
  <2>2. CASE Len(v) = Len(s)
        BY <1>3, <1>5, <2>2
  <2> QED  BY <1>4, <2>1, <2>2
<1> QED  BY <1>1, <1>2, <1>5, BeginsThrough DEF EndsAt

\* The row is rewritten by a request that read what it held.
LEMMA StoreCodeCodes ==
    ASSUME PortalSound, CodesSound, NEW r \in Req, StoreCode(r) PROVE CodesSound'
<1>1. /\ req[r].op = "identify" /\ req[r].op \in LinkOp
      /\ slot'.codes = Newest(<<req[r].code>> \o req[r].valid)
      /\ due' = <<req[r].code>> \o due /\ Reply(r, TRUE)
      /\ crossed' = (crossed \/ slot.codes # req[r].seen)
      /\ UNCHANGED <<generated, lapsed, opened>>
      BY DEF StoreCode, Upsert, LinkOp
<1>2. SUFFICES ASSUME ~crossed'
               PROVE  /\ RowSound' /\ OpenedSound'
                      /\ \A s \in Req : ReadSound(s)' /\ FreshSound(s)'
      BY DEF CodesSound
<1>3. ~crossed /\ slot.codes = req[r].seen
      BY <1>1, <1>2
<1>4. PICK c \in Code, v \in Seq(Code), d \in Seq(Code) :
          c = req[r].code /\ v = req[r].valid /\ d = due
      BY <1>1, LinkFields, Typed
<1>5. /\ Begins(v, d)
      /\ Len(v) < MaxActive /\ Len(v) < Len(d) => d[Len(v) + 1] <= lapsed
      BY <1>1, <1>3, <1>4, ReadIsDue DEF EndsAt
<1>6. PICK t \in Seq(Code), e \in Seq(Code) : t = <<c>> \o v /\ e = <<c>> \o d
      BY Prepended
<1>7. /\ Len(t) = Len(v) + 1 /\ t[1] = c /\ \A i \in 1..Len(v) : t[i + 1] = v[i]
      /\ Len(e) = Len(d) + 1 /\ e[1] = c /\ \A i \in 1..Len(d) : e[i + 1] = d[i]
      BY <1>6, Prepended
<1>8. PICK n \in Seq(Code) : n = Newest(t)
      BY NewestType
<1>9. Begins(n, t) /\ Len(n) = IF Len(t) < MaxActive THEN Len(t) ELSE MaxActive
      BY <1>8, NewestType
<1>10. slot'.codes = n /\ due' = e
       BY <1>1, <1>4, <1>6, <1>8
<1>11. /\ Len(v) \in Nat /\ Len(d) \in Nat /\ Len(n) \in Nat /\ MaxActive \in Nat \ {0}
       /\ c \in Nat /\ lapsed \in Nat /\ generated \in Nat
       BY LimitAssumption, BoundAssumption, LenProperties, Typed DEF Code
<1>12. \A i \in 1..Len(d) : d[i] \in Nat /\ d[i] \in Code
       BY CodesAreNumbers
<1>13. /\ Descending(d) /\ \A i \in 1..Len(d) : opened[d[i]] = 0 /\ d[i] <= generated
       /\ \A i \in 1..Len(d) : d[i] # c
       /\ opened[c] = 0 /\ c <= generated
  <2>1. RowSound /\ OpenedSound /\ FreshSound(r) /\ req[r].code \in 1..generated
        BY <1>1, <1>3, LinkFields DEF CodesSound
  <2> QED  BY <1>1, <1>4, <2>1 DEF RowSound, OpenedSound, FreshSound
<1>14. \A i \in 1..Len(d) : d[i] < c
  <2>1. PICK s \in Seq(Code) : s = slot.codes
        BY Typed
  <2>2. /\ Begins(s, d)
        /\ Len(s) = 0 => Len(d) = 0
        BY <1>3, <1>4, <2>1 DEF CodesSound, RowSound
  <2>3. \A i \in 1..Len(s) : s[i] < c
        BY <1>1, <1>3, <1>4, <2>1 DEF CodesSound, FreshSound
  <2>4. Len(s) \in Nat
        BY LenProperties
  <2>5. ASSUME NEW i \in 1..Len(d) PROVE d[i] < c
    <3>1. 1 \in 1..Len(s) /\ 1 \in 1..Len(d) /\ DOMAIN d = 1..Len(d)
          BY <1>11, <2>2, <2>4, LenProperties
    <3>2. d[1] < c /\ d[1] \in Nat /\ d[i] \in Nat
          BY <1>12, <2>2, <2>3, <3>1 DEF Begins
    <3>3. i = 1 \/ d[1] > d[i]
      <4>1. i = 1 \/ 1 < i
            BY <1>11
      <4>2. \A j \in 1..Len(d) : 1 < j => d[1] > d[j]
            BY <1>13, <3>1 DEF Descending
      <4> QED  BY <4>1, <4>2
    <3> QED  BY <1>11, <3>2, <3>3
  <2> QED  BY <2>5
<1>15. \A i \in 1..Len(e) : i = 1 \/ (i - 1 \in 1..Len(d) /\ e[i] = d[i - 1])
  <2>1. ASSUME NEW i \in 1..Len(e), i # 1 PROVE i - 1 \in 1..Len(d) /\ e[i] = d[i - 1]
    <3>1. i - 1 \in 1..Len(d) /\ i = (i - 1) + 1
          BY <1>7, <1>11, <2>1
    <3> QED  BY <1>7, <3>1
  <2> QED  BY <2>1
<1>16. RowSound'
  <2>1. Descending(e)
    <3>1. SUFFICES ASSUME NEW i \in 1..Len(e), NEW j \in 1..Len(e), i < j PROVE e[i] > e[j]
          BY LenProperties DEF Descending
    <3>2. j # 1 /\ j - 1 \in 1..Len(d) /\ e[j] = d[j - 1]
          BY <1>7, <1>11, <1>15, <3>1
    <3>3. CASE i = 1
          BY <1>7, <1>14, <3>2, <3>3
    <3>4. CASE i # 1
      <4>1. i - 1 \in 1..Len(d) /\ e[i] = d[i - 1] /\ i - 1 < j - 1
            BY <1>7, <1>11, <1>15, <3>1, <3>4
      <4>2. DOMAIN d = 1..Len(d)
            BY LenProperties
      <4> QED  BY <1>13, <3>2, <4>1, <4>2 DEF Descending
    <3> QED  BY <3>3, <3>4
  <2>2. Begins(t, e)
    <3>1. Len(t) <= Len(e)
          BY <1>5, <1>7, <1>11 DEF Begins
    <3>2. ASSUME NEW i \in 1..Len(t) PROVE t[i] = e[i]
      <4>1. CASE i = 1
            BY <1>7, <4>1
      <4>2. CASE i # 1
        <5>1. i - 1 \in 1..Len(v) /\ i = (i - 1) + 1
              BY <1>7, <1>11, <4>2
        <5>2. t[i] = v[i - 1]
              BY <1>7, <5>1
        <5>3. i \in 1..Len(e)
              BY <1>7, <1>11, <3>1
        <5> QED  BY <1>5, <1>15, <4>2, <5>1, <5>2, <5>3 DEF Begins
      <4> QED  BY <4>1, <4>2
    <3> QED  BY <3>1, <3>2 DEF Begins
  <2>3. Begins(n, e)
        BY <1>9, <2>2, BeginsThrough
  <2>4. ASSUME Len(n) < MaxActive, Len(n) < Len(e) PROVE e[Len(n) + 1] <= lapsed
    <3>1. Len(n) = Len(v) + 1 /\ Len(v) < MaxActive /\ Len(v) < Len(d)
          BY <1>7, <1>9, <1>11, <2>4
    <3>2. Len(v) + 1 \in 1..Len(d) /\ e[Len(n) + 1] = d[Len(v) + 1]
          BY <1>7, <1>11, <3>1
    <3> QED  BY <1>5, <3>1, <3>2
  <2>5. Len(n) # 0
        BY <1>7, <1>9, <1>11
  <2> QED  BY <1>1, <1>10, <2>1, <2>3, <2>4, <2>5 DEF RowSound, EndsAt
<1>17. OpenedSound'
  <2>1. ASSUME NEW i \in 1..Len(e) PROVE opened[e[i]] = 0 /\ e[i] <= generated
    <3>1. e[i] = c \/ \E j \in 1..Len(d) : e[i] = d[j]
          BY <1>7, <1>15
    <3> QED  BY <1>13, <3>1
  <2> QED  BY <1>1, <1>3, <1>10, <2>1 DEF OpenedSound, CodesSound
<1>18. ASSUME NEW s \in Req PROVE ReadSound(s)' /\ FreshSound(s)'
  <2>1. CASE s = r
        BY <1>1, <2>1, AnswerAlone DEF ReadSound, FreshSound, LinkOp, Idle
  <2>2. CASE s # r
    <3>1. req'[s] = req[s] /\ \A x \in Req : x # r => req'[x] = req[x]
          BY <1>1, <2>2, AnswerAlone
    <3>2. req'[r].op # "identify"
          BY <1>1, AnswerAlone DEF Idle
    <3>3. ReadSound(s) /\ FreshSound(s)
          BY <1>3 DEF CodesSound
    <3>4. ReadSound(s)'
          BY <1>1, <3>1, <3>3 DEF ReadSound, EndsAt
    <3>5. req[s].op = "identify" => \A i \in 1..Len(e) : e[i] # req[s].code
      <4>1. ASSUME req[s].op = "identify", NEW i \in 1..Len(e) PROVE e[i] # req[s].code
        <5>1. e[i] = c \/ \E j \in 1..Len(d) : e[i] = d[j]
              BY <1>7, <1>15
        <5>2. req[s].code # c /\ \A j \in 1..Len(d) : d[j] # req[s].code
              BY <1>1, <1>4, <2>2, <3>3, <4>1 DEF FreshSound
        <5> QED  BY <5>1, <5>2
      <4> QED  BY <4>1
    <3>6. FreshSound(s)'
          BY <1>1, <1>10, <3>1, <3>2, <3>3, <3>5 DEF FreshSound
    <3> QED  BY <3>4, <3>6
  <2> QED  BY <2>1, <2>2
<1> QED  BY <1>16, <1>17, <1>18

LEMMA RowDeletedCodes ==
    ASSUME PortalSound, CodesSound, NEW r \in Req, DeleteSlot(r), ~crossed,
           req'[r].op \notin LinkOp, \A s \in Req : s # r => req'[s] = req[s],
           OpenedSound', \A s \in Req : s # r /\ req[s].op = "identify" =>
                                           opened'[req[s].code] = 0
    PROVE  CodesSound'
<1>1. /\ slot'.codes = <<>> /\ due' = <<>> /\ UNCHANGED <<generated, lapsed>>
      BY DEF DeleteSlot, NoSlot
<1>2. RowSound'
      BY <1>1 DEF RowSound, Descending, Begins, EndsAt
<1>3. ASSUME NEW s \in Req PROVE ReadSound(s)' /\ FreshSound(s)'
  <2>1. CASE s = r
        BY <2>1 DEF ReadSound, FreshSound, LinkOp
  <2>2. CASE s # r
    <3>1. req'[s] = req[s] /\ ReadSound(s) /\ FreshSound(s)
          BY <2>2 DEF CodesSound
    <3>2. ReadSound(s)'
          BY <1>1, <3>1 DEF ReadSound, EndsAt
    <3>3. \A x \in Req : x # s /\ req'[x].op = "identify" => req[x].op = "identify" /\ req'[x] = req[x]
          BY DEF LinkOp
    <3>4. FreshSound(s)'
          BY <1>1, <2>2, <3>1, <3>3 DEF FreshSound
    <3> QED  BY <3>2, <3>4
  <2> QED  BY <2>1, <2>2
<1> QED  BY <1>2, <1>3 DEF CodesSound

LEMMA VerifyTooLateCodes ==
    ASSUME PortalSound, CodesSound, NEW r \in Req, VerifyTooLate(r) PROVE CodesSound'
<1>1. /\ DeleteSlot(r) /\ Reply(r, FALSE) /\ opened' = opened
      /\ crossed' = (crossed \/ slot.codes # req[r].seen)
      /\ due' = <<>> /\ generated' = generated
      BY DEF VerifyTooLate, DeleteSlot
<1>2. SUFFICES ASSUME ~crossed' PROVE CodesSound'
      BY DEF CodesSound
<1>3. ~crossed
      BY <1>1, <1>2
<1>4. OpenedSound'
      BY <1>1, <1>3 DEF CodesSound, OpenedSound
<1>5. \A s \in Req : s # r /\ req[s].op = "identify" => opened'[req[s].code] = 0
      BY <1>1, <1>3 DEF CodesSound, FreshSound
<1>6. req'[r].op \notin LinkOp /\ \A s \in Req : s # r => req'[s] = req[s]
      BY <1>1, AnswerAlone DEF Idle, LinkOp
<1> QED  BY <1>1, <1>3, <1>4, <1>5, <1>6, RowDeletedCodes

\* The code that matched was due, so it had opened nothing.
LEMMA VerifyMatchCodes ==
    ASSUME PortalSound, CodesSound, NEW r \in Req, VerifyMatch(r) PROVE CodesSound'
<1>1. /\ req[r].op \in LinkOp /\ DeleteSlot(r) /\ req[r].code \in Range(req[r].valid)
      /\ opened' = [opened EXCEPT ![req[r].code] = @ + 1]
      /\ req' = [req EXCEPT ![r] = Idle]
      /\ crossed' = (crossed \/ slot.codes # req[r].seen)
      /\ due' = <<>> /\ generated' = generated
      BY DEF VerifyMatch, DeleteSlot, LinkOp
<1>2. SUFFICES ASSUME ~crossed' PROVE CodesSound'
      BY DEF CodesSound
<1>3. ~crossed /\ slot.codes = req[r].seen
      BY <1>1, <1>2
<1>4. PICK c \in Code, v \in Seq(Code), d \in Seq(Code) :
          c = req[r].code /\ v = req[r].valid /\ d = due
  <2>1. req[r].valid \in Seq(Code) /\ due \in Seq(Code)
        BY <1>1, LinkFields, Typed
  <2>2. Range(req[r].valid) \subseteq Code
        BY <2>1, RangeOfSeq
  <2> QED  BY <1>1, <2>1, <2>2
<1>5. PICK i \in 1..Len(v) : v[i] = c
      BY <1>1, <1>4, RangeEquality
<1>6. Begins(v, d)
      BY <1>1, <1>3, <1>4, ReadIsDue
<1>7. i \in 1..Len(d) /\ d[i] = c
  <2>1. Len(v) \in Nat /\ Len(d) \in Nat
        BY LenProperties
  <2> QED  BY <1>5, <1>6, <2>1 DEF Begins
<1>8. OpenedSound
      BY <1>3 DEF CodesSound
<1>9. opened[c] = 0 /\ c <= generated
      BY <1>4, <1>7, <1>8 DEF OpenedSound
<1>10. opened \in [Code -> Nat] /\ opened'[c] = 1 /\ \A x \in Code : x # c => opened'[x] = opened[x]
       BY <1>1, <1>4, <1>9, Typed
<1>11. OpenedSound'
  <2>1. c \in Nat /\ generated \in Nat
        BY BoundAssumption, Typed DEF Code
  <2>2. \A x \in Code : opened'[x] <= 1 /\ (x > generated => opened'[x] = 0)
        BY <1>8, <1>9, <1>10, <2>1 DEF OpenedSound
  <2> QED  BY <1>1, <2>2 DEF OpenedSound
<1>12. ASSUME NEW s \in Req, s # r, req[s].op = "identify" PROVE opened'[req[s].code] = 0
  <2>1. req[s].code \in Code
        BY <1>12, LinkFields DEF LinkOp
  <2>2. opened[req[s].code] = 0 /\ req[s].code # c
        BY <1>3, <1>4, <1>7, <1>12 DEF CodesSound, FreshSound
  <2> QED  BY <1>10, <2>1, <2>2
<1>13. req'[r].op \notin LinkOp /\ \A s \in Req : s # r => req'[s] = req[s]
       BY <1>1, Typed DEF Idle, LinkOp
<1> QED  BY <1>1, <1>3, <1>11, <1>12, <1>13, RowDeletedCodes

LEMMA VerifyMissCodes ==
    ASSUME PortalSound, CodesSound, NEW r \in Req, VerifyMiss(r) PROVE CodesSound'
<1>1. /\ req[r].op \in LinkOp /\ req[r].valid # <<>> /\ Reply(r, FALSE)
      /\ slot'.codes = req[r].valid
      /\ crossed' = (crossed \/ slot.codes # req[r].seen)
      /\ UNCHANGED <<generated, lapsed, due, opened>>
      BY DEF VerifyMiss, Usable, LinkOp
<1>2. SUFFICES ASSUME ~crossed'
               PROVE  /\ RowSound' /\ OpenedSound'
                      /\ \A s \in Req : ReadSound(s)' /\ FreshSound(s)'
      BY DEF CodesSound
<1>3. ~crossed /\ slot.codes = req[r].seen
      BY <1>1, <1>2
<1>4. PICK v \in Seq(Code) : v = req[r].valid
      BY <1>1, LinkFields
<1>5. Begins(v, due) /\ (Len(v) < MaxActive => EndsAt(v, due))
      BY <1>1, <1>3, <1>4, ReadIsDue
<1>6. Len(v) # 0
      BY <1>1, <1>4, EmptySeq
<1>7. RowSound'
      BY <1>1, <1>3, <1>4, <1>5, <1>6 DEF CodesSound, RowSound, EndsAt
<1>8. OpenedSound'
      BY <1>1, <1>3 DEF CodesSound, OpenedSound
<1>9. ASSUME NEW s \in Req PROVE ReadSound(s)' /\ FreshSound(s)'
  <2>1. /\ req'[s] = req[s] \/ req'[s] = Idle
        /\ \A x \in Req : req'[x].op = "identify" => req'[x] = req[x]
        BY <1>1, AnswerAlone DEF LinkOp, Idle
  <2>2. ReadSound(s) /\ FreshSound(s)
        BY <1>3 DEF CodesSound
  <2> QED  BY <1>1, <2>1, <2>2 DEF ReadSound, FreshSound, EndsAt, Idle, LinkOp
<1> QED  BY <1>7, <1>8, <1>9

\* A request that reads the row: in it are the newest codes due, in order.
LEMMA LinkCallCodes ==
    ASSUME PortalSound, CodesSound, NEW p \in Page, NEW r \in Req, NEW op \in LinkOp, NEW c,
           LinkCall(p, r, op, c), UNCHANGED <<slot, lapsed, due, opened, crossed>>,
           \/ op = "verify" /\ generated' = generated
           \/ /\ op = "identify" /\ generated < MaxCodes
              /\ c = generated + 1 /\ generated' = generated + 1
    PROVE  CodesSound'
<1>1. SUFFICES ASSUME ~crossed
               PROVE  /\ RowSound' /\ OpenedSound'
                      /\ \A s \in Req : ReadSound(s)' /\ FreshSound(s)'
      BY DEF CodesSound
<1>2. RowSound /\ OpenedSound
      BY <1>1 DEF CodesSound
<1>3. /\ generated \in Nat /\ generated' \in Nat /\ generated <= generated' /\ MaxCodes \in Nat
      /\ lapsed \in Nat
      BY Typed, BoundAssumption
<1>4. PICK v \in Seq(Code), s \in Seq(Code), d \in Seq(Code) :
          v = Unexpired(slot.codes) /\ s = slot.codes /\ d = due
      BY Typed, UnexpiredType
<1>5. Begins(s, d) /\ Descending(d)
      BY <1>2, <1>4 DEF RowSound
<1>6. Descending(s)
      BY <1>5, Beginnings
<1>7. /\ Begins(v, s)
      /\ Len(v) < Len(s) => s[Len(v) + 1] <= lapsed
      BY <1>3, <1>4, <1>6, UnexpiredBegins
<1>8. \A i \in 1..Len(d) : d[i] <= generated /\ d[i] \in Nat
      BY <1>2, <1>4, CodesAreNumbers DEF OpenedSound
<1>9. \A i \in 1..Len(s) : s[i] <= generated /\ s[i] \in Nat
  <2>1. Len(s) \in Nat /\ Len(d) \in Nat
        BY LenProperties
  <2> QED  BY <1>5, <1>8, <2>1 DEF Begins
<1>10. RowSound'
       BY <1>2 DEF RowSound, EndsAt, Begins, Descending
<1>11. OpenedSound'
  <2>1. \A x \in Code : x \in Nat
        BY <1>3 DEF Code
  <2>2. \A i \in 1..Len(d) : opened[d[i]] = 0 /\ d[i] <= generated'
        BY <1>2, <1>3, <1>4, <1>8 DEF OpenedSound
  <2>3. \A x \in Code : opened[x] <= 1 /\ (x > generated' => opened[x] = 0)
        BY <1>2, <1>3, <2>1 DEF OpenedSound
  <2> QED  BY <1>4, <2>2, <2>3 DEF OpenedSound
<1> DEFINE new == [op |-> op, page |-> p, code |-> c, seen |-> slot.codes,
                   valid |-> Unexpired(slot.codes), attempts |-> slot.attempts]
<1>12. req' = [req EXCEPT ![r] = new]
       BY DEF LinkCall
<1>13. new.op = op /\ new.code = c /\ new.seen = s /\ new.valid = v
       BY <1>4
<1> HIDE DEF new
<1>14. req'[r] = new /\ \A x \in Req : x # r => req'[x] = req[x]
       BY <1>12, Typed
<1>15. ASSUME NEW x \in Req PROVE ReadSound(x)'
  <2>1. CASE x = r
        BY <1>6, <1>7, <1>13, <1>14, <2>1 DEF ReadSound, EndsAt
  <2>2. CASE x # r
        BY <1>1, <1>14, <2>2 DEF CodesSound, ReadSound, EndsAt
  <2> QED  BY <2>1, <2>2
<1>16. \A x \in Req : req[x].op = "identify" => req[x].code \in 1..generated
       BY LinkFields DEF LinkOp
<1>17. ASSUME NEW x \in Req PROVE FreshSound(x)'
  <2>1. CASE op = "verify"
    <3>1. CASE x = r
          BY <1>13, <1>14, <2>1, <3>1 DEF FreshSound
    <3>2. CASE x # r
      <4>1. FreshSound(x) /\ req'[x] = req[x] /\ req'[r].op # "identify"
            BY <1>1, <1>13, <1>14, <2>1, <3>2 DEF CodesSound
      <4> QED  BY <1>14, <4>1 DEF FreshSound
    <3> QED  BY <3>1, <3>2
  <2>2. CASE op = "identify"
    <3>1. c = generated + 1 /\ c \in Code /\ c > generated
          BY <1>3, <2>2 DEF Code
    <3>2. CASE x = r
      <4>1. opened[c] = 0
            BY <1>2, <3>1 DEF OpenedSound
      <4>2. \A i \in 1..Len(d) : d[i] # c
            BY <1>3, <1>8, <3>1
      <4>3. \A i \in 1..Len(s) : s[i] < c
            BY <1>3, <1>9, <3>1
      <4>4. \A y \in Req : y # r /\ req'[y].op = "identify" => req'[y].code # c
            BY <1>3, <1>14, <1>16, <3>1
      <4> QED  BY <1>4, <1>13, <1>14, <3>2, <4>1, <4>2, <4>3, <4>4 DEF FreshSound
    <3>3. CASE x # r
      <4>1. FreshSound(x) /\ req'[x] = req[x]
            BY <1>1, <1>14, <3>3 DEF CodesSound
      <4>2. req[x].op = "identify" => req[x].code # c
            BY <1>3, <1>16, <3>1
      <4>3. \A y \in Req : req'[y] = req[y] \/ req'[y].code = c
            BY <1>13, <1>14
      <4> QED  BY <4>1, <4>2, <4>3 DEF FreshSound
    <3> QED  BY <3>2, <3>3
  <2> QED  BY <2>1, <2>2
<1> QED  BY <1>10, <1>11, <1>15, <1>17

LEMMA ExpireCodes ==
    ASSUME PortalSound, CodesSound, CodesExpire PROVE CodesSound'
<1>1. /\ lapsed' = lapsed + 1 /\ lapsed \in Nat
      /\ UNCHANGED <<req, slot, generated, due, opened, crossed>>
      BY Typed DEF CodesExpire
<1>2. ASSUME NEW s \in Seq(Code), NEW t \in Seq(Code), Begins(s, t), EndsAt(s, t)
      PROVE  Len(s) < Len(t) => t[Len(s) + 1] <= lapsed'
  <2>1. SUFFICES ASSUME Len(s) < Len(t) PROVE t[Len(s) + 1] <= lapsed'
        OBVIOUS
  <2>2. Len(s) \in Nat /\ Len(t) \in Nat
        BY LenProperties
  <2>3. t[Len(s) + 1] \in Nat
        BY <2>1, <2>2, CodesAreNumbers
  <2> QED  BY <1>1, <1>2, <2>1, <2>3 DEF EndsAt
<1>3. SUFFICES ASSUME ~crossed
               PROVE  /\ RowSound' /\ OpenedSound'
                      /\ \A s \in Req : ReadSound(s)' /\ FreshSound(s)'
      BY <1>1 DEF CodesSound
<1>4. slot.codes \in Seq(Code) /\ due \in Seq(Code)
      BY Typed
<1>5. RowSound'
      BY <1>1, <1>2, <1>3, <1>4 DEF CodesSound, RowSound, EndsAt
<1>6. OpenedSound'
      BY <1>1, <1>3 DEF CodesSound, OpenedSound
<1>7. ASSUME NEW s \in Req PROVE ReadSound(s)' /\ FreshSound(s)'
  <2>1. ReadSound(s) /\ FreshSound(s)
        BY <1>3 DEF CodesSound
  <2>2. req[s].op \in LinkOp => req[s].seen \in Seq(Code) /\ req[s].valid \in Seq(Code)
        BY LinkFields
  <2>3. ReadSound(s)'
        BY <1>1, <1>2, <2>1, <2>2 DEF ReadSound, EndsAt
  <2>4. FreshSound(s)'
        BY <1>1, <2>1 DEF FreshSound
  <2> QED  BY <2>3, <2>4
<1> QED  BY <1>5, <1>6, <1>7

\* A step with neither the row nor a request with the link's token.
LEMMA OtherCodes ==
    ASSUME PortalSound, CodesSound, NEW r \in Req,
           \/ VerifyNothing(r) \/ Admit(r) \/ TurnAway(r) \/ CreateReport(r)
           \/ StampReport(r) \/ RefuseUpload(r) \/ Consume(r) \/ StopWaiting(r) \/ Die(r)
    PROVE  CodesSound'
<1>1. UNCHANGED codeVars
      BY DEF VerifyNothing, Admit, TurnAway, CreateReport, StampReport, RefuseUpload, Consume,
             StopWaiting, Die
<1>2. CASE \E ok \in BOOLEAN : Reply(r, ok)
      BY <1>1, <1>2, AnswerAlone, CodesUntouched
<1>3. CASE UNCHANGED req
      BY <1>1, <1>3, CodesUntouched
<1>4. ASSUME NEW new, req' = [req EXCEPT ![r] = new], new.op \notin LinkOp PROVE CodesSound'
  <2>1. req'[r] = new /\ \A s \in Req : s # r => req'[s] = req[s]
        BY <1>4, Typed
  <2> QED  BY <1>1, <1>4, <2>1, CodesUntouched
<1>5. CASE Admit(r)
  <2>1. /\ req[r].op \in CallOp
        /\ req' = [req EXCEPT ![r].step = "admitted"]
        BY <1>5 DEF Admit, Reading, CallOp
  <2>2. PICK q \in SessionReq : q = req[r]
        BY <2>1, CallNames
  <2>3. PICK new : new = [q EXCEPT !.step = "admitted"]
        OBVIOUS
  <2>4. req' = [req EXCEPT ![r] = new]
        BY <2>1, <2>2, <2>3, Typed
  <2>5. new.op = q.op /\ q.op \notin LinkOp
        BY <2>1, <2>2, <2>3, CallNames DEF SessionReq
  <2> QED  BY <1>4, <2>4, <2>5
<1>6. CASE CreateReport(r) /\ ~Reply(r, FALSE)
  <2>1. /\ req[r].op \in CallOp
        /\ req' = [req EXCEPT ![r].step = "created", ![r].report = Len(reports) + 1]
        BY <1>6 DEF CreateReport, Admitted, CallOp
  <2>2. PICK q \in SessionReq : q = req[r]
        BY <2>1, CallNames
  <2>3. PICK new : new = [q EXCEPT !.step = "created", !.report = Len(reports) + 1]
        OBVIOUS
  <2>4. req' = [req EXCEPT ![r] = new]
        BY <2>1, <2>2, <2>3, Typed
  <2>5. new.op = q.op /\ q.op \notin LinkOp
        BY <2>1, <2>2, <2>3, CallNames DEF SessionReq
  <2> QED  BY <1>4, <2>4, <2>5
<1>7. CASE VerifyNothing(r) \/ TurnAway(r) \/ StampReport(r) \/ Consume(r) \/ Die(r)
      BY <1>2, <1>7 DEF VerifyNothing, TurnAway, StampReport, Consume, Die
<1>8. CASE RefuseUpload(r)
      BY <1>2, <1>8 DEF RefuseUpload
<1>9. CASE StopWaiting(r)
      BY <1>3, <1>9 DEF StopWaiting
<1> QED  BY <1>2, <1>5, <1>6, <1>7, <1>8, <1>9

LEMMA PageStepCodes ==
    ASSUME PortalSound, CodesSound, NEW p \in Page,
           \/ Open(p) \/ BackToIdentify(p)
           \/ \E r \in Req : Submit(p, r) \/ Finalize(p, r) \/ \E f \in File : Upload(p, r, f)
    PROVE  CodesSound'
<1>1. CASE Open(p) \/ BackToIdentify(p)
      BY <1>1, CodesUntouched DEF Open, BackToIdentify
<1>2. ASSUME NEW r \in Req, NEW new, new.op \notin LinkOp, Post(p, r, new)
      PROVE  CodesSound'
  <2>1. req' = [req EXCEPT ![r] = new] /\ UNCHANGED codeVars
        BY <1>2 DEF Post
  <2>2. req'[r] = new /\ \A s \in Req : s # r => req'[s] = req[s]
        BY <2>1, Typed
  <2> QED  BY <1>2, <2>1, <2>2, CodesUntouched
<1>4. ASSUME NEW r \in Req, NEW op \in {"submit", "finalize"}, SessionCall(p, r, op)
      PROVE  CodesSound'
      BY <1>2, <1>4 DEF SessionCall, LinkOp
<1>5. ASSUME NEW r \in Req, NEW f \in File, Upload(p, r, f) PROVE CodesSound'
      BY <1>2, <1>5 DEF Upload, LinkOp
<1>3. CASE \E r \in Req : Submit(p, r) \/ Finalize(p, r) \/ \E f \in File : Upload(p, r, f)
      BY <1>3, <1>4, <1>5 DEF Submit, Finalize
<1> QED  BY <1>1, <1>3

LEMMA InitCodes == PortalInit => CodesSound
<1> SUFFICES ASSUME PortalInit PROVE CodesSound
    OBVIOUS
<1>1. /\ slot.codes = <<>> /\ due = <<>> /\ opened = [c \in Code |-> 0]
      /\ \A r \in Req : req[r] = Idle
      BY DEF PortalInit, NoSlot
<1>2. RowSound /\ OpenedSound
      BY <1>1 DEF RowSound, OpenedSound, Descending, Begins, EndsAt
<1> QED  BY <1>1, <1>2 DEF CodesSound, ReadSound, FreshSound, Idle, LinkOp

LEMMA StepCodes == PortalSound /\ CodesSound /\ [PortalNext]_portalVars => CodesSound'
<1> SUFFICES ASSUME PortalSound, CodesSound, [PortalNext]_portalVars PROVE CodesSound'
    OBVIOUS
<1>1. CASE \E p \in Page :
              \/ Open(p) \/ BackToIdentify(p)
              \/ \E r \in Req : Submit(p, r) \/ Finalize(p, r) \/ \E f \in File : Upload(p, r, f)
      BY <1>1, PageStepCodes
<1>2. ASSUME NEW p \in Page, NEW r \in Req, Identify(p, r) PROVE CodesSound'
  <2>1. /\ LinkCall(p, r, "identify", generated + 1) /\ generated < MaxCodes
        /\ generated' = generated + 1 /\ UNCHANGED <<slot, lapsed, due, opened, crossed>>
        BY <1>2 DEF Identify
  <2>2. "identify" \in LinkOp
        BY DEF LinkOp
  <2> QED  BY <2>1, <2>2, LinkCallCodes
<1>3. ASSUME NEW p \in Page, NEW r \in Req, NEW c \in 0..MaxCodes, Verify(p, r, c)
      PROVE  CodesSound'
  <2>1. /\ LinkCall(p, r, "verify", c) /\ generated' = generated
        /\ UNCHANGED <<slot, lapsed, due, opened, crossed>>
        BY <1>3 DEF Verify, codeVars
  <2>2. "verify" \in LinkOp
        BY DEF LinkOp
  <2> QED  BY <2>1, <2>2, LinkCallCodes
<1>4. CASE \E r \in Req :
              \/ StoreCode(r) \/ VerifyTooLate(r) \/ VerifyMatch(r) \/ VerifyMiss(r)
      BY <1>4, StoreCodeCodes, VerifyTooLateCodes, VerifyMatchCodes, VerifyMissCodes
<1>5. CASE \E r \in Req :
              \/ VerifyNothing(r) \/ Admit(r) \/ TurnAway(r) \/ CreateReport(r)
              \/ StampReport(r) \/ RefuseUpload(r) \/ Consume(r) \/ StopWaiting(r) \/ Die(r)
      BY <1>5, OtherCodes
<1>6. CASE CodesExpire
      BY <1>6, ExpireCodes
<1>7. CASE UNCHANGED portalVars
      BY <1>7, CodesUntouched DEF portalVars
<1> QED  BY <1>1, <1>2, <1>3, <1>4, <1>5, <1>6, <1>7 DEF PortalNext

LEMMA CodesAlways == PortalSpec => [](PortalSound /\ CodesSound)
BY InitSound, InitCodes, StepSound, StepCodes, PTL DEF PortalSpec

\* No code opens two sessions, unless the row was written over unread codes.
THEOREM CodesOpenOnce == PortalSpec => []CodeOpensOnce
<1>1. CodesSound => CodeOpensOnce
      BY DEF CodesSound, OpenedSound, CodeOpensOnce
<1> QED  BY <1>1, CodesAlways, PTL

\* Verification accepts the newest valid codes, unless the row was so written.
THEOREM NewestAccepted == PortalSpec => []NewestCodesWork
BY CodesAlways, RowIsNewest, PTL

-------------------------------------------------------------------------------
(* The submissions. A page that sent its form has the report it made noted *)
(* on its session; as long as no call of it was lost or turned away, all   *)
(* calls of the session are ones it awaits, and it makes that one report.  *)

Sent == {"uploading", "finalizing", "submitted"}

SentSound(p) ==
    /\ page[p] \in Sent => sessions[holds[p]].report # 0
    /\ page[p] = "submitted" => sessions[holds[p]].used

LuckySound(p) ==
    p \notin unlucky =>
       /\ holds[p] # 0 => \A r \in Req : req[r].op \in CallOp /\ req[r].session = holds[p]
                                            => r \in waits[p]
       /\ page[p] \in {"form", "uploading", "finalizing"} => ~sessions[holds[p]].used
       /\ page[p] = "form" => \A i \in Made(holds[p]) :
             \E r \in waits[p] : req[r].step = "created" /\ req[r].report = i
       /\ page[p] \in Sent => Made(holds[p]) = {sessions[holds[p]].report}

ReportsSound == \A p \in Page : SentSound(p) /\ LuckySound(p)

\* A step of request r: other requests, and other sessions and reports than
\* its session's, stay; no session gets unused, and none loses its report.
OnlyItsOwn(r) ==
    /\ \A x \in Req : x # r => req'[x] = req[x]
    /\ req'[r].op \in CallOp => req[r].op \in CallOp /\ req'[r].session = req[r].session
    /\ \A i \in 1..Len(sessions) :
          \/ sessions'[i].used = sessions[i].used /\ sessions'[i].report = sessions[i].report
          \/ req[r].op \in CallOp /\ i = req[r].session
    /\ \A i \in 1..Len(sessions) :
          /\ sessions[i].used => sessions'[i].used
          /\ sessions[i].report # 0 => sessions'[i].report # 0
    /\ \A i \in 1..Len(reports') :
          i \in 1..Len(reports) \/ (req[r].op \in CallOp /\ reports'[i] = req[r].session)

LEMMA MadeIs ==
    ASSUME PortalSound, NEW s
    PROVE  /\ DOMAIN reports = 1..Len(reports)
           /\ Made(s) = {i \in 1..Len(reports) : reports[i] = s}
BY Typed, LenProperties DEF Made

\* Reports that were made stay so.
LEMMA MadeGrows ==
    ASSUME PortalSound, Grown, NEW p \in Page, holds'[p] = holds[p]
    PROVE  /\ Made(holds[p]) \subseteq Made(holds[p])'
           /\ Made(holds[p])' = {i \in 1..Len(reports') : reports'[i] = holds[p]}
<1>1. DOMAIN reports' = 1..Len(reports') /\ Len(reports') \in Nat
      BY LenProperties DEF Grown
<1>2. DOMAIN reports = 1..Len(reports) /\ Len(reports) \in Nat
      BY Typed, LenProperties
<1> QED  BY <1>1, <1>2 DEF Made, Grown

LEMMA SentStays ==
    ASSUME PortalSound, Grown, NEW p \in Page, SentSound(p),
           \A i \in 1..Len(sessions) : /\ sessions[i].used => sessions'[i].used
                                       /\ sessions[i].report # 0 => sessions'[i].report # 0,
           page'[p] \in Sent => page'[p] = page[p] /\ holds'[p] = holds[p]
    PROVE  SentSound(p)'
<1>1. SUFFICES ASSUME page'[p] \in Sent PROVE SentSound(p)'
      BY DEF SentSound, Sent
<1>2. page'[p] = page[p] /\ holds'[p] = holds[p]
      BY <1>1
<1>3. holds[p] \in 1..Len(sessions)
      BY <1>1, <1>2, HoldsBounds, Typed DEF Sent, HasSession
<1> QED  BY <1>1, <1>2, <1>3 DEF SentSound

\* A page that is lucky awaits every call of its session.
LEMMA AwaitsAll ==
    ASSUME NEW q \in Page, NEW r \in Req, LuckySound(q), q \notin unlucky, holds[q] # 0,
           r \notin waits[q], req[r].op \in CallOp
    PROVE  req[r].session # holds[q]
BY DEF LuckySound
\* A page that does not await r is not touched by a step of r.
LEMMA LuckyStays ==
    ASSUME PortalSound, Grown, NEW p \in Page, NEW r \in Req, LuckySound(p), OnlyItsOwn(r),
           p \notin unlucky' => p \notin unlucky, r \notin waits[p],
           page'[p] = page[p], waits'[p] = waits[p], holds'[p] = holds[p]
    PROVE  LuckySound(p)'
<1>1. SUFFICES ASSUME p \notin unlucky', p \notin unlucky PROVE LuckySound(p)'
      BY DEF LuckySound
<1>2. CASE holds[p] = 0
  <2>1. page[p] \notin HasSession
        BY <1>2, HoldsBounds
  <2> QED  BY <1>2, <2>1 DEF LuckySound, HasSession, Sent
<1>3. CASE holds[p] # 0
  <2>1. PICK h \in 1..Len(sessions) : h = holds[p]
        BY <1>3, HoldsBounds, Typed
  <2>2. req[r].op \in CallOp => req[r].session # h
        BY <1>1, <1>3, <2>1, AwaitsAll
  <2>3. sessions'[h].used = sessions[h].used /\ sessions'[h].report = sessions[h].report
        BY <2>2 DEF OnlyItsOwn
  <2>4. Made(holds[p])' = Made(holds[p])
    <3>1. Made(holds[p])' = {i \in 1..Len(reports') : reports'[i] = h}
          BY <2>1, MadeGrows
    <3>2. Made(holds[p]) = {i \in 1..Len(reports) : reports[i] = h}
          BY <2>1, MadeIs
    <3>3. \A i \in 1..Len(reports') : reports'[i] = h => i \in 1..Len(reports)
          BY <2>2 DEF OnlyItsOwn
    <3>4. \A i \in 1..Len(reports) : i \in 1..Len(reports') /\ reports'[i] = reports[i]
          BY Typed, LenProperties DEF Grown
    <3> QED  BY <3>1, <3>2, <3>3, <3>4
  <2>5. \A x \in waits[p] : x \in Req /\ req'[x] = req[x]
        BY Typed DEF OnlyItsOwn
  <2>6. \A x \in Req : req'[x].op \in CallOp /\ req'[x].session = h => x \in waits[p]
        BY <1>1, <1>3, <2>1, <2>2 DEF OnlyItsOwn, LuckySound
  <2>7. page[p] = "form" => \A i \in Made(holds[p]) :
              \E x \in waits[p] : req'[x].step = "created" /\ req'[x].report = i
        BY <1>1, <2>5 DEF LuckySound
  <2>8. page[p] \in Sent => Made(holds[p]) = {sessions[h].report}
        BY <1>1, <2>1 DEF LuckySound
  <2>10. page[p] \in {"form", "uploading", "finalizing"} => ~sessions'[h].used
        BY <1>1, <2>1, <2>3 DEF LuckySound
  <2> QED  BY <1>1, <2>1, <2>3, <2>4, <2>6, <2>7, <2>8, <2>10 DEF LuckySound
<1> QED  BY <1>2, <1>3

\* A request that is answered: what remains to be shown is what its answer
\* does to the page that awaits it.
LEMMA AnsweredReports ==
    ASSUME PortalSound, ReportsSound, Grown, NEW r \in Req, req[r] # Idle, NEW ok \in BOOLEAN,
           NEW s \in Nat, Settle(req[r].page, r, ok, s), OnlyItsOwn(r), unlucky \subseteq unlucky',
           \A p \in Page : r \in waits[p] => SentSound(p)' /\ LuckySound(p)'
    PROVE  ReportsSound'
<1>1. ASSUME NEW p \in Page, r \notin waits[p] PROVE SentSound(p)' /\ LuckySound(p)'
  <2>1. page'[p] = page[p] /\ waits'[p] = waits[p] /\ holds'[p] = holds[p]
    <3>1. req[r].page \in Page /\ Len(sessions) \in Nat
          BY Settling
    <3>2. CASE p # req[r].page
          BY <3>2, Settling
    <3>3. CASE p = req[r].page
      <4>1. waits[p] \ {r} = waits[p]
            BY <1>1
      <4> QED  BY <1>1, <3>3, <4>1, Settling
    <3> QED  BY <3>2, <3>3
  <2>2. SentSound(p) /\ LuckySound(p)
        BY DEF ReportsSound
  <2>3. SentSound(p)'
        BY <2>1, <2>2, SentStays DEF OnlyItsOwn
  <2>4. LuckySound(p)'
        BY <1>1, <2>1, <2>2, LuckyStays
  <2> QED  BY <2>3, <2>4
<1> QED  BY <1>1 DEF ReportsSound

\* The page itself, when the answer is not one it goes on with.
LEMMA NoLuckNeeded ==
    ASSUME PortalSound, ReportsSound, Grown, NEW r \in Req, req[r] # Idle, NEW ok \in BOOLEAN,
           NEW s \in Nat, Settle(req[r].page, r, ok, s), NEW p \in Page, r \in waits[p],
           \A i \in 1..Len(sessions) : /\ sessions[i].used => sessions'[i].used
                                       /\ sessions[i].report # 0 => sessions'[i].report # 0,
           ok => req[r].op = "identify"
    PROVE  SentSound(p)'
<1>1. p = req[r].page
      BY AwaitedBy
<1>2. page'[p] = After(page[p], req[r].op, ok) /\ holds'[p] = holds[p]
  <2>1. ~(req[r].op = "verify" /\ ok)
        OBVIOUS
  <2> QED  BY <1>1, <2>1, Settling
<1>3. page'[p] \in Sent => page'[p] = page[p]
      BY <1>1, <1>2, AwaitedBy DEF After, Sent, LinkOp
<1>4. SentSound(p)
      BY DEF ReportsSound
<1> QED  BY <1>1, <1>2, <1>3, <1>4, SentStays

\* A page without a session.
LEMMA NoSession ==
    ASSUME NEW p \in Page, page'[p] \notin HasSession, holds'[p] = 0
    PROVE  SentSound(p)' /\ LuckySound(p)'
BY DEF SentSound, LuckySound, HasSession, Sent

\* An answer to a call with the link's token.
LEMMA LinkAnswered ==
    ASSUME PortalSound, ReportsSound, NEW r \in Req, req[r].op \in LinkOp,
           NEW ok \in BOOLEAN, Reply(r, ok), ok => req[r].op = "identify",
           UNCHANGED <<generated, sessionVars, unlucky>>
    PROVE  ReportsSound'
<1>1. /\ Settle(req[r].page, r, ok, 0) /\ req[r] # Idle /\ req'[r].op \notin CallOp
      /\ \A x \in Req : x # r => req'[x] = req[x]
      BY CallOf, AnswerAlone DEF Reply, Idle, CallOp
<1>2. Grown
      BY NothingGrown
<1>3. OnlyItsOwn(r)
      BY <1>1 DEF OnlyItsOwn, sessionVars
<1>4. ASSUME NEW p \in Page, r \in waits[p] PROVE SentSound(p)' /\ LuckySound(p)'
  <2>1. p = req[r].page /\ page[p] \in {"identify", "code"} /\ holds[p] = 0
        BY <1>4, AwaitedBy, HoldsBounds DEF LinkOp, HasSession
  <2>2. page'[p] = After(page[p], req[r].op, ok) /\ holds'[p] = holds[p]
        BY <1>1, <1>4, <2>1, Settling
  <2>3. page'[p] \notin HasSession
        BY <2>1, <2>2 DEF After, LinkOp, HasSession
  <2> QED  BY <2>1, <2>2, <2>3, NoSession
<1> QED  BY <1>1, <1>2, <1>3, <1>4, AnsweredReports

LEMMA CodeStepsReports ==
    ASSUME PortalSound, ReportsSound, NEW r \in Req,
           StoreCode(r) \/ VerifyNothing(r) \/ VerifyTooLate(r) \/ VerifyMiss(r)
    PROVE  ReportsSound'
<1>1. /\ req[r].op \in LinkOp /\ UNCHANGED <<generated, sessionVars, unlucky>>
      /\ \E ok \in BOOLEAN : Reply(r, ok) /\ (ok => req[r].op = "identify")
      BY DEF StoreCode, Upsert, VerifyNothing, VerifyTooLate, VerifyMiss, DeleteSlot, LinkOp,
             codeVars, sessionVars, faultVars
<1> QED  BY <1>1, LinkAnswered

\* A verified page starts with a session that has made no report.
LEMMA VerifyMatchReports ==
    ASSUME PortalSound, ReportsSound, NEW r \in Req, VerifyMatch(r) PROVE ReportsSound'
<1> DEFINE n == [calls |-> 0, used |-> FALSE, live |-> TRUE, report |-> 0]
<1>1. /\ req[r].op = "verify" /\ UNCHANGED <<generated, reports, unlucky>>
      /\ sessions' = Append(sessions, n)
      /\ Settle(req[r].page, r, TRUE, Len(sessions) + 1)
      /\ req' = [req EXCEPT ![r] = Idle]
      BY DEF VerifyMatch, DeleteSlot, faultVars
<1>2. n \in Session /\ n.used = FALSE
      BY LimitAssumption DEF Session
<1> HIDE DEF n
<1>3. PICK m \in Nat : m = Len(sessions) + 1
      BY Typed
<1>4. /\ sessions' \in Seq(Session) /\ Len(sessions') = m
      /\ \A i \in 1..Len(sessions) : sessions'[i] = sessions[i]
      /\ sessions'[m] = n
      BY <1>1, <1>2, <1>3, Typed, AppendProperties
<1>5. Grown
      BY <1>1, <1>3, <1>4, Typed DEF Grown
<1>6. req'[r].op \notin CallOp /\ \A x \in Req : x # r => req'[x] = req[x]
      BY <1>1, Typed DEF Idle, CallOp
<1>7. OnlyItsOwn(r)
      BY <1>1, <1>4, <1>6 DEF OnlyItsOwn
<1>8. ASSUME NEW p \in Page, r \in waits[p] PROVE SentSound(p)' /\ LuckySound(p)'
  <2>1. p = req[r].page /\ page[p] \in {"identify", "code"}
        BY <1>1, <1>8, AwaitedBy DEF CallOp
  <2>2. page'[p] = "form" /\ holds'[p] = m
        BY <1>1, <1>3, <1>8, <2>1, Settling, CallOf DEF After, LinkOp
  <2>3. SentSound(p)'
        BY <2>2 DEF SentSound, Sent
  <2>4. \A x \in Req : req'[x].op \in CallOp => req'[x].session # m
    <3>1. \A x \in Req : req[x].op \in CallOp => req[x].session \in 1..Len(sessions)
          BY CallNames
    <3>2. m \notin 1..Len(sessions)
          BY <1>3, Typed
    <3> QED  BY <1>6, <3>1, <3>2
  <2>5. Made(holds[p])' = {}
    <3>1. \A i \in 1..Len(reports) : reports[i] # m
          BY <1>3, Typed DEF PortalSound, RowsSound
    <3>2. DOMAIN reports = 1..Len(reports)
          BY Typed, LenProperties
    <3> QED  BY <1>1, <2>2, <3>1, <3>2 DEF Made
  <2>6. LuckySound(p)'
        BY <1>2, <1>4, <2>2, <2>4, <2>5 DEF LuckySound, Sent
  <2> QED  BY <2>3, <2>6
<1> QED  BY <1>1, <1>3, <1>5, <1>7, <1>8, AnsweredReports, CallOf DEF LinkOp

LEMMA CountedOnlyOwn ==
    ASSUME PortalSound, NEW r \in Req, Reading(r), NEW live \in BOOLEAN, Counted(r, live),
           UNCHANGED <<generated, reports>>, \A x \in Req : x # r => req'[x] = req[x],
           req'[r].op \in CallOp => req'[r].session = req[r].session
    PROVE  OnlyItsOwn(r) /\ Grown
<1>1. req[r].op \in CallOp
      BY DEF Reading, CallOp
<1>2. PICK i : i = req[r].session
      OBVIOUS
<1>3. /\ Grown /\ sessions'[i].used = sessions[i].used
      /\ sessions'[i].report = sessions[i].report
      /\ \A j \in 1..Len(sessions) : j # i => sessions'[j] = sessions[j]
      BY <1>2, CountedSession
<1> QED  BY <1>1, <1>2, <1>3 DEF OnlyItsOwn

LEMMA TurnAwayReports ==
    ASSUME PortalSound, ReportsSound, NEW r \in Req, TurnAway(r) PROVE ReportsSound'
<1>1. /\ Reading(r) /\ Reply(r, FALSE) /\ unlucky' = unlucky \cup {req[r].page}
      /\ UNCHANGED <<generated, reports>> /\ req[r].op \in CallOp
      /\ Counted(r, sessions[req[r].session].live) \/ Counted(r, FALSE)
      BY DEF TurnAway, codeVars, Reading, CallOp
<1>2. sessions[req[r].session].live \in BOOLEAN /\ req[r] # Idle
      BY <1>1, CallNames DEF Session
<1>3. /\ Settle(req[r].page, r, FALSE, 0) /\ req'[r].op \notin CallOp
      /\ \A x \in Req : x # r => req'[x] = req[x]
      BY <1>1, Typed DEF Reply, Idle, CallOp
<1>4. OnlyItsOwn(r) /\ Grown
      BY <1>1, <1>2, <1>3, CountedOnlyOwn
<1>5. ASSUME NEW p \in Page, r \in waits[p] PROVE SentSound(p)' /\ LuckySound(p)'
  <2>1. p = req[r].page /\ p \in unlucky'
        BY <1>1, <1>5, AwaitedBy
  <2>2. SentSound(p)'
        BY <1>2, <1>3, <1>4, <1>5, NoLuckNeeded DEF OnlyItsOwn
  <2> QED  BY <2>1, <2>2 DEF LuckySound
<1> QED  BY <1>1, <1>2, <1>3, <1>4, <1>5, AnsweredReports

LEMMA FaultReports ==
    ASSUME PortalSound, ReportsSound, NEW r \in Req, StopWaiting(r) \/ Die(r)
    PROVE  ReportsSound'
<1>1. PICK ok \in BOOLEAN :
          /\ req[r] # Idle /\ Settle(req[r].page, r, ok, 0) /\ (ok => req[r].op = "identify")
          /\ unlucky' = unlucky \cup {req[r].page} /\ UNCHANGED <<generated, sessionVars>>
          /\ \/ UNCHANGED req
             \/ req' = [req EXCEPT ![r] = Idle]
      BY DEF StopWaiting, Die, Reply, codeVars
<1>2. Grown
      BY <1>1, NothingGrown
<1>3. /\ \A x \in Req : x # r => req'[x] = req[x]
      /\ req'[r].op \in CallOp => req'[r] = req[r]
      BY <1>1, Typed DEF Idle, CallOp
<1>4. OnlyItsOwn(r)
      BY <1>1, <1>3 DEF OnlyItsOwn, sessionVars
<1>5. ASSUME NEW p \in Page, r \in waits[p] PROVE SentSound(p)' /\ LuckySound(p)'
  <2>1. p = req[r].page /\ p \in unlucky'
        BY <1>1, <1>5, AwaitedBy
  <2>2. SentSound(p)'
        BY <1>1, <1>2, <1>4, <1>5, NoLuckNeeded DEF OnlyItsOwn
  <2> QED  BY <2>1, <2>2 DEF LuckySound
<1> QED  BY <1>1, <1>2, <1>4, <1>5, AnsweredReports

\* A request that goes on.
LEMMA GoesOnReports ==
    ASSUME PortalSound, ReportsSound, Grown, NEW r \in Req, OnlyItsOwn(r),
           UNCHANGED <<pageVars, unlucky>>, \A p \in Page : r \in waits[p] => LuckySound(p)'
    PROVE  ReportsSound'
<1>1. UNCHANGED <<page, waits, todo, holds>>
      BY DEF pageVars
<1>2. ASSUME NEW p \in Page PROVE SentSound(p)' /\ LuckySound(p)'
  <2>1. SentSound(p) /\ LuckySound(p)
        BY DEF ReportsSound
  <2>2. SentSound(p)'
        BY <1>1, <2>1, SentStays DEF OnlyItsOwn
  <2>3. ASSUME r \notin waits[p] PROVE LuckySound(p)'
        BY <1>1, <2>1, <2>3, LuckyStays
  <2> QED  BY <2>2, <2>3
<1> QED  BY <1>2 DEF ReportsSound

\* The page that awaits a call of its session.
LEMMA CallersPage ==
    ASSUME PortalSound, NEW r \in Req, req[r].op \in CallOp, NEW p \in Page, r \in waits[p]
    PROVE  /\ p = req[r].page /\ holds[p] = req[r].session /\ holds[p] \in 1..Len(sessions)
           /\ holds[p] # 0 /\ req[r] # Idle
           /\ req[r].op = "submit" => page[p] = "form"
           /\ req[r].op = "finalize" => page[p] = "finalizing"
           /\ waits[p] = {r}
<1>1. req[r].session \in 1..Len(sessions) /\ Len(sessions) \in Nat /\ req[r].op \notin LinkOp
      BY CallNames, Typed
<1>2. p = req[r].page /\ holds[p] = req[r].session /\ req[r] # Idle
      BY AwaitedBy
<1>3. /\ req[r].op = "submit" => page[p] = "form"
      /\ req[r].op = "finalize" => page[p] = "finalizing"
      /\ waits[p] = {r}
      BY <1>1, AwaitedBy DEF LinkOp, CallOp
<1> QED  BY <1>1, <1>2, <1>3

\* A page that awaits one call, no report of which was made, has made none.
LEMMA NothingMade ==
    ASSUME PortalSound, NEW r \in Req, req[r].op \in CallOp, NEW p \in Page, r \in waits[p],
           LuckySound(p), p \notin unlucky, page[p] = "form", req[r].step # "created"
    PROVE  \A i \in 1..Len(reports) : reports[i] # holds[p]
<1>1. waits[p] = {r}
      BY CallersPage
<1>2. Made(holds[p]) = {}
      BY <1>1 DEF LuckySound
<1> QED  BY <1>2, MadeIs

LEMMA AdmitReports ==
    ASSUME PortalSound, ReportsSound, NEW r \in Req, Admit(r) PROVE ReportsSound'
<1>1. /\ Reading(r) /\ Counted(r, TRUE) /\ req[r].op \in CallOp /\ req[r].step = "read"
      /\ req' = [req EXCEPT ![r].step = "admitted"]
      /\ UNCHANGED <<pageVars, generated, reports, unlucky>>
      BY DEF Admit, Reading, CallOp, codeVars, faultVars
<1>2. PICK q \in SessionReq : q = req[r]
      BY <1>1, CallNames
<1>3. PICK h \in 1..Len(sessions) : h = q.session
      BY <1>1, <1>2, CallNames
<1>4. PICK new : new = [q EXCEPT !.step = "admitted"]
      OBVIOUS
<1>5. req' = [req EXCEPT ![r] = new]
      BY <1>1, <1>2, <1>3, <1>4, Typed
<1>6. new.op = q.op /\ new.session = h
      BY <1>3, <1>4 DEF SessionReq
<1>7. req'[r] = new /\ \A x \in Req : x # r => req'[x] = req[x]
      BY <1>5, Typed
<1>8. OnlyItsOwn(r) /\ Grown
      BY <1>1, <1>2, <1>3, <1>6, <1>7, CountedOnlyOwn
<1>9. sessions'[h].used = sessions[h].used /\ sessions'[h].report = sessions[h].report
      BY <1>1, <1>2, <1>3, CountedSession
<1>10. ASSUME NEW p \in Page, r \in waits[p] PROVE LuckySound(p)'
  <2>1. SUFFICES ASSUME p \notin unlucky PROVE LuckySound(p)'
        BY <1>1 DEF LuckySound
  <2>2. /\ page'[p] = page[p] /\ waits'[p] = waits[p]
        /\ holds'[p] = h /\ holds[p] = h /\ h # 0
        BY <1>1, <1>2, <1>3, <1>10, CallersPage DEF pageVars
  <2>3. LuckySound(p)
        BY DEF ReportsSound
  <2>4. Made(holds[p])' = Made(holds[p]) /\ Made(holds[p]) \subseteq 1..Len(reports)
        BY <1>1, <2>2, MadeIs DEF Made
  <2>5. \A x \in Req : req'[x].op \in CallOp /\ req'[x].session = h => x \in waits[p]
        BY <1>7, <1>10, <2>1, <2>2, <2>3 DEF LuckySound
  <2>6. page[p] = "form" => Made(holds[p]) = {}
        BY <1>1, <1>10, <2>1, <2>3, <2>4, NothingMade, MadeIs
  <2> QED  BY <1>9, <2>1, <2>2, <2>3, <2>4, <2>5, <2>6 DEF LuckySound, Sent
<1> QED  BY <1>1, <1>8, <1>10, GoesOnReports

LEMMA CreateReportReports ==
    ASSUME PortalSound, ReportsSound, NEW r \in Req, CreateReport(r) PROVE ReportsSound'
<1>1. /\ req[r].op = "submit" /\ req[r].op \in CallOp /\ req[r].step = "admitted"
      /\ UNCHANGED <<generated, sessions, unlucky>>
      BY DEF CreateReport, Admitted, CallOp, codeVars, faultVars
<1>2. PICK q \in SessionReq : q = req[r]
      BY <1>1, CallNames
<1>3. PICK h \in 1..Len(sessions) : h = q.session
      BY <1>1, <1>2, CallNames
<1>4. CASE Reply(r, FALSE) /\ reports' = reports
  <2>1. /\ Settle(req[r].page, r, FALSE, 0) /\ req[r] # Idle /\ req'[r].op \notin CallOp
        /\ \A x \in Req : x # r => req'[x] = req[x]
        BY <1>1, <1>4, CallNames, Typed DEF Reply, Idle, CallOp
  <2>2. Grown
        BY <1>1, <1>4, NothingGrown DEF sessionVars
  <2>3. OnlyItsOwn(r)
        BY <1>1, <1>4, <2>1 DEF OnlyItsOwn
  <2>4. ASSUME NEW p \in Page, r \in waits[p] PROVE SentSound(p)' /\ LuckySound(p)'
    <3>1. /\ p = req[r].page /\ page[p] = "form" /\ waits[p] = {r} /\ holds[p] # 0
          BY <1>1, <2>4, CallersPage
    <3>2. page'[p] = "form" /\ waits'[p] = {} /\ holds'[p] = holds[p]
          BY <1>1, <2>1, <2>4, <3>1, Settling DEF After
    <3>3. SentSound(p)' /\ LuckySound(p)
          BY <3>2 DEF SentSound, Sent, ReportsSound
    <3>4. SUFFICES ASSUME p \notin unlucky PROVE LuckySound(p)'
          BY <1>1, <3>3 DEF LuckySound
    <3>5. \A i \in 1..Len(reports) : reports[i] # holds[p]
          BY <1>1, <2>4, <3>1, <3>3, <3>4, NothingMade
    <3>6. Made(holds[p])' = {}
          BY <1>4, <3>2, <3>5, MadeIs DEF Made
    <3>7. \A x \in Req : ~(req'[x].op \in CallOp /\ req'[x].session = holds[p])
          BY <2>1, <3>1, <3>3, <3>4 DEF LuckySound
    <3>8. ~sessions[holds[p]].used
          BY <3>1, <3>3, <3>4 DEF LuckySound
    <3> QED  BY <1>1, <3>2, <3>6, <3>7, <3>8 DEF LuckySound, Sent
  <2> QED  BY <1>1, <2>1, <2>2, <2>3, <2>4, AnsweredReports
<1>5. CASE /\ reports' = Append(reports, req[r].session)
           /\ req' = [req EXCEPT ![r].step = "created", ![r].report = Len(reports) + 1]
           /\ UNCHANGED pageVars
  <2>1. PICK n \in Nat : n = Len(reports) + 1
        BY Typed
  <2>2. /\ Grown /\ Len(reports') = n /\ reports'[n] = h
        /\ \A j \in 1..Len(reports) : reports'[j] = reports[j]
        BY <1>1, <1>2, <1>3, <1>5, <2>1, ReportAdded
  <2>3. PICK new : new = [q EXCEPT !.step = "created", !.report = n]
        OBVIOUS
  <2>4. req' = [req EXCEPT ![r] = new]
        BY <1>2, <1>5, <2>1, <2>3, Typed
  <2>5. new.op = "submit" /\ new.session = h /\ new.step = "created" /\ new.report = n
        BY <1>1, <1>2, <1>3, <2>3 DEF SessionReq
  <2>6. req'[r] = new /\ \A x \in Req : x # r => req'[x] = req[x]
        BY <2>4, Typed
  <2>7. \A i \in 1..Len(reports') : i \in 1..Len(reports) \/ i = n
        BY <2>1, <2>2, Typed
  <2>8. OnlyItsOwn(r)
        BY <1>1, <1>2, <1>3, <2>2, <2>5, <2>6, <2>7 DEF OnlyItsOwn
  <2>9. ASSUME NEW p \in Page, r \in waits[p] PROVE LuckySound(p)'
    <3>1. SUFFICES ASSUME p \notin unlucky PROVE LuckySound(p)'
          BY <1>1 DEF LuckySound
    <3>2. /\ page'[p] = "form" /\ page[p] = "form" /\ waits'[p] = {r} /\ waits[p] = {r}
          /\ holds'[p] = h /\ holds[p] = h /\ h # 0
          BY <1>1, <1>2, <1>3, <1>5, <2>9, CallersPage DEF pageVars
    <3>3. LuckySound(p)
          BY DEF ReportsSound
    <3>4. \A i \in 1..Len(reports) : reports[i] # h
          BY <1>1, <2>9, <3>1, <3>2, <3>3, NothingMade
    <3>5. Made(holds[p])' = {i \in 1..Len(reports') : reports'[i] = h}
          BY <2>2, <3>2, MadeGrows
    <3>6. \A i \in Made(holds[p])' : i = n
          BY <2>2, <2>7, <3>4, <3>5
    <3>7. \A i \in Made(holds[p])' : \E x \in waits'[p] :
                req'[x].step = "created" /\ req'[x].report = i
          BY <2>5, <2>6, <3>2, <3>6
    <3>8. \A x \in Req : req'[x].op \in CallOp /\ req'[x].session = h => x \in waits[p]
          BY <2>6, <2>9, <3>1, <3>2, <3>3 DEF LuckySound
    <3>9. ~sessions[h].used
          BY <3>1, <3>2, <3>3 DEF LuckySound
    <3> QED  BY <1>1, <3>2, <3>7, <3>8, <3>9 DEF LuckySound, Sent
  <2> QED  BY <1>1, <1>5, <2>2, <2>8, <2>9, GoesOnReports
<1> QED  BY <1>4, <1>5 DEF CreateReport

LEMMA StampReportReports ==
    ASSUME PortalSound, ReportsSound, NEW r \in Req, StampReport(r) PROVE ReportsSound'
<1>1. /\ req[r].op = "submit" /\ req[r].op \in CallOp /\ req[r].step = "created"
      /\ UNCHANGED <<generated, reports, unlucky>> /\ Reply(r, TRUE)
      BY DEF StampReport, CallOp, codeVars, faultVars
<1>2. PICK h \in 1..Len(sessions), n \in 1..Len(reports) :
          h = req[r].session /\ n = req[r].report /\ reports[n] = h
  <2>1. /\ req[r].session \in 1..Len(sessions) /\ req[r].report \in 0..Len(reports)
        /\ req[r].report # 0 /\ reports[req[r].report] = req[r].session
        BY <1>1, CallNames
  <2>2. req[r].report \in 1..Len(reports)
        BY <2>1, Typed
  <2> QED  BY <2>1, <2>2
<1>3. /\ Settle(req[r].page, r, TRUE, 0) /\ req[r] # Idle /\ req'[r].op \notin CallOp
      /\ \A x \in Req : x # r => req'[x] = req[x]
      BY <1>1, CallNames, Typed DEF Reply, Idle, CallOp
<1>4. /\ Grown /\ sessions'[h].report = n /\ sessions'[h].used = sessions[h].used
      /\ \A j \in 1..Len(sessions) : j # h => sessions'[j] = sessions[j]
      BY <1>2, Stamped
<1>5. OnlyItsOwn(r)
      BY <1>1, <1>2, <1>3, <1>4 DEF OnlyItsOwn
<1>6. ASSUME NEW p \in Page, r \in waits[p] PROVE SentSound(p)' /\ LuckySound(p)'
  <2>1. /\ p = req[r].page /\ page[p] = "form" /\ waits[p] = {r} /\ holds[p] = h /\ h # 0
        BY <1>1, <1>2, <1>6, CallersPage
  <2>2. page'[p] = "uploading" /\ waits'[p] = {} /\ holds'[p] = h
        BY <1>1, <1>3, <1>6, <2>1, Settling DEF After
  <2>3. Made(holds[p])' = Made(holds[p]) /\ n \in Made(holds[p])
        BY <1>1, <1>2, <2>1, <2>2, MadeIs DEF Made
  <2>4. SentSound(p)'
        BY <1>4, <2>2 DEF SentSound, Sent
  <2>5. SUFFICES ASSUME p \notin unlucky PROVE LuckySound(p)'
        BY <1>1, <2>4 DEF LuckySound
  <2>6. LuckySound(p)
        BY DEF ReportsSound
  <2>7. Made(holds[p]) = {n}
        BY <1>2, <2>1, <2>3, <2>5, <2>6 DEF LuckySound
  <2>8. \A x \in Req : ~(req'[x].op \in CallOp /\ req'[x].session = h)
        BY <1>3, <2>1, <2>5, <2>6 DEF LuckySound
  <2>9. ~sessions'[h].used
        BY <1>4, <2>1, <2>5, <2>6 DEF LuckySound
  <2> QED  BY <1>4, <2>2, <2>3, <2>7, <2>8, <2>9 DEF LuckySound
<1> QED  BY <1>3, <1>4, <1>1, <1>5, <1>6, AnsweredReports

\* A refused upload leaves its page where it is.
LEMMA RefuseUploadReports ==
    ASSUME PortalSound, ReportsSound, NEW r \in Req, RefuseUpload(r) PROVE ReportsSound'
<1>1. /\ req[r].op = "upload" /\ Reply(r, FALSE) /\ req[r].op \notin CallOp
      /\ UNCHANGED <<generated, sessions, reports, unlucky>>
      BY DEF RefuseUpload, codeVars, sessionVars, faultVars, CallOp
<1>2. /\ Settle(req[r].page, r, FALSE, 0) /\ req[r] # Idle /\ req'[r].op \notin CallOp
      /\ \A x \in Req : x # r => req'[x] = req[x]
  <2>1. Settle(req[r].page, r, FALSE, 0) /\ req' = [req EXCEPT ![r] = Idle]
        BY <1>1 DEF Reply
  <2>2. req'[r] = Idle /\ \A x \in Req : x # r => req'[x] = req[x]
        BY <2>1, Typed
  <2>3. Idle.op \notin CallOp /\ Idle.op # "upload"
        BY DEF Idle, CallOp
  <2> QED  BY <1>1, <2>1, <2>2, <2>3
<1>3. Grown
      BY <1>1, NothingGrown DEF sessionVars
<1>4. OnlyItsOwn(r)
      BY <1>1, <1>2 DEF OnlyItsOwn
<1>5. ASSUME NEW p \in Page, r \in waits[p] PROVE SentSound(p)' /\ LuckySound(p)'
  <2>1. p = req[r].page /\ page[p] = "uploading"
        BY <1>1, <1>5, AwaitedBy DEF LinkOp
  <2>2. page'[p] = "uploading" /\ holds'[p] = holds[p] /\ waits'[p] = waits[p] \ {r}
        BY <1>1, <1>2, <1>5, <2>1, Settling DEF After
  <2>3. SentSound(p)' /\ LuckySound(p)
        BY <1>1, <2>1, <2>2 DEF ReportsSound, SentSound
  <2>4. SUFFICES ASSUME p \notin unlucky PROVE LuckySound(p)'
        BY <1>1, <2>3 DEF LuckySound
  <2>5. Made(holds[p])' = Made(holds[p])
        BY <1>1, <2>2 DEF Made
  <2>6. holds[p] # 0 => \A x \in Req : req'[x].op \in CallOp /\ req'[x].session = holds[p]
                                          => x \in waits'[p]
        BY <1>2, <2>2, <2>3, <2>4 DEF LuckySound
  <2> QED  BY <1>1, <2>1, <2>2, <2>3, <2>4, <2>5, <2>6 DEF LuckySound
<1> QED  BY <1>1, <1>2, <1>3, <1>4, <1>5, AnsweredReports

LEMMA ConsumeReports ==
    ASSUME PortalSound, ReportsSound, NEW r \in Req, Consume(r) PROVE ReportsSound'
<1>1. /\ req[r].op = "finalize" /\ req[r].op \in CallOp
      /\ UNCHANGED <<generated, reports, unlucky>>
      BY DEF Consume, Admitted, CallOp, codeVars, faultVars
<1>2. PICK h \in 1..Len(sessions) : h = req[r].session
      BY <1>1, CallNames
<1>3. CASE /\ Reply(r, TRUE) /\ ~sessions[h].used
           /\ sessions' = [sessions EXCEPT ![h].used = TRUE]
  <2>1. /\ Settle(req[r].page, r, TRUE, 0) /\ req[r] # Idle /\ req'[r].op \notin CallOp
        /\ \A x \in Req : x # r => req'[x] = req[x]
        BY <1>1, <1>3, CallNames, Typed DEF Reply, Idle, CallOp
  <2>2. /\ Grown /\ sessions'[h].used /\ sessions'[h].report = sessions[h].report
        /\ \A j \in 1..Len(sessions) : j # h => sessions'[j] = sessions[j]
        BY <1>1, <1>2, <1>3, Consumed
  <2>3. OnlyItsOwn(r)
        BY <1>1, <1>2, <2>1, <2>2 DEF OnlyItsOwn
  <2>4. ASSUME NEW p \in Page, r \in waits[p] PROVE SentSound(p)' /\ LuckySound(p)'
    <3>1. p = req[r].page /\ page[p] = "finalizing" /\ waits[p] = {r} /\ holds[p] = h /\ h # 0
          BY <1>1, <1>2, <2>4, CallersPage
    <3>2. page'[p] = "submitted" /\ waits'[p] = {} /\ holds'[p] = h
          BY <1>1, <2>1, <2>4, <3>1, Settling DEF After
    <3>3. SentSound(p) /\ LuckySound(p)
          BY DEF ReportsSound
    <3>4. Made(holds[p])' = Made(holds[p])
          BY <1>1, <3>1, <3>2 DEF Made
    <3>5. SentSound(p)'
          BY <2>2, <3>1, <3>2, <3>3, <3>4 DEF SentSound, Sent
    <3>6. SUFFICES ASSUME p \notin unlucky PROVE LuckySound(p)'
          BY <1>1, <3>5 DEF LuckySound
    <3>8. Made(holds[p]) = {sessions[h].report}
          BY <3>1, <3>3, <3>6 DEF LuckySound, Sent
    <3>11. \A x \in Req : ~(req'[x].op \in CallOp /\ req'[x].session = h)
           BY <2>1, <3>1, <3>3, <3>6 DEF LuckySound
    <3> QED  BY <2>2, <3>2, <3>4, <3>8, <3>11 DEF LuckySound
  <2> QED  BY <1>1, <2>1, <2>2, <2>3, <2>4, AnsweredReports
<1>4. CASE Reply(r, FALSE) /\ sessions' = sessions /\ sessions[h].used
  <2>1. /\ Settle(req[r].page, r, FALSE, 0) /\ req[r] # Idle /\ req'[r].op \notin CallOp
        /\ \A x \in Req : x # r => req'[x] = req[x]
        BY <1>1, <1>4, CallNames, Typed DEF Reply, Idle, CallOp
  <2>2. Grown
        BY <1>1, <1>4, NothingGrown DEF sessionVars
  <2>3. OnlyItsOwn(r)
        BY <1>1, <1>4, <2>1 DEF OnlyItsOwn
  <2>4. ASSUME NEW p \in Page, r \in waits[p] PROVE SentSound(p)' /\ LuckySound(p)'
    <3>1. page[p] = "finalizing" /\ holds[p] = h /\ p = req[r].page
          BY <1>1, <1>2, <2>4, CallersPage
    <3>2. p \in unlucky
          BY <1>4, <3>1 DEF ReportsSound, LuckySound
    <3>3. SentSound(p)'
          BY <1>4, <2>1, <2>2, <2>4, NoLuckNeeded
    <3> QED  BY <1>1, <3>2, <3>3 DEF LuckySound
  <2> QED  BY <1>1, <2>1, <2>2, <2>3, <2>4, AnsweredReports
<1> QED  BY <1>2, <1>3, <1>4 DEF Consume

-------------------------------------------------------------------------------

\* A page that starts anew has no session; the others are not touched.
LEMMA OpenReports ==
    ASSUME PortalSound, ReportsSound, NEW p \in Page, Open(p) \/ BackToIdentify(p)
    PROVE  ReportsSound'
<1>1. /\ page'[p] \in {"identify", "error"} /\ holds'[p] = 0
      /\ \A q \in Page : q # p => /\ page'[q] = page[q] /\ waits'[q] = waits[q]
                                  /\ holds'[q] = holds[q]
                                  /\ q \notin unlucky' => q \notin unlucky
      /\ UNCHANGED <<req, sessions, reports>>
      BY Typed DEF Open, BackToIdentify, sessionVars
<1>2. ASSUME NEW q \in Page, q # p PROVE SentSound(q)' /\ LuckySound(q)'
  <2>1. SentSound(q) /\ LuckySound(q)
        BY DEF ReportsSound
  <2>2. UNCHANGED <<page[q], waits[q], holds[q], req, sessions, reports>>
        BY <1>1, <1>2
  <2>3. q \notin unlucky' => q \notin unlucky
        BY <1>1, <1>2
  <2> QED  BY <2>1, <2>2, <2>3 DEF SentSound, LuckySound, Made
<1>3. SentSound(p)' /\ LuckySound(p)'
      BY <1>1, NoSession DEF HasSession
<1> QED  BY <1>2, <1>3 DEF ReportsSound

\* A page that calls, and the others, that do not await the new request.
LEMMA CallReports ==
    ASSUME PortalSound, ReportsSound, NEW p \in Page, NEW r \in Req, req[r] = Idle,
           req'[r].op \in CallOp => req'[r].session = holds[p] /\ holds[p] # 0,
           \A x \in Req : x # r => req'[x] = req[x],
           \A q \in Page : q # p => /\ page'[q] = page[q] /\ waits'[q] = waits[q]
                                    /\ holds'[q] = holds[q],
           UNCHANGED <<sessionVars, unlucky>>, SentSound(p)' /\ LuckySound(p)'
    PROVE  ReportsSound'
<1>1. UNCHANGED <<sessions, reports>>
      BY DEF sessionVars
<1>2. ASSUME NEW q \in Page, q # p PROVE SentSound(q)' /\ LuckySound(q)'
  <2>1. SentSound(q) /\ LuckySound(q) /\ r \notin waits[q] /\ waits[q] \subseteq Req
        BY AwaitedBy, Typed DEF ReportsSound
  <2>2. page'[q] = page[q] /\ waits'[q] = waits[q] /\ holds'[q] = holds[q]
        BY <1>2
  <2>3. Made(holds[q])' = Made(holds[q])
        BY <1>1, <2>2 DEF Made
  <2>4. SentSound(q)'
        BY <1>1, <2>1, <2>2, <2>3 DEF SentSound
  <2>5. SUFFICES ASSUME q \notin unlucky PROVE LuckySound(q)'
        BY <2>4 DEF LuckySound
  <2>6. req'[r].op \in CallOp => req'[r].session # holds[q]
        BY <1>2 DEF PortalSound, HoldersDiffer
  <2>7. holds[q] # 0 => \A x \in Req : req'[x].op \in CallOp /\ req'[x].session = holds[q]
                                          => x \in waits[q]
        BY <2>1, <2>5, <2>6 DEF LuckySound
  <2>8. \A x \in waits[q] : req'[x] = req[x]
        BY <2>1
  <2> QED  BY <1>1, <2>1, <2>2, <2>3, <2>5, <2>7, <2>8 DEF LuckySound
<1> QED  BY <1>2 DEF ReportsSound

LEMMA LinkCallReports ==
    ASSUME PortalSound, ReportsSound, NEW p \in Page, NEW r \in Req,
           (\E c \in 0..MaxCodes : Verify(p, r, c)) \/ Identify(p, r)
    PROVE  ReportsSound'
<1>0. \E op \in LinkOp : \E c : LinkCall(p, r, op, c) /\ page[p] \in {"identify", "code"}
      BY DEF Verify, Identify, LinkOp
<1> PICK op \in LinkOp : \E c : LinkCall(p, r, op, c) /\ page[p] \in {"identify", "code"}
      BY <1>0
<1>1. PICK c : LinkCall(p, r, op, c) /\ page[p] \in {"identify", "code"}
      OBVIOUS
<1> DEFINE new == [op |-> op, page |-> p, code |-> c, seen |-> slot.codes,
                   valid |-> Unexpired(slot.codes), attempts |-> slot.attempts]
<1>2. /\ req[r] = Idle /\ req' = [req EXCEPT ![r] = new] /\ new.op = op
      /\ waits' = [waits EXCEPT ![p] = {r}]
      /\ UNCHANGED <<page, holds, sessionVars, unlucky>>
      BY <1>1 DEF LinkCall, faultVars
<1> HIDE DEF new
<1>3. req'[r].op \notin CallOp /\ \A x \in Req : x # r => req'[x] = req[x]
      BY <1>2, Typed DEF LinkOp, CallOp
<1>4. holds[p] = 0 /\ page'[p] \notin HasSession
      BY <1>1, <1>2, HoldsBounds DEF HasSession
<1>5. SentSound(p)' /\ LuckySound(p)'
      BY <1>2, <1>4, NoSession
<1>6. \A q \in Page : q # p => waits'[q] = waits[q]
      BY <1>2, Typed
<1> QED  BY <1>2, <1>3, <1>5, <1>6, CallReports

\* A page that goes on to its next call.
LEMMA NextCallReports ==
    ASSUME PortalSound, ReportsSound, NEW p \in Page, NEW r \in Req, NEW new,
           Post(p, r, new), new.op \in CallOp => new.session = holds[p],
           page' \in [Page -> Step] /\ \A q \in Page : q # p => page'[q] = page[q],
           \/ page[p] = "form" /\ page'[p] = "form" /\ waits[p] = {}
           \/ page[p] = "uploading" /\ page'[p] \in {"uploading", "finalizing"}
    PROVE  ReportsSound'
<1>1. PICK h \in 1..Len(sessions) : h = holds[p]
      BY HoldsBounds, Typed DEF HasSession
<1>2. /\ req[r] = Idle /\ req' = [req EXCEPT ![r] = new]
      /\ waits' = [waits EXCEPT ![p] = @ \cup {r}]
      /\ UNCHANGED <<holds, sessions, reports, unlucky>>
      BY DEF Post, sessionVars, faultVars
<1>3. h # 0
      BY <1>1
<1>4. req'[r] = new /\ \A x \in Req : x # r => req'[x] = req[x]
      BY <1>2, Typed
<1>5. waits'[p] = waits[p] \cup {r} /\ \A q \in Page : q # p => waits'[q] = waits[q]
      BY <1>2, Typed
<1>6. /\ SentSound(p) /\ LuckySound(p)
      BY DEF ReportsSound
<1>7. Made(holds[p])' = Made(holds[p])
      BY <1>2 DEF Made
<1>8. SentSound(p)'
      BY <1>2, <1>6 DEF SentSound, Sent
<1>9. ASSUME p \notin unlucky PROVE LuckySound(p)'
  <2>1. \A x \in Req : req'[x].op \in CallOp /\ req'[x].session = h => x \in waits'[p]
        BY <1>1, <1>3, <1>4, <1>5, <1>6, <1>9 DEF LuckySound
  <2>2. ~sessions[h].used
        BY <1>1, <1>6, <1>9 DEF LuckySound
  <2>3. page'[p] = "form" => Made(holds[p]) = {}
        BY <1>6, <1>9 DEF LuckySound
  <2>4. page'[p] \in Sent => Made(holds[p]) = {sessions[h].report}
        BY <1>1, <1>6, <1>9 DEF LuckySound, Sent
  <2> QED  BY <1>1, <1>2, <1>7, <2>1, <2>2, <2>3, <2>4 DEF LuckySound, Sent
<1>10. LuckySound(p)'
       BY <1>2, <1>9 DEF LuckySound
<1>11. \A q \in Page : q # p => holds'[q] = holds[q]
       BY <1>2
<1> QED  BY <1>1, <1>2, <1>3, <1>4, <1>5, <1>8, <1>10, <1>11, CallReports DEF sessionVars

LEMMA PageCallReports ==
    ASSUME PortalSound, ReportsSound, NEW p \in Page, NEW r \in Req,
           Submit(p, r) \/ (\E f \in File : Upload(p, r, f)) \/ Finalize(p, r)
    PROVE  ReportsSound'
<1>1. ASSUME NEW op, SessionCall(p, r, op)
      PROVE  \E new : Post(p, r, new) /\ new.session = holds[p]
      BY <1>1 DEF SessionCall
<1>2. CASE Submit(p, r)
  <2>1. page[p] = "form" /\ waits[p] = {} /\ page' = page /\ SessionCall(p, r, "submit")
        BY <1>2 DEF Submit
  <2>2. PICK new : Post(p, r, new) /\ new.session = holds[p]
        BY <1>1, <2>1
  <2> QED  BY <2>1, <2>2, Typed, NextCallReports
<1>3. ASSUME NEW f \in File, Upload(p, r, f) PROVE ReportsSound'
  <2>1. PICK new : new = [op |-> "upload", page |-> p, file |-> f]
        OBVIOUS
  <2>2. page[p] = "uploading" /\ page' = page /\ Post(p, r, new) /\ new.op \notin CallOp
        BY <1>3, <2>1 DEF Upload, CallOp
  <2> QED  BY <2>2, Typed, NextCallReports
<1>4. CASE Finalize(p, r)
  <2>1. /\ page[p] = "uploading" /\ SessionCall(p, r, "finalize")
        /\ page' = [page EXCEPT ![p] = "finalizing"]
        BY <1>4 DEF Finalize
  <2>2. /\ page' \in [Page -> Step] /\ page'[p] = "finalizing"
        /\ \A q \in Page : q # p => page'[q] = page[q]
        BY <2>1, Typed DEF Step
  <2>3. PICK new : Post(p, r, new) /\ new.session = holds[p]
        BY <1>1, <2>1
  <2> QED  BY <2>1, <2>2, <2>3, NextCallReports
<1> QED  BY <1>2, <1>3, <1>4

LEMMA ReportsUntouched ==
    ASSUME ReportsSound, UNCHANGED <<pageVars, req, sessionVars, unlucky>> PROVE ReportsSound'
<1>1. UNCHANGED <<page, waits, todo, holds, req, sessions, reports, unlucky>>
      BY DEF pageVars, sessionVars
<1> QED  BY <1>1 DEF ReportsSound, SentSound, LuckySound, Made

LEMMA InitReports == PortalInit => ReportsSound
BY DEF PortalInit, ReportsSound, SentSound, LuckySound, Sent

LEMMA StepReports == PortalSound /\ ReportsSound /\ [PortalNext]_portalVars => ReportsSound'
<1> SUFFICES ASSUME PortalSound, ReportsSound, [PortalNext]_portalVars PROVE ReportsSound'
    OBVIOUS
<1>1. CASE \E p \in Page : Open(p) \/ BackToIdentify(p)
      BY <1>1, OpenReports
<1>2. CASE \E p \in Page, r \in Req : Identify(p, r) \/ \E c \in 0..MaxCodes : Verify(p, r, c)
      BY <1>2, LinkCallReports
<1>3. CASE \E p \in Page, r \in Req :
              Submit(p, r) \/ Finalize(p, r) \/ \E f \in File : Upload(p, r, f)
      BY <1>3, PageCallReports
<1>4. CASE \E r \in Req : StoreCode(r) \/ VerifyNothing(r) \/ VerifyTooLate(r) \/ VerifyMiss(r)
      BY <1>4, CodeStepsReports
<1>5. CASE \E r \in Req : VerifyMatch(r)
      BY <1>5, VerifyMatchReports
<1>6. CASE \E r \in Req : Admit(r) \/ TurnAway(r)
      BY <1>6, AdmitReports, TurnAwayReports
<1>7. CASE \E r \in Req : CreateReport(r) \/ StampReport(r)
      BY <1>7, CreateReportReports, StampReportReports
<1>8. CASE \E r \in Req : RefuseUpload(r) \/ Consume(r)
      BY <1>8, RefuseUploadReports, ConsumeReports
<1>9. CASE \E r \in Req : StopWaiting(r) \/ Die(r)
      BY <1>9, FaultReports
<1>10. CASE CodesExpire
       BY <1>10, ReportsUntouched DEF CodesExpire, faultVars
<1>11. CASE UNCHANGED portalVars
       BY <1>11, ReportsUntouched DEF portalVars, faultVars
<1> QED  BY <1>1, <1>2, <1>3, <1>4, <1>5, <1>6, <1>7, <1>8, <1>9, <1>10, <1>11 DEF PortalNext

\* The summary is shown for a finalized session on which a report is noted that
\* was made with it; without a lost or rejected call, the only one.
THEOREM SubmissionsHaveReport == PortalSpec => []SubmittedHasReport
<1>1. PortalSpec => [](PortalSound /\ ReportsSound)
      BY InitSound, InitReports, StepSound, StepReports, PTL DEF PortalSpec
<1>2. PortalSound /\ ReportsSound => SubmittedHasReport
  <2> SUFFICES ASSUME PortalSound, ReportsSound, NEW p \in Page, page[p] = "submitted"
               PROVE  /\ sessions[holds[p]].used
                      /\ sessions[holds[p]].report \in Made(holds[p])
                      /\ p \notin unlucky =>
                            Made(holds[p]) = {sessions[holds[p]].report}
      BY DEF SubmittedHasReport
  <2>1. SentSound(p) /\ LuckySound(p)
        BY DEF ReportsSound
  <2>2. PICK h \in 1..Len(sessions) : h = holds[p]
        BY HoldsBounds, Typed DEF HasSession
  <2>3. sessions[h].report \in 1..Len(reports) /\ reports[sessions[h].report] = h
        BY <2>1, <2>2, Typed DEF SentSound, Sent, PortalSound, RowsSound
  <2>4. sessions[holds[p]].report \in Made(holds[p])
        BY <2>2, <2>3, MadeIs
  <2> QED  BY <2>1, <2>4 DEF SentSound, LuckySound, Sent
<1> QED  BY <1>1, <1>2, PTL

===============================================================================
