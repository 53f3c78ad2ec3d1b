---------------------------- MODULE ControlProofs ----------------------------
(***************************************************************************)
(* Proofs about the control connection: the account credential that its    *)
(* requests carry (AccountCredential) and the goroutines that make these   *)
(* requests (ControlAuto).                                                 *)
(*                                                                         *)
(* AccountCredential, for every set of servers and handlers and every      *)
(* bound, with lingering clients and edited control URLs: the tokens of    *)
(* internal/accountauth order the stores and the clears.                   *)
(*                                                                         *)
(* ControlAuto, for any number of calls: no wake-up of a goroutine is lost *)
(* between its last look at the state and its wait, and Shutdown reaches   *)
(* every wait.                                                             *)
(***************************************************************************)
EXTENDS AccountCredential, TLAPS

(* A handler that holds a token.                                           *)
HasToken(h) == req[h].at \in {"begun", "asked"}

(* No token was issued in the future, a stored credential's token has been *)
(* consumed, and a token that is still current was issued after the last   *)
(* Clear: Clear itself advances requestID past every token.                *)
TokenInv ==
    /\ lastClear <= requestID
    /\ cred # NoCred => lastClear < cred.token /\ cred.token < requestID
    /\ \A h \in Handlers :
         HasToken(h) =>
           /\ req[h].token <= requestID
           /\ req[h].token = requestID => lastClear < requestID

(* A step that leaves the store alone and gives no handler a new token     *)
(* preserves TokenInv.                                                     *)
LEMMA StoreUntouched ==
    ASSUME TypeOK, TokenInv, UNCHANGED storeVars,
           \A h \in Handlers : HasToken(h)' =>
               HasToken(h) /\ req'[h].token = req[h].token
    PROVE  TokenInv'
BY DEF TokenInv, storeVars, HasToken, NoCred

(* So does a Clear that leaves the handlers alone.                         *)
LEMMA ClearPreserves ==
    ASSUME TypeOK, TokenInv, Clear, req' = req
    PROVE  TokenInv'
BY DEF TokenInv, TypeOK, HandlerStates, Clear, HasToken, NoCred

(* The state of a handler that is not running has its type.                *)
LEMMA NoReqType == NoReq \in HandlerStates
BY DEF NoReq, HandlerStates, HandlerPoints, URLs

(* A Start that fails leaves the backend its types.                        *)
LEMMA FailTyped ==
    ASSUME TypeOK, NEW url \in URLs, StartLockedFails(url)
    PROVE  /\ prefsURL' \in URLs /\ ccURL' \in URLs /\ authURL' \in URLs
           /\ starting' \in BOOLEAN /\ lingering' \subseteq Servers
           /\ edited' \in BOOLEAN
           /\ UNCHANGED <<requestID, cred, lastClear, sent>>
BY DEF StartLockedFails, DropClient, TypeOK, URLs, storeVars

(* Every variable keeps its type.                                          *)
THEOREM TypeCorrect == Spec => []TypeOK
<1>1. Init => TypeOK
  <2> SUFFICES ASSUME Init PROVE TypeOK
    OBVIOUS
  <2>1. req \in [Handlers -> HandlerStates]
    BY NoReqType DEF Init
  <2>2. /\ cred \in [filed : URLs, origin : URLs, token : Nat]
        /\ op \in [at : OpPoints, url : URLs]
    BY DEF Init, NoCred, NoOp, URLs, OpPoints
  <2>3. prefsURL \in URLs /\ ccURL \in URLs /\ authURL \in URLs
    BY CredentialAssumption DEF Init, OrDefault, URLs
  <2>4. /\ requestID \in Nat /\ lastClear \in Nat
        /\ nops \in 0..MaxOps /\ nreqs \in 0..MaxRequests
    BY CredentialAssumption DEF Init
  <2>5. /\ starting \in BOOLEAN
        /\ lingering \subseteq Servers
        /\ sent \subseteq [to : Servers, origin : URLs, current : BOOLEAN]
        /\ edited \in BOOLEAN
    BY DEF Init
  <2> QED
    BY <2>1, <2>2, <2>3, <2>4, <2>5 DEF TypeOK
<1>2. TypeOK /\ [Next]_vars => TypeOK'
  <2> SUFFICES ASSUME TypeOK, [Next]_vars PROVE TypeOK'
    OBVIOUS
  <2> USE CredentialAssumption DEF TypeOK, URLs, OpPoints, storeVars,
          backendVars, logVars
  <2>1. ASSUME NEW h \in Handlers, ReadStatus(h) PROVE TypeOK'
    <3>1. req' = [req EXCEPT ![h] = req'[h]]
      BY <2>1 DEF ReadStatus
    <3>2. req'[h] \in HandlerStates
      BY <2>1, NoReqType DEF ReadStatus, HandlerStates, HandlerPoints
    <3> QED
      BY <2>1, <3>1, <3>2 DEF ReadStatus
  <2>2. ASSUME NEW h \in Handlers, ReadSession(h) PROVE TypeOK'
    <3>1. req' = [req EXCEPT ![h] = req'[h]]
      BY <2>2 DEF ReadSession
    <3>2. req'[h] \in HandlerStates
      BY <2>2, NoReqType DEF ReadSession, HandlerStates, HandlerPoints
    <3> QED
      BY <2>2, <3>1, <3>2 DEF ReadSession
  <2>3. ASSUME NEW h \in Handlers, Begin(h) PROVE TypeOK'
    <3>1. req' = [req EXCEPT ![h] = req'[h]]
      BY <2>3 DEF Begin, BeginRequest
    <3>2. req'[h] \in HandlerStates
      <4>1. /\ req[h] \in HandlerStates
            /\ req'[h] = [req[h] EXCEPT !.at = "begun", !.token = requestID']
        BY <2>3 DEF Begin, BeginRequest
      <4>2. requestID' \in Nat
        BY <2>3 DEF Begin, BeginRequest
      <4> QED
        BY <4>1, <4>2 DEF HandlerStates, HandlerPoints
    <3> QED
      BY <2>3, <3>1, <3>2 DEF Begin, BeginRequest
  <2>4. ASSUME NEW h \in Handlers, Ask(h) PROVE TypeOK'
    <3>1. req' = [req EXCEPT ![h] = req'[h]]
      BY <2>4 DEF Ask
    <3>2. req'[h] \in HandlerStates
      BY <2>4, NoReqType DEF Ask, HandlerStates, HandlerPoints
    <3> QED
      BY <2>4, <3>1, <3>2 DEF Ask
  <2>5. ASSUME NEW h \in Handlers, Accepted(h) PROVE TypeOK'
    BY <2>5, NoReqType DEF Accepted, SetIfCurrentRequest, HandlerStates
  <2>6. ASSUME NEW h \in Handlers, Rejected(h) PROVE TypeOK'
    BY <2>6, NoReqType DEF Rejected
  <2>7. ASSUME NEW url \in URLs, Start(url) PROVE TypeOK'
    BY <2>7 DEF Start, NewOp, DropClient, ClearIfServerChanged, OrDefault,
      Clear, NoCred
  <2>8. ASSUME NEW url \in URLs, SwitchProfile(url) PROVE TypeOK'
    BY <2>8 DEF SwitchProfile, NewOp, DropClient, Clear, NoCred
  <2>9. ASSUME NEW url \in URLs, EditPrefs(url) PROVE TypeOK'
    BY <2>9 DEF EditPrefs, NewOp
  <2>10. ASSUME NEW url \in Servers, UpClear(url) PROVE TypeOK'
    BY <2>10 DEF UpClear, NewOp, Clear, NoCred
  <2>11. ASSUME NEW haveNodeKey \in BOOLEAN, UpLogin(haveNodeKey) PROVE TypeOK'
    BY <2>11 DEF UpLogin, Clear, NoCred, NoOp
  <2>12. ASSUME NEW haveNodeKey \in BOOLEAN, Logout(haveNodeKey) PROVE TypeOK'
    BY <2>12 DEF Logout, NewOp, Clear, NoCred
  <2>13. ASSUME UpStart PROVE TypeOK'
    BY <2>13 DEF UpStart, DropClient, ClearIfServerChanged, OrDefault,
      Clear, NoCred
  <2>14. ASSUME UpStartRefused PROVE TypeOK'
    BY <2>14 DEF UpStartRefused, NoOp
  <2>15. ASSUME StartLogin PROVE TypeOK'
    BY <2>15 DEF StartLogin, NewOp, Clear, NoCred
  <2>16. ASSUME LogoutReset PROVE TypeOK'
    BY <2>16 DEF LogoutReset, DropClient, Clear, NoCred
  <2>17. ASSUME LogoutFailed PROVE TypeOK'
    BY <2>17 DEF LogoutFailed, NoOp
  <2>18. ASSUME ResetAuth PROVE TypeOK'
    BY <2>18 DEF ResetAuth, NewOp, DropClient, Clear, NoCred
  <2>19. ASSUME FinalClear PROVE TypeOK'
    BY <2>19 DEF FinalClear, Clear, NoCred, NoOp
  <2>20. ASSUME BuildClient PROVE TypeOK'
    BY <2>20 DEF BuildClient, OrDefault
  <2>21. ASSUME NEW url \in URLs, SetAuthURL(url) PROVE TypeOK'
    BY <2>21 DEF SetAuthURL
  <2>22. ASSUME NEW server \in Servers, MapRequest(server) PROVE TypeOK'
    <3> DEFINE m == [to |-> server, origin |-> cred.origin,
                     current |-> (server = ccURL)]
    <3>1. (server = ccURL) \in BOOLEAN
      OBVIOUS
    <3>2. m \in [to : Servers, origin : URLs, current : BOOLEAN]
      BY <3>1
    <3>3. sent' = sent \cup {m}
      BY <2>22 DEF MapRequest
    <3> HIDE DEF m
    <3> QED
      BY <2>22, <3>2, <3>3 DEF MapRequest
  <2>23. ASSUME NEW server \in Servers, ClientStopped(server) PROVE TypeOK'
    BY <2>23 DEF ClientStopped
  <2>24. CASE UNCHANGED vars
    BY <2>24 DEF vars
  <2>25. ASSUME NEW url \in URLs, StartFails(url) PROVE TypeOK'
    BY <2>25, FailTyped DEF StartFails, NewOp
  <2>26. ASSUME UpStartFails PROVE TypeOK'
    <3>1. op.url \in URLs  OBVIOUS
    <3>2. op' \in [at : OpPoints, url : URLs]
      BY <2>26 DEF UpStartFails, NoOp
    <3> QED  BY <2>26, <3>1, <3>2, FailTyped DEF UpStartFails
  <2> QED
    BY <2>1, <2>2, <2>3, <2>4, <2>5, <2>6, <2>7, <2>8, <2>9, <2>10, <2>11,
       <2>12, <2>13, <2>14, <2>15, <2>16, <2>17, <2>18, <2>19, <2>20,
       <2>21, <2>22, <2>23, <2>24, <2>25, <2>26
       DEF Next, Password, Operate, Client
<1> QED
  BY <1>1, <1>2, PTL DEF Spec

(* The inductive step: TokenInv is preserved by every step.                *)
LEMMA TokenStep ==
    ASSUME TypeOK, TokenInv, [Next]_vars
    PROVE  TokenInv'
<1>1. ASSUME NEW h \in Handlers, ReadStatus(h) PROVE TokenInv'
  BY <1>1, StoreUntouched DEF ReadStatus, HasToken, TypeOK, HandlerStates
<1>2. ASSUME NEW h \in Handlers, ReadSession(h) PROVE TokenInv'
  BY <1>2, StoreUntouched DEF ReadSession, HasToken, TypeOK, NoReq,
      HandlerStates
<1>3. ASSUME NEW h \in Handlers, Begin(h) PROVE TokenInv'
  BY <1>3 DEF Begin, BeginRequest, TokenInv, HasToken, TypeOK, NoCred,
      HandlerStates
<1>4. ASSUME NEW h \in Handlers, Ask(h) PROVE TokenInv'
  BY <1>4, StoreUntouched DEF Ask, HasToken, TypeOK, NoReq, HandlerStates
<1>5. ASSUME NEW h \in Handlers, Accepted(h) PROVE TokenInv'
  BY <1>5 DEF Accepted, SetIfCurrentRequest, NoReq, TokenInv, HasToken,
      TypeOK, NoCred, HandlerStates
<1>6. ASSUME NEW h \in Handlers, Rejected(h) PROVE TokenInv'
  BY <1>6, StoreUntouched DEF Rejected, HasToken, TypeOK, NoReq, HandlerStates
<1>7. ASSUME NEW url \in URLs, Start(url) PROVE TokenInv'
  BY <1>7, ClearPreserves, StoreUntouched
  DEF Start, ClearIfServerChanged, HasToken
<1>8. ASSUME NEW url \in URLs, SwitchProfile(url) PROVE TokenInv'
  BY <1>8, ClearPreserves DEF SwitchProfile
<1>9. ASSUME NEW url \in URLs, EditPrefs(url) PROVE TokenInv'
  BY <1>9, StoreUntouched DEF EditPrefs, HasToken
<1>10. ASSUME NEW url \in Servers, UpClear(url) PROVE TokenInv'
  BY <1>10, ClearPreserves DEF UpClear
<1>11. ASSUME NEW haveNodeKey \in BOOLEAN, UpLogin(haveNodeKey) PROVE TokenInv'
  BY <1>11, ClearPreserves, StoreUntouched DEF UpLogin, HasToken
<1>12. ASSUME NEW haveNodeKey \in BOOLEAN, Logout(haveNodeKey) PROVE TokenInv'
  BY <1>12, ClearPreserves DEF Logout
<1>13. ASSUME UpStart PROVE TokenInv'
  BY <1>13, ClearPreserves, StoreUntouched
  DEF UpStart, ClearIfServerChanged, HasToken
<1>14. ASSUME UpStartRefused PROVE TokenInv'
  BY <1>14, StoreUntouched DEF UpStartRefused, HasToken
<1>15. ASSUME StartLogin PROVE TokenInv'
  BY <1>15, ClearPreserves DEF StartLogin
<1>16. ASSUME LogoutReset PROVE TokenInv'
  BY <1>16, ClearPreserves DEF LogoutReset
<1>17. ASSUME LogoutFailed PROVE TokenInv'
  BY <1>17, StoreUntouched DEF LogoutFailed, HasToken
<1>18. ASSUME ResetAuth PROVE TokenInv'
  BY <1>18, ClearPreserves DEF ResetAuth
<1>19. ASSUME FinalClear PROVE TokenInv'
  BY <1>19, ClearPreserves DEF FinalClear
<1>20. ASSUME BuildClient PROVE TokenInv'
  BY <1>20, StoreUntouched DEF BuildClient, HasToken
<1>21. ASSUME NEW url \in URLs, SetAuthURL(url) PROVE TokenInv'
  BY <1>21, StoreUntouched DEF SetAuthURL, HasToken
<1>22. ASSUME NEW server \in Servers, MapRequest(server) PROVE TokenInv'
  BY <1>22, StoreUntouched DEF MapRequest, HasToken
<1>23. ASSUME NEW server \in Servers, ClientStopped(server) PROVE TokenInv'
  BY <1>23, StoreUntouched DEF ClientStopped, HasToken
<1>24. CASE UNCHANGED vars
  BY <1>24, StoreUntouched DEF vars, storeVars, HasToken
<1>25. ASSUME NEW url \in URLs, StartFails(url) PROVE TokenInv'
  BY <1>25, StoreUntouched DEF StartFails, StartLockedFails, HasToken
<1>26. ASSUME UpStartFails PROVE TokenInv'
  BY <1>26, StoreUntouched DEF UpStartFails, StartLockedFails, HasToken
<1> QED
  BY <1>1, <1>2, <1>3, <1>4, <1>5, <1>6, <1>7, <1>8, <1>9, <1>10, <1>11,
     <1>12, <1>13, <1>14, <1>15, <1>16, <1>17, <1>18, <1>19, <1>20, <1>21,
     <1>22, <1>23, <1>24, <1>25, <1>26
     DEF Next, Password, Operate, Client

(* The tokens order stores and clears in every behaviour.                  *)
THEOREM TokensInOrder == Spec => []TokenInv
<1>1. Init => TokenInv
  BY DEF Init, TokenInv, HasToken, NoReq, NoCred
<1>2. TypeOK /\ TokenInv /\ [Next]_vars => TokenInv'
  BY TokenStep
<1> QED
  BY <1>1, <1>2, TypeCorrect, PTL DEF Spec

(* No password handler that began before a Clear can store its credential  *)
(* after it: logging out or changing the server is final.                  *)
THEOREM ClearIsFinal == Spec => []NoCredentialOutlivesClear
<1>1. TypeOK /\ TokenInv => NoCredentialOutlivesClear
  BY DEF TypeOK, TokenInv, NoCredentialOutlivesClear
<1> QED
  BY <1>1, TypeCorrect, TokensInOrder, PTL

(* A stored credential is only replaced by that of a later request.        *)
THEOREM LatestWins == Spec => LatestRequestWins
<1> DEFINE Step == cred # NoCred /\ cred' # cred /\ cred' # NoCred
                     => cred'.token > cred.token
<1>1. TypeOK /\ TokenInv /\ [Next]_vars => [Step]_vars
  <2> SUFFICES ASSUME TypeOK, TokenInv, Next PROVE Step
    OBVIOUS
  <2>1. ASSUME NEW h \in Handlers, Accepted(h) PROVE Step
    BY <2>1 DEF Accepted, SetIfCurrentRequest, TypeOK, TokenInv,
               HandlerStates
  <2>2. CASE cred' = cred \/ cred' = NoCred
    BY <2>2
  <2>3. (\E h \in Handlers : Accepted(h)) \/ cred' = cred \/ cred' = NoCred
    BY DEF Next, Password, Operate, Client, storeVars, Clear, BeginRequest,
           ClearIfServerChanged, ReadStatus, ReadSession, Begin, Ask, Rejected,
           Start, StartFails, UpStartFails, StartLockedFails, SwitchProfile,
           EditPrefs, UpClear, UpLogin, Logout, UpStart,
           UpStartRefused, StartLogin, LogoutReset, LogoutFailed, ResetAuth,
           FinalClear, BuildClient, SetAuthURL, MapRequest, ClientStopped
  <2> QED
    BY <2>1, <2>2, <2>3
<1>2. Spec => [][Step]_vars
  BY <1>1, TypeCorrect, TokensInOrder, PTL DEF Spec
<1> QED
  BY <1>2 DEF LatestRequestWins

-----------------------------------------------------------------------------
(* Where the credential goes.                                              *)

(* Until a control URL changes without a Clear, the running client belongs *)
(* to the server of the prefs, and so do the credential in the store and   *)
(* the server that a handler with a current token has asked: a Start that  *)
(* changes the server clears the one and invalidates the other.            *)
OriginInv ==
    ~edited =>
      /\ ccURL \in {NoURL, OrDefault(prefsURL)}
      /\ cred # NoCred => cred.origin = OrDefault(prefsURL)
      /\ \A h \in Handlers :
           req[h].at = "asked" /\ req[h].token = requestID
             => req[h].origin = OrDefault(prefsURL)

(* A step that stays on its server and touches neither the store nor what  *)
(* a handler has asked preserves OriginInv.                                *)
LEMMA OriginUntouched ==
    ASSUME TypeOK, OriginInv, UNCHANGED storeVars,
           UNCHANGED <<prefsURL, edited>>,
           ccURL' \in {ccURL, NoURL, OrDefault(prefsURL)},
           \A h \in Handlers : req'[h].at = "asked" => req'[h] = req[h]
    PROVE  OriginInv'
BY DEF OriginInv, storeVars, OrDefault

(* So does a Clear, whatever becomes of the prefs' server, if the client   *)
(* is gone or untouched together with them.                                *)
LEMMA OriginCleared ==
    ASSUME TypeOK, TokenInv, OriginInv, Clear, req' = req, edited' = edited,
           ccURL' = NoURL \/ UNCHANGED <<prefsURL, ccURL>>
    PROVE  OriginInv'
<1>1. ASSUME NEW h \in Handlers, req[h].at = "asked"
      PROVE  req[h].token # requestID'
  BY <1>1 DEF TokenInv, HasToken, Clear, TypeOK, HandlerStates
<1> QED
  BY <1>1 DEF OriginInv, Clear, OrDefault

(* A Start that stays on its server changes no store.                      *)
LEMMA OriginStart ==
    ASSUME TypeOK, TokenInv, OriginInv, NEW url \in URLs,
           DropClient(url, TRUE), ClearIfServerChanged(url), req' = req,
           edited' = edited
    PROVE  OriginInv'
<1>1. CASE OrDefault(url) # OrDefault(prefsURL)
  BY <1>1, OriginCleared DEF DropClient, ClearIfServerChanged
<1>2. CASE OrDefault(url) = OrDefault(prefsURL)
  <2>1. /\ UNCHANGED storeVars /\ ccURL' = NoURL
        /\ OrDefault(prefsURL)' = OrDefault(prefsURL)
    BY <1>2 DEF DropClient, ClearIfServerChanged, OrDefault
  <2> QED
    BY <2>1 DEF OriginInv, storeVars
<1> QED
  BY <1>1, <1>2

(* A Start that fails before it clears either stays on its server or is    *)
(* recorded.                                                               *)
LEMMA OriginFails ==
    ASSUME OriginInv, NEW url \in URLs, StartLockedFails(url), req' = req
    PROVE  OriginInv'
<1>1. CASE edited'
  BY <1>1 DEF OriginInv
<1>2. CASE ~edited'
  <2>1. ~edited /\ OrDefault(url) = OrDefault(prefsURL)
    BY <1>2 DEF StartLockedFails
  <2>2. /\ UNCHANGED storeVars /\ ccURL' = NoURL
        /\ OrDefault(prefsURL)' = OrDefault(prefsURL)
    BY <2>1 DEF StartLockedFails, DropClient, OrDefault
  <2> QED
    BY <2>1, <2>2 DEF OriginInv, storeVars
<1> QED
  BY <1>1, <1>2

(* The inductive step.                                                     *)
LEMMA OriginStep ==
    ASSUME TypeOK, TokenInv, OriginInv, [Next]_vars
    PROVE  OriginInv'
<1> USE DEF logVars, backendVars
<1>1. ASSUME NEW h \in Handlers, ReadStatus(h) PROVE OriginInv'
  BY <1>1, OriginUntouched DEF ReadStatus, TypeOK
<1>2. ASSUME NEW h \in Handlers, ReadSession(h) PROVE OriginInv'
  BY <1>2, OriginUntouched DEF ReadSession, TypeOK, NoReq
<1>3. ASSUME NEW h \in Handlers, Begin(h) PROVE OriginInv'
  BY <1>3 DEF Begin, BeginRequest, OriginInv, TypeOK, TokenInv, HasToken,
      HandlerStates, OrDefault
<1>4. ASSUME NEW h \in Handlers, Ask(h) PROVE OriginInv'
  BY <1>4 DEF Ask, OriginInv, TypeOK, NoReq, storeVars, OrDefault
<1>5. ASSUME NEW h \in Handlers, Accepted(h) PROVE OriginInv'
  BY <1>5 DEF Accepted, SetIfCurrentRequest, OriginInv, TypeOK, NoReq,
      TokenInv, HasToken, HandlerStates, OrDefault
<1>6. ASSUME NEW h \in Handlers, Rejected(h) PROVE OriginInv'
  BY <1>6, OriginUntouched DEF Rejected, TypeOK, NoReq
<1>7. ASSUME NEW url \in URLs, Start(url) PROVE OriginInv'
  BY <1>7, OriginStart DEF Start
<1>8. ASSUME NEW url \in URLs, SwitchProfile(url) PROVE OriginInv'
  BY <1>8, OriginCleared DEF SwitchProfile, DropClient
<1>9. ASSUME NEW url \in URLs, EditPrefs(url) PROVE OriginInv'
  BY <1>9 DEF EditPrefs, OriginInv
<1>10. ASSUME NEW url \in Servers, UpClear(url) PROVE OriginInv'
  BY <1>10, OriginCleared DEF UpClear
<1>11. ASSUME NEW haveNodeKey \in BOOLEAN, UpLogin(haveNodeKey)
       PROVE  OriginInv'
  BY <1>11, OriginCleared, OriginUntouched DEF UpLogin
<1>12. ASSUME NEW haveNodeKey \in BOOLEAN, Logout(haveNodeKey)
       PROVE  OriginInv'
  BY <1>12, OriginCleared DEF Logout
<1>13. ASSUME UpStart PROVE OriginInv'
  BY <1>13, OriginStart DEF UpStart, TypeOK
<1>14. ASSUME UpStartRefused PROVE OriginInv'
  BY <1>14, OriginUntouched DEF UpStartRefused
<1>15. ASSUME StartLogin PROVE OriginInv'
  BY <1>15, OriginCleared DEF StartLogin
<1>16. ASSUME LogoutReset PROVE OriginInv'
  BY <1>16, OriginCleared DEF LogoutReset, DropClient
<1>17. ASSUME LogoutFailed PROVE OriginInv'
  BY <1>17, OriginUntouched DEF LogoutFailed
<1>18. ASSUME ResetAuth PROVE OriginInv'
  BY <1>18, OriginCleared DEF ResetAuth, DropClient
<1>19. ASSUME FinalClear PROVE OriginInv'
  BY <1>19, OriginCleared DEF FinalClear
<1>20. ASSUME BuildClient PROVE OriginInv'
  BY <1>20, OriginUntouched DEF BuildClient
<1>21. ASSUME NEW url \in URLs, SetAuthURL(url) PROVE OriginInv'
  BY <1>21, OriginUntouched DEF SetAuthURL
<1>22. ASSUME NEW server \in Servers, MapRequest(server) PROVE OriginInv'
  BY <1>22, OriginUntouched DEF MapRequest
<1>23. ASSUME NEW server \in Servers, ClientStopped(server) PROVE OriginInv'
  BY <1>23, OriginUntouched DEF ClientStopped
<1>24. CASE UNCHANGED vars
  BY <1>24, OriginUntouched DEF vars, storeVars
<1>25. ASSUME NEW url \in URLs, StartFails(url) PROVE OriginInv'
  BY <1>25, OriginFails DEF StartFails
<1>26. ASSUME UpStartFails PROVE OriginInv'
  BY <1>26, OriginFails DEF UpStartFails, TypeOK
<1> QED
  BY <1>1, <1>2, <1>3, <1>4, <1>5, <1>6, <1>7, <1>8, <1>9, <1>10, <1>11,
     <1>12, <1>13, <1>14, <1>15, <1>16, <1>17, <1>18, <1>19, <1>20, <1>21,
     <1>22, <1>23, <1>24, <1>25, <1>26
     DEF Next, Password, Operate, Client

(* A map request of the running client carries the credential only to the  *)
(* server that authenticated it, unless EditPrefs or a failed Start has    *)
(* changed the control URL of the prefs without a Clear.                   *)
THEOREM OnlyToOrigin == Spec => []SentOnlyToOrigin
<1>1. Init => OriginInv /\ SentOnlyToOrigin
  BY DEF Init, OriginInv, SentOnlyToOrigin, NoReq, NoCred
<1>2. TypeOK /\ TokenInv /\ OriginInv /\ [Next]_vars => OriginInv'
  BY OriginStep
<1>3. TypeOK /\ OriginInv /\ SentOnlyToOrigin /\ [Next]_vars
        => SentOnlyToOrigin'
  <2> SUFFICES ASSUME TypeOK, OriginInv, SentOnlyToOrigin, [Next]_vars
               PROVE  SentOnlyToOrigin'
    OBVIOUS
  <2>1. ASSUME NEW server \in Servers, MapRequest(server)
        PROVE  SentOnlyToOrigin'
    <3>1. ~edited /\ server = ccURL => server = cred.origin
      BY <2>1, CredentialAssumption DEF MapRequest, Get, OriginInv, NoCred
    <3>2. CASE edited
      BY <2>1, <3>2 DEF MapRequest, SentOnlyToOrigin
    <3>3. CASE ~edited
      <4> SUFFICES ASSUME NEW m \in sent', m.current
                   PROVE  m.to = m.origin
        BY DEF SentOnlyToOrigin
      <4>1. CASE m \in sent
        BY <4>1, <3>3 DEF SentOnlyToOrigin
      <4>2. CASE m = [to |-> server, origin |-> cred.origin,
                      current |-> (server = ccURL)]
        BY <4>2, <3>1, <3>3
      <4> QED
        BY <2>1, <4>1, <4>2 DEF MapRequest
    <3> QED
      BY <3>2, <3>3
  <2>2. sent' = sent /\ (edited => edited') => SentOnlyToOrigin'
    BY DEF SentOnlyToOrigin
  <2>3. \/ \E server \in Servers : MapRequest(server)
        \/ sent' = sent /\ (edited => edited')
    BY DEF Next, vars, logVars, Password, Operate, Client, ReadStatus,
           ReadSession, Begin, Ask, Accepted, Rejected, Start, SwitchProfile,
           StartFails, UpStartFails, StartLockedFails,
           EditPrefs, UpClear, UpLogin, Logout, UpStart, UpStartRefused,
           StartLogin, LogoutReset, LogoutFailed, ResetAuth, FinalClear,
           BuildClient, SetAuthURL, MapRequest, ClientStopped
  <2> QED
    BY <2>1, <2>2, <2>3
<1> QED
  BY <1>1, <1>2, <1>3, TypeCorrect, TokensInOrder, PTL DEF Spec

-----------------------------------------------------------------------------
(* ControlAuto, for any number of calls.  The two specifications have      *)
(* `sent` in common, so it is called `sending` here: the generation that   *)
(* updateRoutine is sending.                                               *)
CONSTANT MaxCalls

VARIABLES
    paused, closed, loggedIn, goal, pc, cancelled, gen, sending, informed,
    known, signals, updateCh, logout, calls

Loops == INSTANCE ControlAuto WITH sent <- sending

Routines == {"auth", "map", "update"}

Waits == {"top", "paused", "granted", "refused", "read", "idle", "request",
          "done"}

(* The types.                                                              *)
PcTypes ==
    /\ pc \in [Routines -> Waits \union {"failed", "url", "ok", "restart",
                                         "bump", "ended", "backoff"}]
    /\ pc["auth"] \in Waits \union {"failed", "url", "ok", "restart", "bump"}
    /\ pc["map"] \in Waits \union {"ended", "backoff"}
    /\ pc["update"] \in Waits

FlagTypes ==
    /\ paused \in BOOLEAN /\ closed \in BOOLEAN /\ loggedIn \in BOOLEAN
    /\ signals \in BOOLEAN /\ updateCh \in BOOLEAN /\ logout \in BOOLEAN
    /\ cancelled \in [Routines -> BOOLEAN]

Generations ==
    /\ gen \in Nat /\ known \in 0..gen /\ sending \in 0..gen
    /\ informed \in 0..known

Rest ==
    /\ goal \in {"none", "login", "url"} /\ calls \in 0..MaxCalls

(* A goroutine waits for an unpause only while the client is paused and    *)
(* not shut down, and ends only after the shutdown.                        *)
PausesEnd ==
    \A r \in Routines :
        /\ pc[r] = "paused" => paused /\ ~closed
        /\ pc[r] \in {"refused", "done"} => closed

(* Where a goroutine has a context that matters to it; Shutdown ends all.  *)
HasContext == {"idle", "request", "failed", "ended", "url", "ok", "restart",
               "bump"}

ContextsEnd ==
    closed => \A r \in Routines : pc[r] \in HasContext => cancelled[r]

(* The three kinds of idle wait.                                           *)
AuthWakes == pc["auth"] = "idle" => goal = "none" \/ cancelled["auth"]

MapWakes ==
    pc["map"] = "idle" =>
        ~loggedIn \/ cancelled["map"] \/ pc["auth"] = "restart"

UpdateWakes ==
    pc["update"] = "idle" /\ gen > 0 /\ gen # informed /\ loggedIn =>
        signals \/ updateCh \/ cancelled["update"] \/ pc["auth"] = "restart"

LoopsInv ==
    /\ PcTypes /\ FlagTypes /\ Generations /\ Rest
    /\ PausesEnd /\ ContextsEnd /\ AuthWakes /\ MapWakes /\ UpdateWakes

-----------------------------------------------------------------------------
(* Every goroutine stays at its own program points.                        *)
LEMMA PcStep ==
    ASSUME PcTypes, Loops!Next
    PROVE  PcTypes'
<1> USE DEF PcTypes, Waits, Routines, Loops!At, Loops!Go
<1>1. CASE \E r \in Loops!Routines : Loops!Turn(r)
  BY <1>1 DEF Loops!Turn, Loops!WaitUnpause, Loops!Unpaused,
     Loops!IdleEnds, Loops!Routines
<1>2. CASE Loops!Auth
  BY <1>2 DEF Loops!Auth, Loops!AuthRead, Loops!AuthBackOff,
     Loops!AuthUrl, Loops!AuthOk, Loops!RestartMap, Loops!RestartUpdates
<1>3. CASE \E answer \in {"failed", "url", "ok"} : Loops!AuthAnswer(answer)
  BY <1>3 DEF Loops!AuthAnswer
<1>4. CASE Loops!Map \/ Loops!PollEnds
  BY <1>4 DEF Loops!Map, Loops!MapRead, Loops!MapEnded,
     Loops!MapBackOff, Loops!PollEnds
<1>5. CASE Loops!Update
  BY <1>5 DEF Loops!Update, Loops!UpdateRead, Loops!UpdateWoken,
     Loops!UpdateOk, Loops!UpdateFails
<1>6. CASE Loops!Signal \/ Loops!Change \/ Loops!Login \/ Loops!Logout
           \/ Loops!LogoutFails \/ Loops!LogoutOk
  BY <1>6 DEF Loops!Signal, Loops!Change, Loops!Login, Loops!Logout,
     Loops!LogoutFails, Loops!LogoutOk
<1>7. CASE \E v \in BOOLEAN : Loops!SetPaused(v)
  BY <1>7 DEF Loops!SetPaused, Loops!Wake, Loops!Routines
<1>8. CASE Loops!Shutdown
  BY <1>8 DEF Loops!Shutdown, Loops!Wake, Loops!Routines
<1> QED  BY <1>1, <1>2, <1>3, <1>4, <1>5, <1>6, <1>7, <1>8 DEF Loops!Next

(* Cancelling reaches every goroutine that has one of the contexts.        *)
LEMMA CancelKeeps ==
    ASSUME FlagTypes, NEW rs, Loops!Cancel(rs)
    PROVE  /\ cancelled' \in [Routines -> BOOLEAN]
           /\ \A r \in Routines :
                /\ cancelled[r] => cancelled'[r]
                /\ r \in rs /\ pc[r] \in HasContext => cancelled'[r]
BY Zenon DEF FlagTypes, Loops!Cancel, Loops!HasCtx, HasContext, Routines,
             Loops!Routines

(* The flags stay flags.                                                   *)
LEMMA FlagStep ==
    ASSUME FlagTypes, Loops!Next
    PROVE  FlagTypes'
<1> USE DEF FlagTypes, Loops!state, Loops!updates
<1>1. ASSUME NEW r \in Routines, Loops!TakeCtx(r) \/ Loops!DropCtx(r)
      PROVE  cancelled' \in [Routines -> BOOLEAN]
  BY <1>1, Zenon DEF Loops!TakeCtx, Loops!DropCtx
<1>2. ASSUME NEW rs, Loops!Cancel(rs)
      PROVE  cancelled' \in [Routines -> BOOLEAN]
  BY <1>2, CancelKeeps
<1>3. \A r \in Routines : r \in Loops!Routines  BY DEF Routines, Loops!Routines
<1>4. CASE \E r \in Loops!Routines : Loops!Turn(r)
  <2>1. PICK r \in Routines : Loops!Turn(r)
    BY <1>4 DEF Routines, Loops!Routines
  <2> QED  BY <1>1, <2>1 DEF Loops!Turn, Loops!WaitUnpause, Loops!Unpaused,
                          Loops!IdleEnds
<1>5. CASE Loops!Auth
  <2>1. "auth" \in Routines  BY DEF Routines
  <2> QED  BY <1>1, <1>2, <1>5, <2>1 DEF Loops!Auth, Loops!AuthRead,
         Loops!AuthBackOff, Loops!AuthUrl, Loops!AuthOk, Loops!RestartMap,
         Loops!RestartUpdates, Loops!UpdateControl
<1>6. CASE \E answer \in {"failed", "url", "ok"} : Loops!AuthAnswer(answer)
  BY <1>6 DEF Loops!AuthAnswer
<1>7. CASE Loops!Map \/ Loops!PollEnds
  <2>1. "map" \in Routines  BY DEF Routines
  <2> QED  BY <1>1, <1>7, <2>1 DEF Loops!Map, Loops!MapRead, Loops!MapEnded,
              Loops!MapBackOff, Loops!PollEnds
<1>8. CASE Loops!Update
  <2>1. "update" \in Routines  BY DEF Routines
  <2> QED  BY <1>1, <1>8, <2>1 DEF Loops!Update, Loops!UpdateRead,
              Loops!UpdateWoken, Loops!UpdateOk, Loops!UpdateFails
<1>9. CASE Loops!Signal \/ Loops!Change \/ Loops!LogoutFails
  BY <1>9 DEF Loops!Signal, Loops!Change, Loops!LogoutFails,
     Loops!UpdateControl
<1>10. CASE Loops!Login \/ Loops!LogoutOk \/ Loops!Shutdown
  BY <1>2, <1>10 DEF Loops!Login, Loops!LogoutOk, Loops!Shutdown
<1>11. CASE Loops!Logout
  <2>1. logout' \in BOOLEAN  BY <1>11, Zenon DEF Loops!Logout
  <2> QED  BY <1>11, <2>1 DEF Loops!Logout
<1>12. CASE \E v \in BOOLEAN : Loops!SetPaused(v)
  <2>1. PICK v \in BOOLEAN : Loops!SetPaused(v)  BY <1>12
  <2>2. paused' \in BOOLEAN  BY <2>1 DEF Loops!SetPaused
  <2>3. cancelled' \in [Routines -> BOOLEAN]
    BY <1>2, <2>1 DEF Loops!SetPaused
  <2> QED  BY <2>1, <2>2, <2>3 DEF Loops!SetPaused
<1> QED  BY <1>4, <1>5, <1>6, <1>7, <1>8, <1>9, <1>10, <1>11, <1>12
            DEF Loops!Next

(* The generations: what is recorded as sent had been read before.         *)
LEMMA GenerationStep ==
    ASSUME Generations, Loops!Next
    PROVE  Generations'
<1> USE DEF Generations, Loops!updates
<1>1. CASE Loops!UpdateControl
  BY <1>1 DEF Loops!UpdateControl
<1>2. CASE Loops!Update
  BY <1>2 DEF Loops!Update, Loops!UpdateRead, Loops!UpdateWoken,
     Loops!UpdateOk, Loops!UpdateFails
<1>3. CASE UNCHANGED <<gen, sending, informed, known>>
  BY <1>3
<1>4. Loops!UpdateControl \/ Loops!Update
      \/ UNCHANGED <<gen, sending, informed, known>>
  BY DEF Loops!Next, Loops!Turn, Loops!WaitUnpause, Loops!Unpaused,
     Loops!IdleEnds, Loops!Auth, Loops!AuthRead, Loops!AuthBackOff,
     Loops!AuthUrl, Loops!AuthOk, Loops!RestartMap, Loops!RestartUpdates,
     Loops!AuthAnswer, Loops!Map, Loops!MapRead, Loops!MapEnded,
     Loops!MapBackOff, Loops!PollEnds, Loops!Signal, Loops!Change,
     Loops!Login, Loops!Logout, Loops!LogoutFails, Loops!LogoutOk,
     Loops!SetPaused, Loops!Shutdown
<1> QED  BY <1>1, <1>2, <1>3, <1>4

(* The login goal and the bound.                                           *)
LEMMA RestStep ==
    ASSUME MaxCalls \in Nat, Rest, Loops!Next
    PROVE  Rest'
<1>1. goal' \in {goal, "none", "login", "url"}
  BY DEF Loops!Next, Loops!Turn, Loops!WaitUnpause, Loops!Unpaused,
     Loops!IdleEnds, Loops!Auth, Loops!AuthRead, Loops!AuthBackOff,
     Loops!AuthUrl, Loops!AuthOk, Loops!RestartMap, Loops!RestartUpdates,
     Loops!AuthAnswer, Loops!Map, Loops!MapRead, Loops!MapEnded,
     Loops!MapBackOff, Loops!PollEnds, Loops!Signal, Loops!Change,
     Loops!Login, Loops!Logout, Loops!LogoutFails, Loops!LogoutOk,
     Loops!SetPaused, Loops!Shutdown, Loops!state, Loops!Update,
     Loops!UpdateRead, Loops!UpdateWoken, Loops!UpdateOk, Loops!UpdateFails
<1>2. calls' = calls \/ (calls < MaxCalls /\ calls' = calls + 1)
  BY DEF Loops!Next, Loops!Turn, Loops!WaitUnpause, Loops!Unpaused,
     Loops!IdleEnds, Loops!Auth, Loops!AuthRead, Loops!AuthBackOff,
     Loops!AuthUrl, Loops!AuthOk, Loops!RestartMap, Loops!RestartUpdates,
     Loops!AuthAnswer, Loops!Map, Loops!MapRead, Loops!MapEnded,
     Loops!MapBackOff, Loops!PollEnds, Loops!Signal, Loops!Change,
     Loops!Login, Loops!Logout, Loops!LogoutFails, Loops!LogoutOk,
     Loops!SetPaused, Loops!Shutdown, Loops!Update, Loops!UpdateRead,
     Loops!UpdateWoken, Loops!UpdateOk, Loops!UpdateFails
<1> QED  BY <1>1, <1>2 DEF Rest

(* The waits of waitUnpause: SetPaused(false) and Shutdown release them.   *)
LEMMA PauseStep ==
    ASSUME PcTypes, PausesEnd, Loops!Next
    PROVE  PausesEnd'
<1> USE DEF PausesEnd, PcTypes, Routines, Loops!At, Loops!Go, Loops!state
<1>1. CASE \E r \in Loops!Routines : Loops!Turn(r)
  BY <1>1 DEF Loops!Turn, Loops!WaitUnpause, Loops!Unpaused,
     Loops!IdleEnds, Loops!Routines
<1>2. CASE Loops!Auth
  BY <1>2 DEF Loops!Auth, Loops!AuthRead, Loops!AuthBackOff,
     Loops!AuthUrl, Loops!AuthOk, Loops!RestartMap, Loops!RestartUpdates
<1>3. CASE \E answer \in {"failed", "url", "ok"} : Loops!AuthAnswer(answer)
  BY <1>3 DEF Loops!AuthAnswer
<1>4. CASE Loops!Map \/ Loops!PollEnds
  BY <1>4 DEF Loops!Map, Loops!MapRead, Loops!MapEnded,
     Loops!MapBackOff, Loops!PollEnds
<1>5. CASE Loops!Update
  BY <1>5 DEF Loops!Update, Loops!UpdateRead, Loops!UpdateWoken,
     Loops!UpdateOk, Loops!UpdateFails
<1>6. CASE Loops!Signal \/ Loops!Change \/ Loops!Login \/ Loops!Logout
           \/ Loops!LogoutFails \/ Loops!LogoutOk
  BY <1>6 DEF Loops!Signal, Loops!Change, Loops!Login, Loops!Logout,
     Loops!LogoutFails, Loops!LogoutOk
<1>7. CASE \E v \in BOOLEAN : Loops!SetPaused(v)
  BY <1>7 DEF Loops!SetPaused, Loops!Wake, Loops!Routines
<1>8. CASE Loops!Shutdown
  BY <1>8 DEF Loops!Shutdown, Loops!Wake, Loops!Routines
<1> QED  BY <1>1, <1>2, <1>3, <1>4, <1>5, <1>6, <1>7, <1>8 DEF Loops!Next

(* Shutdown cancels the contexts there are, and none is taken afterwards   *)
(* that is not cancelled.                                                  *)
LEMMA ContextStep ==
    ASSUME PcTypes, FlagTypes, ContextsEnd, Loops!Next
    PROVE  ContextsEnd'
<1> USE DEF ContextsEnd, PcTypes, FlagTypes, Routines, HasContext, Loops!At,
            Loops!Go, Loops!state, Loops!TakeCtx, Loops!DropCtx
<1>1. CASE \E r \in Loops!Routines : Loops!Turn(r)
  <2>1. PICK r \in Routines : Loops!Turn(r)  BY <1>1 DEF Loops!Routines
  <2>2. CASE Loops!WaitUnpause(r)  BY <2>2 DEF Loops!WaitUnpause
  <2>3. CASE Loops!Unpaused(r)  BY <2>3 DEF Loops!Unpaused
  <2>4. CASE Loops!IdleEnds(r)  BY <2>4 DEF Loops!IdleEnds
  <2> QED  BY <2>1, <2>2, <2>3, <2>4 DEF Loops!Turn
<1>2. CASE Loops!AuthRead \/ Loops!AuthBackOff \/ Loops!AuthUrl
           \/ Loops!AuthOk \/ Loops!RestartUpdates
  BY <1>2 DEF Loops!AuthRead, Loops!AuthBackOff, Loops!AuthUrl,
     Loops!AuthOk, Loops!RestartUpdates
<1>3. CASE \E answer \in {"failed", "url", "ok"} : Loops!AuthAnswer(answer)
  BY <1>3 DEF Loops!AuthAnswer
<1>4. CASE Loops!Map \/ Loops!PollEnds
  BY <1>4 DEF Loops!Map, Loops!MapRead, Loops!MapEnded,
     Loops!MapBackOff, Loops!PollEnds
<1>5. CASE Loops!Update
  BY <1>5 DEF Loops!Update, Loops!UpdateRead, Loops!UpdateWoken,
     Loops!UpdateOk, Loops!UpdateFails
<1>6. CASE Loops!Signal \/ Loops!Change \/ Loops!Logout \/ Loops!LogoutFails
  BY <1>6 DEF Loops!Signal, Loops!Change, Loops!Logout, Loops!LogoutFails
<1>7. CASE Loops!RestartMap \/ Loops!Login \/ Loops!LogoutOk
  <2>1. /\ \A r \in Routines : cancelled[r] => cancelled'[r]
        /\ closed' = closed
        /\ \A r \in Routines : pc'[r] \in HasContext => pc[r] \in HasContext
    BY <1>7, CancelKeeps
       DEF Loops!RestartMap, Loops!Login, Loops!LogoutOk
  <2> QED  BY <2>1
<1>8. CASE Loops!Shutdown
  <2>1. \A r \in Routines : pc[r] \in HasContext => cancelled'[r]
    BY <1>8, CancelKeeps DEF Loops!Shutdown, Loops!Routines
  <2>2. \A r \in Routines : pc'[r] \in HasContext => pc[r] \in HasContext
    BY <1>8 DEF Loops!Shutdown, Loops!Wake, Loops!Routines
  <2> QED  BY <2>1, <2>2
<1>9. CASE \E v \in BOOLEAN : Loops!SetPaused(v)
  BY <1>9 DEF Loops!SetPaused
<1> QED  BY <1>1, <1>2, <1>3, <1>4, <1>5, <1>6, <1>7, <1>8, <1>9
            DEF Loops!Next, Loops!Auth

(* A goroutine that waits for its context or for the channel has nothing   *)
(* to do, or what wakes it is on its way.                                  *)
LEMMA WakeStep ==
    ASSUME PcTypes, FlagTypes, AuthWakes, MapWakes, UpdateWakes, Loops!Next
    PROVE  AuthWakes' /\ MapWakes' /\ UpdateWakes'
<1> USE DEF AuthWakes, MapWakes, UpdateWakes, PcTypes, FlagTypes, Routines,
            Loops!At, Loops!Go, Loops!state, Loops!updates
<1>1. CASE \E r \in Loops!Routines : Loops!Turn(r)
  BY <1>1 DEF Loops!Turn, Loops!WaitUnpause, Loops!Unpaused,
     Loops!IdleEnds, Loops!Routines, Loops!DropCtx
<1>2. CASE Loops!AuthRead \/ Loops!AuthBackOff \/ Loops!AuthUrl
           \/ Loops!AuthOk
  BY <1>2 DEF Loops!AuthRead, Loops!AuthBackOff, Loops!AuthUrl,
     Loops!AuthOk, Loops!TakeCtx, Loops!DropCtx
<1>3. CASE Loops!RestartUpdates
  BY <1>3 DEF Loops!RestartUpdates, Loops!UpdateControl, Loops!DropCtx
<1>4. CASE Loops!RestartMap
  <2>1. /\ \A r \in Routines : cancelled[r] => cancelled'[r]
        /\ pc["map"] = "idle" => cancelled'["map"]
        /\ pc["update"] = "idle" => cancelled'["update"]
    BY <1>4, CancelKeeps DEF Loops!RestartMap, HasContext
  <2> QED  BY <1>4, <2>1 DEF Loops!RestartMap
<1>5. CASE \E answer \in {"failed", "url", "ok"} : Loops!AuthAnswer(answer)
  BY <1>5 DEF Loops!AuthAnswer
<1>6. CASE Loops!Map \/ Loops!PollEnds
  BY <1>6 DEF Loops!Map, Loops!MapRead, Loops!MapEnded,
     Loops!MapBackOff, Loops!PollEnds, Loops!TakeCtx, Loops!DropCtx
<1>7. CASE Loops!Update
  BY <1>7 DEF Loops!Update, Loops!UpdateRead, Loops!UpdateWoken,
     Loops!UpdateOk, Loops!UpdateFails, Loops!NeedUpdate, Loops!TakeCtx,
     Loops!DropCtx
<1>8. CASE Loops!Signal \/ Loops!Change \/ Loops!Logout \/ Loops!LogoutFails
  BY <1>8 DEF Loops!Signal, Loops!Change, Loops!UpdateControl, Loops!Logout,
     Loops!LogoutFails
<1>9. CASE Loops!Login
  <2>1. \A r \in Routines : /\ cancelled[r] => cancelled'[r]
                            /\ pc[r] = "idle" => cancelled'[r]
    BY <1>9, CancelKeeps DEF Loops!Login, Loops!Routines, HasContext
  <2> QED  BY <1>9, <2>1 DEF Loops!Login
<1>10. CASE Loops!LogoutOk
  <2>1. \A r \in Routines : cancelled[r] => cancelled'[r]
    BY <1>10, CancelKeeps DEF Loops!LogoutOk
  <2> QED  BY <1>10, <2>1 DEF Loops!LogoutOk
<1>11. CASE Loops!Shutdown \/ \E v \in BOOLEAN : Loops!SetPaused(v)
  <2>1. \A r \in Routines : cancelled[r] => cancelled'[r]
    BY <1>11, CancelKeeps DEF Loops!Shutdown, Loops!SetPaused
  <2>2. /\ \A r \in Routines : pc'[r] = "idle" => pc[r] = "idle"
        /\ pc["auth"] = "restart" => pc'["auth"] = "restart"
    BY <1>11 DEF Loops!Shutdown, Loops!SetPaused, Loops!Wake, Loops!Routines
  <2>3. UNCHANGED <<goal, loggedIn, gen, informed, signals, updateCh>>
    BY <1>11 DEF Loops!Shutdown, Loops!SetPaused
  <2> QED  BY <2>1, <2>2, <2>3
<1> QED  BY <1>1, <1>2, <1>3, <1>4, <1>5, <1>6, <1>7, <1>8, <1>9, <1>10, <1>11
            DEF Loops!Next, Loops!Auth

(* The invariant is inductive, ...                                         *)
LEMMA LoopsInductive ==
    ASSUME MaxCalls \in Nat, LoopsInv, [Loops!Next]_Loops!vars
    PROVE  LoopsInv'
<1>1. CASE Loops!Next
  BY <1>1, PcStep, FlagStep, GenerationStep, RestStep, PauseStep,
     ContextStep, WakeStep DEF LoopsInv
<1>2. CASE UNCHANGED Loops!vars
  BY <1>2 DEF LoopsInv, Loops!vars, Loops!state, Loops!updates, PcTypes,
     FlagTypes, Generations, Rest, PausesEnd, ContextsEnd, AuthWakes,
     MapWakes, UpdateWakes
<1> QED  BY <1>1, <1>2

(* ... holds at the start, ...                                             *)
LEMMA LoopsStart ==
    ASSUME MaxCalls \in Nat, Loops!Init
    PROVE  LoopsInv
<1> USE DEF Loops!Init, Routines, Loops!Routines
<1>1. PcTypes /\ PausesEnd /\ AuthWakes /\ MapWakes /\ UpdateWakes
  BY DEF PcTypes, Waits, PausesEnd, AuthWakes, MapWakes, UpdateWakes
<1>2. Generations /\ Rest  BY DEF Generations, Rest
<1>3. FlagTypes /\ ContextsEnd  BY DEF FlagTypes, ContextsEnd
<1> QED  BY <1>1, <1>2, <1>3 DEF LoopsInv

(* ... and therefore always.                                               *)
LEMMA LoopsInvariance == ASSUME MaxCalls \in Nat PROVE Loops!Spec => []LoopsInv
<1>1. Loops!Init => LoopsInv  BY LoopsStart
<1>2. LoopsInv /\ [Loops!Next]_Loops!vars => LoopsInv'  BY LoopsInductive
<1> QED  BY <1>1, <1>2, PTL DEF Loops!Spec

(* Every variable of the goroutines keeps its type, and a generation is    *)
(* recorded as informed only when the server has been told of it.          *)
THEOREM LoopsTyped ==
    ASSUME MaxCalls \in Nat
    PROVE  Loops!Spec => []Loops!TypeOK
<1>1. LoopsInv => Loops!TypeOK
  <2> SUFFICES ASSUME LoopsInv PROVE Loops!TypeOK  OBVIOUS
  <2>1. {paused, closed, loggedIn, signals, updateCh, logout} \subseteq BOOLEAN
    BY DEF LoopsInv, FlagTypes
  <2>2. cancelled \in [Loops!Routines -> BOOLEAN]
    BY DEF LoopsInv, FlagTypes, Routines, Loops!Routines
  <2>3. PcTypes /\ Generations /\ Rest  BY DEF LoopsInv
  <2> QED  BY <2>1, <2>2, <2>3 DEF Loops!TypeOK, PcTypes, Waits, Generations,
                                  Rest
<1> QED  BY <1>1, LoopsInvariance, PTL

(* No wake-up is lost: a goroutine of Auto that waits has nothing to do,   *)
(* or what wakes it is on its way.                                         *)
THEOREM NoWakeUpLost ==
    ASSUME MaxCalls \in Nat
    PROVE  Loops!Spec => []Loops!WakeUpPending
<1>1. LoopsInv => Loops!WakeUpPending
  BY DEF LoopsInv, AuthWakes, MapWakes, UpdateWakes, Loops!WakeUpPending,
     Loops!At, Loops!NeedUpdate
<1> QED  BY <1>1, LoopsInvariance, PTL

(* Shutdown leaves no goroutine of Auto waiting for anything but the lock, *)
(* a timer or the return of a cancelled request, and none ends before it.  *)
THEOREM ShutdownReleases ==
    ASSUME MaxCalls \in Nat
    PROVE  Loops!Spec => []Loops!ShutdownFrees
<1>1. LoopsInv => Loops!ShutdownFrees
  <2> SUFFICES ASSUME LoopsInv PROVE Loops!ShutdownFrees  OBVIOUS
  <2>1. PausesEnd /\ ContextsEnd  BY DEF LoopsInv
  <2> QED  BY <2>1 DEF PausesEnd, ContextsEnd, HasContext, Routines,
              Loops!ShutdownFrees, Loops!HasCtx, Loops!At, Loops!Routines
<1> QED  BY <1>1, LoopsInvariance, PTL

=============================================================================
