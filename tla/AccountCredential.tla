-------------------------- MODULE AccountCredential --------------------------
(***************************************************************************)
(* The account credential the daemon keeps in memory                       *)
(* (internal/accountauth) and everything that fills, clears and uses it:   *)
(* the password handlers of ipn/localapi, the backend operations that      *)
(* choose a control server (ipn/ipnlocal: Start, profile changes, Logout,  *)
(* ResetAuth, EditPrefs) and the control clients that attach it to their   *)
(* map requests (control/controlclient).                                   *)
(*                                                                         *)
(* The credential has a lock of its own, so its operations interleave with *)
(* backend operations that hold b.mu (`starting` says that one does).      *)
(* Control URLs stand for their canonical form (canonicalControlURL).      *)
(* One client at a time asks for backend operations; any number of         *)
(* password handlers run beside it.                                        *)
(***************************************************************************)
EXTENDS Naturals, FiniteSets

CONSTANTS
    Servers,      \* control URLs
    Default,      \* the control URL of a profile that names none
    NoURL,        \* the empty control URL; also: no control client
    Handlers,     \* concurrent password-authentication requests
    MaxRequests,  \* bound on authentication requests
    MaxOps,       \* bound on backend operations
    EditURL,      \* may EditPrefs change the control URL of a running client?
    Linger        \* may a replaced control client still send map requests?

ASSUME CredentialAssumption ==
    /\ Default \in Servers
    /\ NoURL \notin Servers
    /\ MaxRequests \in Nat /\ MaxOps \in Nat
    /\ EditURL \in BOOLEAN /\ Linger \in BOOLEAN

VARIABLES
    requestID,  \* accountauth: current.requestID
    cred,       \* accountauth: the credential; origin and token are history
    lastClear,  \* history: requestID after the last Clear
    prefsURL,   \* ControlURL of the current profile's prefs
    ccURL,      \* server of b.cc, NoURL when there is none
    authURL,    \* server that issued the pending login URL b.authURL
    starting,   \* b.mu is held by a Start that has no new client yet
    lingering,  \* replaced control clients that are not shut down yet
    op,         \* what is left of the backend operation under way
    req,        \* the state of each password handler
    sent,       \* history: map requests that carried the credential
    edited,     \* history: has the control URL of the prefs changed and the
                \*   credential not been cleared (EditPrefs, a failed Start)?
    nops,       \* backend operations so far
    nreqs       \* authentication requests so far

storeVars   == <<requestID, cred, lastClear>>
backendVars == <<prefsURL, ccURL, authURL, starting, lingering>>
logVars     == <<sent, edited>>
vars        == <<requestID, cred, lastClear, prefsURL, ccURL, authURL,
                 starting, lingering, op, req, sent, edited, nops, nreqs>>

URLs == Servers \cup {NoURL}

NoCred  == [filed |-> NoURL, origin |-> NoURL, token |-> 0]
NoReq   == [at |-> "idle", auth |-> NoURL, url |-> NoURL, token |-> 0,
            origin |-> NoURL]
HandlerPoints == {"idle", "status", "session", "begun", "asked"}
OpPoints      == {"none", "upStart", "upLogin", "logoutReset", "finalClear"}
HandlerStates == [at : HandlerPoints, auth : URLs, url : URLs, token : Nat,
                  origin : URLs]
NoOp    == [at |-> "none", url |-> NoURL]

TypeOK ==
    /\ requestID \in Nat /\ lastClear \in Nat
    /\ cred \in [filed : URLs, origin : URLs, token : Nat]
    /\ prefsURL \in URLs /\ ccURL \in URLs /\ authURL \in URLs
    /\ starting \in BOOLEAN
    /\ lingering \subseteq Servers
    /\ op \in [at : OpPoints, url : URLs]
    /\ req \in [Handlers -> HandlerStates]
    /\ sent \subseteq [to : Servers, origin : URLs, current : BOOLEAN]
    /\ edited \in BOOLEAN
    /\ nops \in 0..MaxOps /\ nreqs \in 0..MaxRequests

(* ControlURLOrDefault.                                                    *)
OrDefault(url) == IF url = NoURL THEN Default ELSE url

(* A daemon that has started on its profile and holds no credential.       *)
Init ==
    /\ requestID = 0 /\ cred = NoCred /\ lastClear = 0
    /\ prefsURL \in URLs
    /\ ccURL = OrDefault(prefsURL)
    /\ authURL = NoURL
    /\ starting = FALSE /\ lingering = {}
    /\ op = NoOp
    /\ req = [h \in Handlers |-> NoReq]
    /\ sent = {} /\ edited = FALSE
    /\ nops = 0 /\ nreqs = 0

-----------------------------------------------------------------------------
(* internal/accountauth.                                                   *)

(* Mutant: clearing forgets the credential and leaves old tokens valid.    *)
ClearKeepsTokens ==
    /\ cred' = NoCred
    /\ requestID' = requestID
    /\ lastClear' = requestID

(* Clear: no credential, and every token issued before is worthless.       *)
Clear ==
    /\ cred' = NoCred
    /\ requestID' = requestID + 1
    /\ lastClear' = requestID + 1

(* BeginRequest: the token it issues invalidates every earlier one.        *)
BeginRequest(h) ==
    /\ requestID' = requestID + 1
    /\ req' = [req EXCEPT ![h] =
                 [@ EXCEPT !.at = "begun", !.token = requestID + 1]]
    /\ UNCHANGED <<cred, lastClear>>

(* Mutant: any issued token may store.                                     *)
SetForAnyRequest(r) ==
    /\ cred' = [filed |-> r.url, origin |-> r.origin, token |-> r.token]
    /\ requestID' = requestID + 1
    /\ UNCHANGED lastClear

(* SetIfCurrentRequest: a stale token leaves everything as it is.          *)
SetIfCurrentRequest(r) ==
    /\ IF r.token = requestID
       THEN /\ cred' = [filed |-> r.url, origin |-> r.origin,
                         token |-> r.token]
            /\ requestID' = requestID + 1
       ELSE UNCHANGED <<cred, requestID>>
    /\ UNCHANGED lastClear

(* Get: is there a credential for this control server?                     *)
Get(server) == cred.filed = server

-----------------------------------------------------------------------------
(* serveScaleTailAuthPassword.                                             *)

(* The handler reads the pending login URL under b.mu ...                  *)
ReadStatus(h) ==
    /\ req[h].at = "idle"
    /\ nreqs < MaxRequests
    /\ ~starting
    /\ nreqs' = nreqs + 1
    /\ req' = [req EXCEPT ![h].at = "status", ![h].auth = authURL]
    /\ UNCHANGED <<storeVars, backendVars, op, logVars, nops>>

(* ... and, under b.mu again, the control URL of the prefs.                *)
(* scaleTailPasswordAuthSession refuses an empty control URL and a login   *)
(* URL of another origin.                                                  *)
ReadSession(h) ==
    /\ req[h].at = "status"
    /\ ~starting
    /\ req' = [req EXCEPT ![h] =
                 IF prefsURL # NoURL /\ @.auth \in {NoURL, prefsURL}
                 THEN [@ EXCEPT !.at = "session", !.url = prefsURL]
                 ELSE NoReq]
    /\ UNCHANGED <<storeVars, backendVars, op, logVars, nops, nreqs>>

(* The handler takes its token; b.mu is not needed for it.                 *)
Begin(h) ==
    /\ req[h].at = "session"
    /\ BeginRequest(h)
    /\ UNCHANGED <<backendVars, op, logVars, nops, nreqs>>

(* DoNoiseRequest: the request goes to whichever client b.cc is now.       *)
Ask(h) ==
    /\ req[h].at = "begun"
    /\ ~starting
    /\ req' = [req EXCEPT ![h] =
                 IF ccURL = NoURL THEN NoReq
                 ELSE [@ EXCEPT !.at = "asked", !.origin = ccURL]]
    /\ UNCHANGED <<storeVars, backendVars, op, logVars, nops, nreqs>>

(* The server accepts the password.                                        *)
Accepted(h) ==
    /\ req[h].at = "asked"
    /\ SetIfCurrentRequest(req[h])
    /\ req' = [req EXCEPT ![h] = NoReq]
    /\ UNCHANGED <<backendVars, op, logVars, nops, nreqs>>

(* It does not, or cannot be reached.                                      *)
Rejected(h) ==
    /\ req[h].at = "asked"
    /\ req' = [req EXCEPT ![h] = NoReq]
    /\ UNCHANGED <<storeVars, backendVars, op, logVars, nops, nreqs>>

-----------------------------------------------------------------------------
(* Backend operations.  startLocked drops the client, stores the prefs,    *)
(* clears the credential if the control URL changed, and builds the new    *)
(* client, all under b.mu; password handlers may run in between.           *)

NewOp == op = NoOp /\ ~starting /\ nops < MaxOps /\ nops' = nops + 1

(* Mutant: the client that is not there is shut down too.                  *)
DropMissingClient(url, building) ==
    /\ prefsURL' = url
    /\ ccURL' = NoURL
    /\ authURL' = NoURL
    /\ starting' = building
    /\ lingering' = IF Linger THEN lingering \cup {ccURL} ELSE lingering

(* The first half of startLocked, resetControlClientLocked included.       *)
DropClient(url, building) ==
    /\ prefsURL' = url
    /\ ccURL' = NoURL
    /\ authURL' = NoURL
    /\ starting' = building
    /\ lingering' = IF Linger /\ ccURL # NoURL
                    THEN lingering \cup {ccURL} ELSE lingering

(* Mutant: a Start on another control server keeps the credential.         *)
KeepCredential(url) == UNCHANGED storeVars

ClearIfServerChanged(url) ==
    IF OrDefault(url) # OrDefault(prefsURL)
    THEN Clear ELSE UNCHANGED storeVars

(* startLocked without a machine key (initMachineKeyLocked fails): the     *)
(* prefs are stored and the client is gone, but the return comes before    *)
(* the comparison that clears.                                             *)
StartLockedFails(url) ==
    /\ DropClient(url, FALSE)
    /\ edited' = (edited \/ OrDefault(url) # OrDefault(prefsURL))
    /\ UNCHANGED <<storeVars, sent>>

(* Start with or without UpdatePrefs.                                      *)
Start(url) ==
    /\ NewOp
    /\ DropClient(url, TRUE)
    /\ ClearIfServerChanged(url)
    /\ UNCHANGED <<op, req, logVars, nreqs>>

StartFails(url) ==
    /\ NewOp
    /\ StartLockedFails(url)
    /\ UNCHANGED <<op, req, nreqs>>

(* SwitchProfile, NewProfile, DeleteProfile: the prefs of another profile, *)
(* then resetForProfileChangeLocked, which clears and starts.              *)
SwitchProfile(url) ==
    /\ NewOp
    /\ DropClient(url, TRUE)
    /\ Clear
    /\ UNCHANGED <<op, req, logVars, nreqs>>

(* The second half of startLocked: the client for the prefs' server, or an *)
(* error that leaves none.                                                 *)
BuildClient ==
    /\ starting
    /\ starting' = FALSE
    /\ ccURL' \in {OrDefault(prefsURL), NoURL}
    /\ UNCHANGED <<storeVars, prefsURL, authURL, lingering, op, req, logVars,
                   nops, nreqs>>

(* serveScaleTailUp: clear, start on the chosen server, and log in unless  *)
(* the node has a key.  Start may refuse (CheckPrefs, a forced update).    *)
UpClear(url) ==
    /\ NewOp
    /\ Clear
    /\ op' = [at |-> "upStart", url |-> url]
    /\ UNCHANGED <<backendVars, req, logVars, nreqs>>

UpStart ==
    /\ op.at = "upStart" /\ ~starting
    /\ DropClient(op.url, TRUE)
    /\ ClearIfServerChanged(op.url)
    /\ op' = [op EXCEPT !.at = "upLogin"]
    /\ UNCHANGED <<req, logVars, nops, nreqs>>

UpStartRefused ==
    /\ op.at = "upStart" /\ ~starting
    /\ op' = NoOp
    /\ UNCHANGED <<storeVars, backendVars, req, logVars, nops, nreqs>>

UpStartFails ==
    /\ op.at = "upStart" /\ ~starting
    /\ StartLockedFails(op.url)
    /\ op' = NoOp
    /\ UNCHANGED <<req, nops, nreqs>>

UpLogin(haveNodeKey) ==
    /\ op.at = "upLogin" /\ ~starting
    /\ IF haveNodeKey THEN UNCHANGED storeVars ELSE Clear
    /\ op' = NoOp
    /\ UNCHANGED <<backendVars, req, logVars, nops, nreqs>>

(* StartLoginInteractiveAs.                                                *)
StartLogin ==
    /\ NewOp
    /\ Clear
    /\ UNCHANGED <<backendVars, op, req, logVars, nreqs>>

(* Logout: clear, tell the control server, then delete the profile and     *)
(* reset; serveLogout clears once more.  A failed logout stops half way.   *)
Logout(haveNodeKey) ==
    /\ NewOp
    /\ Clear
    /\ op' = [at |-> IF haveNodeKey THEN "logoutReset" ELSE "finalClear",
              url |-> NoURL]
    /\ UNCHANGED <<backendVars, req, logVars, nreqs>>

LogoutReset ==
    /\ op.at = "logoutReset" /\ ~starting
    /\ DropClient(NoURL, TRUE)
    /\ Clear
    /\ op' = [op EXCEPT !.at = "finalClear"]
    /\ UNCHANGED <<req, logVars, nops, nreqs>>

LogoutFailed ==
    /\ op.at = "logoutReset"
    /\ op' = NoOp
    /\ UNCHANGED <<storeVars, backendVars, req, logVars, nops, nreqs>>

(* serveResetAuth: ResetAuth deletes every profile and resets.             *)
ResetAuth ==
    /\ NewOp
    /\ DropClient(NoURL, TRUE)
    /\ Clear
    /\ op' = [at |-> "finalClear", url |-> NoURL]
    /\ UNCHANGED <<req, logVars, nreqs>>

FinalClear ==
    /\ op.at = "finalClear" /\ ~starting
    /\ Clear
    /\ op' = NoOp
    /\ UNCHANGED <<backendVars, req, logVars, nops, nreqs>>

(* EditPrefs stores another control URL and keeps the running client.      *)
EditPrefs(url) ==
    /\ EditURL
    /\ NewOp
    /\ prefsURL' = url
    /\ edited' = TRUE
    /\ UNCHANGED <<storeVars, ccURL, authURL, starting, lingering, op, req,
                   sent, nreqs>>

-----------------------------------------------------------------------------
(* Control clients.                                                        *)

(* The server asks for a login, or the login is complete.                  *)
SetAuthURL(url) ==
    /\ ~starting /\ ccURL # NoURL
    /\ url \in {ccURL, NoURL} /\ url # authURL
    /\ authURL' = url
    /\ UNCHANGED <<storeVars, prefsURL, ccURL, starting, lingering, op, req,
                   logVars, nops, nreqs>>

(* A map request takes the credential along if Get hands it out.           *)
MapRequest(server) ==
    /\ server \in ({ccURL} \cup lingering) \ {NoURL}
    /\ Get(server)
    /\ sent' = sent \cup {[to |-> server, origin |-> cred.origin,
                           current |-> (server = ccURL)]}
    /\ UNCHANGED <<storeVars, backendVars, op, req, edited, nops, nreqs>>

(* Shutdown of a replaced client takes effect.                             *)
ClientStopped(server) ==
    /\ server \in lingering
    /\ lingering' = lingering \ {server}
    /\ UNCHANGED <<storeVars, prefsURL, ccURL, authURL, starting, op, req,
                   logVars, nops, nreqs>>

Password(h) ==
    ReadStatus(h) \/ ReadSession(h) \/ Begin(h) \/ Ask(h)
    \/ Accepted(h) \/ Rejected(h)

Operate ==
    \/ \E url \in URLs : \/ Start(url) \/ StartFails(url)
                         \/ SwitchProfile(url) \/ EditPrefs(url)
    \/ \E url \in Servers : UpClear(url)
    \/ \E haveNodeKey \in BOOLEAN : UpLogin(haveNodeKey) \/ Logout(haveNodeKey)
    \/ UpStart \/ UpStartRefused \/ UpStartFails \/ StartLogin \/ LogoutReset
    \/ LogoutFailed \/ ResetAuth \/ FinalClear \/ BuildClient

Client ==
    \/ \E url \in URLs : SetAuthURL(url)
    \/ \E server \in Servers : MapRequest(server) \/ ClientStopped(server)

Next == (\E h \in Handlers : Password(h)) \/ Operate \/ Client

Spec == Init /\ [][Next]_vars

-----------------------------------------------------------------------------
(* Properties.                                                             *)

(* No credential outlives a Clear: a password handler that began before a  *)
(* logout, a profile switch or a change of server cannot bring one back,   *)
(* however late its answer arrives.                                        *)
NoCredentialOutlivesClear == cred # NoCred => cred.token > lastClear

(* The latest started request is authoritative, regardless of the order in *)
(* which the answers arrive: a stored credential is only ever replaced by  *)
(* one whose request was begun later.                                      *)
LatestRequestWins ==
    [][cred # NoCred /\ cred' # cred /\ cred' # NoCred
         => cred'.token > cred.token]_vars

(* The map requests of the current client carry the credential only to the *)
(* server that has authenticated it (the comment on serveScaleTailUp's     *)
(* Clear), as long as the control URL of the prefs has not been changed by *)
(* EditPrefs or by a Start that failed before it could clear.              *)
SentOnlyToOrigin ==
    edited \/ \A m \in sent : m.current => m.to = m.origin

=============================================================================
