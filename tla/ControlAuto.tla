----------------------------- MODULE ControlAuto -----------------------------
(***************************************************************************)
(* The control client, control/controlclient/auto.go: its three goroutines *)
(* (authRoutine logs in, mapRoutine keeps the map poll, updateRoutine      *)
(* sends changes of the node) and the calls that steer them: Login,        *)
(* Logout, SetPaused, updateControl and Shutdown.  A step is what is done  *)
(* under one hold of c.mu, or one wait.  mapRoutine backs off while it     *)
(* holds c.mu, so nobody else takes the lock then.                         *)
(*                                                                         *)
(* A context matters to the one goroutine that has it: cancelled[r] says   *)
(* whether the one r took at the beginning of its turn is cancelled.  The  *)
(* statuses sent to the observer are left out, and with them inMapPoll.    *)
(***************************************************************************)
EXTENDS Naturals, FiniteSets

CONSTANTS
    MaxCalls  \* bound on the calls of Login, Logout, SetPaused and the setters

ASSUME ControlAutoAssumption ==
    MaxCalls \in Nat

VARIABLES
    paused, closed, loggedIn,
    goal,       \* loginGoal: "none", "login", or "url" (a page to visit)
    pc,         \* where the goroutines are
    cancelled,  \* whether the context a goroutine has taken is cancelled
    gen,        \* lastUpdateGen
    sent,       \* the gen that updateRoutine has read and is sending, or 0
    informed,   \* lastUpdateGenInformed
    known,      \* the latest change the server has been told of
    signals,    \* an updateControl that has not signalled yet
    updateCh,   \* whether the channel is full
    logout,     \* whether Logout is talking to the server
    calls

Routines == {"auth", "map", "update"}

state   == <<paused, closed, loggedIn, goal>>
updates == <<gen, sent, informed, known, signals, updateCh>>
vars    == <<state, pc, cancelled, updates, logout, calls>>

Locked == pc["map"] = "backoff"
At(r, p) == pc[r] = p
Go(r, p) == pc' = [pc EXCEPT ![r] = p]

(* The goroutine takes the current context, which is a cancelled one after *)
(* Shutdown, or has no more use for the one it took.                       *)
TakeCtx(r) == cancelled' = [cancelled EXCEPT ![r] = closed]
DropCtx(r) == cancelled' = [cancelled EXCEPT ![r] = FALSE]

HasCtx(r) == pc[r] \in {"idle", "request", "failed", "ended", "url", "ok", "restart", "bump"}

(* cancelAuthCtxLocked and cancelMapCtxLocked.                             *)
Cancel(rs) == cancelled' = [r \in Routines |->
                  cancelled[r] \/ (r \in rs /\ HasCtx(r))]

-----------------------------------------------------------------------------
(* waitUnpause, at the head of every turn.                                 *)
WaitUnpause(r) ==
    /\ At(r, "top") /\ ~Locked
    /\ Go(r, IF closed THEN "done" ELSE IF paused THEN "paused" ELSE "read")
    /\ UNCHANGED <<state, cancelled, updates, logout, calls>>

Unpaused(r) ==
    /\ pc[r] \in {"granted", "refused"}
    /\ Go(r, IF At(r, "granted") THEN "read" ELSE "done")
    /\ UNCHANGED <<state, cancelled, updates, logout, calls>>

(* A wait for the context only.                                            *)
IdleEnds(r) ==
    /\ At(r, "idle") /\ cancelled[r]
    /\ Go(r, "top") /\ DropCtx(r)
    /\ UNCHANGED <<state, updates, logout, calls>>

-----------------------------------------------------------------------------
(* authRoutine.                                                            *)

AuthRead ==
    /\ At("auth", "read") /\ ~Locked
    /\ TakeCtx("auth")
    /\ Go("auth", IF goal = "none" THEN "idle" ELSE "request")
    /\ UNCHANGED <<state, updates, logout, calls>>

(* TryLogin or WaitLoginURL returns: an error, a page to visit, or nil.    *)
AuthAnswer(answer) ==
    /\ At("auth", "request")
    /\ cancelled["auth"] => answer = "failed"
    /\ Go("auth", answer)
    /\ UNCHANGED <<state, cancelled, updates, logout, calls>>

(* The error is reported, and the routine backs off.                       *)
AuthBackOff ==
    /\ At("auth", "failed") /\ ~Locked
    /\ Go("auth", "top") /\ DropCtx("auth")
    /\ UNCHANGED <<state, updates, logout, calls>>

AuthUrl ==
    /\ At("auth", "url") /\ ~Locked
    /\ goal' = "url"
    /\ Go("auth", "top") /\ DropCtx("auth")
    /\ UNCHANGED <<paused, closed, loggedIn, updates, logout, calls>>

AuthOk ==
    /\ At("auth", "ok") /\ ~Locked
    /\ loggedIn' = TRUE
    /\ goal' = "none"
    /\ Go("auth", "restart")
    /\ UNCHANGED <<paused, closed, cancelled, updates, logout, calls>>

(* Mutant: restartMap sends an update only.                                *)
UpdateOnly ==
    /\ At("auth", "restart") /\ ~Locked
    /\ Go("auth", "bump")
    /\ UNCHANGED <<state, cancelled, updates, logout, calls>>

(* restartMap, ...                                                         *)
RestartMap ==
    /\ At("auth", "restart") /\ ~Locked
    /\ Cancel({"map", "update"})
    /\ Go("auth", "bump")
    /\ UNCHANGED <<state, updates, logout, calls>>

(* updateControl: the channel is signalled after c.mu has been released.   *)
UpdateControl ==
    /\ ~Locked
    /\ gen' = gen + 1
    /\ signals' = TRUE
    /\ UNCHANGED <<sent, informed, known, updateCh>>

(* ... and the updateControl it ends with.                                 *)
RestartUpdates ==
    /\ At("auth", "bump")
    /\ UpdateControl
    /\ Go("auth", "top") /\ DropCtx("auth")
    /\ UNCHANGED <<state, logout, calls>>

-----------------------------------------------------------------------------
(* mapRoutine.                                                             *)

MapRead ==
    /\ At("map", "read")
    /\ TakeCtx("map")
    /\ Go("map", IF loggedIn THEN "request" ELSE "idle")
    /\ UNCHANGED <<state, updates, logout, calls>>

(* PollNetMap returns, always with an error.                               *)
PollEnds ==
    /\ At("map", "request")
    /\ Go("map", "ended")
    /\ UNCHANGED <<state, cancelled, updates, logout, calls>>

(* With c.mu held: back off, unless it was paused or its context is done.  *)
MapEnded ==
    /\ At("map", "ended")
    /\ DropCtx("map")
    /\ Go("map", IF paused \/ cancelled["map"] THEN "top" ELSE "backoff")
    /\ UNCHANGED <<state, updates, logout, calls>>

MapBackOff ==
    /\ At("map", "backoff")
    /\ Go("map", "top")
    /\ UNCHANGED <<state, cancelled, updates, logout, calls>>

-----------------------------------------------------------------------------
(* updateRoutine.                                                          *)

NeedUpdate == gen > 0 /\ gen # informed /\ loggedIn

UpdateRead ==
    /\ At("update", "read") /\ ~Locked
    /\ TakeCtx("update")
    /\ sent' = IF NeedUpdate THEN gen ELSE 0
    /\ Go("update", IF NeedUpdate THEN "request" ELSE "idle")
    /\ UNCHANGED <<state, gen, informed, known, signals, updateCh, logout, calls>>

UpdateWoken ==
    /\ At("update", "idle") /\ updateCh
    /\ updateCh' = FALSE
    /\ Go("update", "top") /\ DropCtx("update")
    /\ UNCHANGED <<state, gen, sent, informed, known, signals, logout, calls>>

(* Mutant: what came during the request is taken for sent.                 *)
InformedOfAll ==
    /\ At("update", "request") /\ ~cancelled["update"]
    /\ known' \in sent..gen
    /\ informed' = gen /\ sent' = 0
    /\ Go("update", "top") /\ DropCtx("update")
    /\ UNCHANGED <<state, gen, signals, updateCh, logout, calls>>

(* SendUpdate sends what it finds, which may be newer than what was read.  *)
UpdateOk ==
    /\ At("update", "request") /\ ~cancelled["update"]
    /\ known' \in sent..gen
    /\ informed' = sent /\ sent' = 0
    /\ Go("update", "top") /\ DropCtx("update")
    /\ UNCHANGED <<state, gen, signals, updateCh, logout, calls>>

(* It fails, and the routine backs off.                                    *)
UpdateFails ==
    /\ At("update", "request")
    /\ sent' = 0
    /\ Go("update", "top") /\ DropCtx("update")
    /\ UNCHANGED <<state, gen, informed, known, signals, updateCh, logout, calls>>

Signal ==
    /\ signals
    /\ signals' = FALSE
    /\ updateCh' = TRUE
    /\ UNCHANGED <<state, pc, cancelled, gen, sent, informed, known, logout, calls>>

-----------------------------------------------------------------------------
(* The calls.                                                              *)

(* SetHostinfo, SetNetInfo, SetTKAHead, UpdateEndpoints, ...               *)
Change ==
    /\ calls < MaxCalls
    /\ calls' = calls + 1
    /\ UpdateControl
    /\ UNCHANGED <<state, pc, cancelled, logout>>

Login ==
    /\ calls < MaxCalls /\ ~Locked /\ ~closed
    /\ calls' = calls + 1
    /\ goal' = "login"
    /\ Cancel(Routines)
    /\ UNCHANGED <<paused, closed, loggedIn, pc, updates, logout>>

(* Logout, until it talks to the server, and when the server has answered. *)
Logout ==
    /\ calls < MaxCalls /\ ~Locked /\ ~logout
    /\ calls' = calls + 1
    /\ goal' = "none"
    /\ logout' = ~closed
    /\ UNCHANGED <<paused, closed, loggedIn, pc, cancelled, updates>>

LogoutFails ==
    /\ logout
    /\ logout' = FALSE
    /\ UNCHANGED <<state, pc, cancelled, updates, calls>>

LogoutOk ==
    /\ logout /\ ~Locked
    /\ logout' = FALSE
    /\ loggedIn' = FALSE
    /\ Cancel(Routines)
    /\ UNCHANGED <<paused, closed, goal, pc, updates, calls>>

Wake(word) == pc' = [r \in Routines |-> IF At(r, "paused") THEN word ELSE pc[r]]

SetPaused(v) ==
    /\ calls < MaxCalls /\ ~Locked
    /\ v # paused /\ ~closed
    /\ calls' = calls + 1
    /\ paused' = v
    /\ IF v THEN Cancel(Routines) /\ UNCHANGED pc
            ELSE Wake("granted") /\ UNCHANGED cancelled
    /\ UNCHANGED <<closed, loggedIn, goal, updates, logout>>

(* Mutant: a paused client is left to SetPaused.                           *)
WaitersStay ==
    /\ ~Locked /\ ~closed
    /\ closed' = TRUE
    /\ Cancel(Routines)
    /\ UNCHANGED <<paused, loggedIn, goal, pc, updates, logout, calls>>

(* Shutdown, which then waits for the three goroutines.                    *)
Shutdown ==
    /\ ~Locked /\ ~closed
    /\ closed' = TRUE
    /\ Cancel(Routines)
    /\ Wake("refused")
    /\ UNCHANGED <<paused, loggedIn, goal, updates, logout, calls>>

-----------------------------------------------------------------------------
(* New, with StartPaused or without.                                       *)
Init ==
    /\ paused \in BOOLEAN /\ closed = FALSE /\ loggedIn = FALSE
    /\ goal = "none"
    /\ pc = [r \in Routines |-> "top"]
    /\ cancelled = [r \in Routines |-> FALSE]
    /\ gen = 0 /\ sent = 0 /\ informed = 0 /\ known = 0
    /\ signals = FALSE /\ updateCh = FALSE
    /\ logout = FALSE
    /\ calls = 0

Turn(r) == WaitUnpause(r) \/ Unpaused(r) \/ IdleEnds(r)
Auth == AuthRead \/ AuthBackOff \/ AuthUrl \/ AuthOk \/ RestartMap \/ RestartUpdates
Map == MapRead \/ MapEnded \/ MapBackOff
Update == UpdateRead \/ UpdateWoken \/ UpdateOk \/ UpdateFails

Next ==
    \/ \E r \in Routines : Turn(r)
    \/ Auth \/ \E answer \in {"failed", "url", "ok"} : AuthAnswer(answer)
    \/ Map \/ PollEnds
    \/ Update \/ Signal
    \/ Change \/ Login \/ Logout \/ LogoutFails \/ LogoutOk
    \/ \E v \in BOOLEAN : SetPaused(v)
    \/ Shutdown

Spec == Init /\ [][Next]_vars

(* Goroutines are scheduled and get c.mu in the end, timers fire, requests *)
(* of a cancelled context return, and a server that is asked again and     *)
(* again takes an update.                                                  *)
AuthRuns   == Turn("auth") \/ Auth \/ (cancelled["auth"] /\ AuthAnswer("failed"))
MapRuns    == Turn("map") \/ Map \/ (cancelled["map"] /\ PollEnds)
UpdateRuns == Turn("update") \/ UpdateRead \/ UpdateWoken
              \/ (cancelled["update"] /\ UpdateFails)

FairSpec ==
    /\ Spec
    /\ SF_vars(AuthRuns) /\ WF_vars(MapRuns) /\ SF_vars(UpdateRuns)
    /\ SF_vars(UpdateOk) /\ WF_vars(Signal)

-----------------------------------------------------------------------------
TypeOK ==
    /\ {paused, closed, loggedIn, signals, updateCh, logout} \subseteq BOOLEAN
    /\ goal \in {"none", "login", "url"}
    /\ pc["auth"] \in {"top", "paused", "granted", "refused", "read", "idle",
                       "request", "failed", "url", "ok", "restart", "bump", "done"}
    /\ pc["map"] \in {"top", "paused", "granted", "refused", "read", "idle",
                      "request", "ended", "backoff", "done"}
    /\ pc["update"] \in {"top", "paused", "granted", "refused", "read", "idle",
                         "request", "done"}
    /\ cancelled \in [Routines -> BOOLEAN]
    /\ gen \in Nat /\ known \in 0..gen
    /\ sent \in 0..gen /\ informed \in 0..known
    /\ calls \in 0..MaxCalls

(* No wake-up is lost between the lock, the contexts and the channel: a    *)
(* client that stays logged in and unpaused polls the map again and again  *)
(* and tells the server of the last change, and a goal that stays is tried *)
(* again and again.                                                        *)
RoutinesServe ==
    /\ <>[](loggedIn /\ ~paused /\ ~closed)
         => []<>At("map", "request") /\ <>[](known = gen)
    /\ <>[](goal # "none" /\ ~paused /\ ~closed) => []<>At("auth", "request")

(* Shutdown returns, wherever the goroutines were waiting: the three are   *)
(* always brought to their end.                                            *)
ShutdownReturns == closed ~> \A r \in Routines : At(r, "done")

(* What the two rest on, without fairness.  A goroutine that waits for its *)
(* context or the channel has nothing to do, or what wakes it is on its    *)
(* way, be it in the middle of a login that has not reached restartMap.    *)
WakeUpPending ==
    /\ At("auth", "idle") => goal = "none" \/ cancelled["auth"]
    /\ At("map", "idle") =>
        ~loggedIn \/ cancelled["map"] \/ At("auth", "restart")
    /\ At("update", "idle") =>
        \/ ~NeedUpdate
        \/ signals \/ updateCh \/ cancelled["update"] \/ At("auth", "restart")

(* Shutdown frees every goroutine, no pause outlives it, and none ends     *)
(* without it.                                                             *)
ShutdownFrees ==
    /\ closed => \A r \in Routines : HasCtx(r) => cancelled[r]
    /\ \A r \in Routines : At(r, "paused") => paused /\ ~closed
    /\ \A r \in Routines : pc[r] \in {"refused", "done"} => closed

=============================================================================
