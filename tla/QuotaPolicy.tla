----------------------------- MODULE QuotaPolicy -----------------------------
(***************************************************************************)
(* The traffic policy of the desktop client: the poll of telemetry.ts that *)
(* reports traffic, fetches the policy of the account and has the daemon   *)
(* apply it, its local quota guard, and the queue of its traffic shaper    *)
(* requests; the account operations of index.ts that reset all this; and   *)
(* the daemon's side: the LocalAPI handler of ipn/localapi/                *)
(* traffic_shaper.go and the clear of ipn/ipnlocal/local.go when the       *)
(* network stops.                                                          *)
(*                                                                         *)
(* The client runs on one thread, so its code between two awaits is one    *)
(* step.  Upload and download are alike: one rate stands for both, 0 for   *)
(* no limit.  A request that the client gives up after its time limit may  *)
(* still be handled by the daemon.  The report configuration is fixed in   *)
(* the source with everything enabled, so there is no disabled branch.     *)
(***************************************************************************)
EXTENDS Integers, Sequences, FiniteSets

CONSTANTS
    Policies,      \* the policies the server may give
    ThrottleRate,  \* quotaThrottleBitsPerSecond
    MaxResets,     \* bound on policyEpoch
    MaxTraffic,    \* bound on the bytes of one session
    MaxChanges,    \* bound on the changes of the server's policy
    MaxFaults,     \* bound on the requests that fail or take too long
    MaxToggles     \* bound on the use of the command line to stop and start

Actions == {"alert", "throttle", "block"}

ASSUME QuotaAssumption ==
    /\ Policies \subseteq [rate : Nat, quota : Nat, month : Nat, action : Actions]
    /\ Policies # {}
    /\ ThrottleRate \in Nat \ {0}
    /\ MaxResets \in Nat /\ MaxTraffic \in Nat /\ MaxChanges \in Nat
    /\ MaxFaults \in Nat /\ MaxToggles \in Nat

VARIABLES
    epoch,     \* policyEpoch
    guard,     \* quotaGuard, or NoGuard
    poll,      \* collectAndReport: where it awaits, and its locals
    queue,     \* trafficShaperQueue: the requests, the first of them in turn
    posted,    \* whether the first one has been sent to the daemon
    timerOn,   \* whether the reporter's timer runs
    op,        \* the account operation under way
    forced,    \* latestInfo.forced: an update is required
    intent,    \* whether to start the network when it no longer is
    want,      \* WantRunning
    loggedIn,  \* whether the daemon has an account
    shaper,    \* the rate in force, and the epoch it was requested in
    calls,     \* the requests the daemon handles
    traffic,   \* the bytes of all peers since the network started
    server,    \* the policy the server gives at the moment
    missed,    \* history: since the reset a request failed or ran out of time
    changes, faults, toggles

update == <<forced, intent>>
client == <<epoch, guard, poll, queue, posted, timerOn, op, update>>
daemon == <<want, loggedIn, shaper, calls, traffic>>
bounds == <<changes, faults, toggles>>
vars == <<client, daemon, server, missed, bounds>>

Running == want /\ loggedIn

NoGuard  == [quota |-> 0, month |-> 0, base |-> 0, rate |-> 0,
             action |-> "alert"]
Guards   == [quota : Nat, month : Nat, base : Nat, rate : Nat,
             action : Actions]
Requests == [rate : Nat, exceeded : BOOLEAN, action : Actions, epoch : Nat,
             from : {"reset", "guard", "policy"}]

(* emptyTrafficShaperRequest.                                              *)
Empty(e) == [rate |-> 0, exceeded |-> FALSE, action |-> "alert", epoch |-> e,
             from |-> "reset"]

Exceeded(quota, month) == quota > 0 /\ month > quota

(* What applyPolicy asks for.                                              *)
Request(p, exceeded, e, from) ==
    [rate |-> p.rate, exceeded |-> exceeded, action |-> p.action,
     epoch |-> e, from |-> from]

(* updateQuotaGuard.                                                       *)
GuardOf(p, bytes) ==
    IF p.quota = 0 THEN NoGuard
    ELSE [quota |-> p.quota, month |-> p.month, base |-> bytes,
          rate |-> p.rate, action |-> p.action]

(* The test of enforceLocalQuotaGuard.                                     *)
Tripped(g, bytes) ==
    Exceeded(g.quota, g.month + (IF bytes > g.base THEN bytes - g.base ELSE 0))

-----------------------------------------------------------------------------
(* telemetry.ts: the poll.                                                 *)

Off == [pc |-> "off", epoch |-> 0, bytes |-> 0, policy |-> CHOOSE p \in Policies : TRUE]
Await(pc) == poll' = [poll EXCEPT !.pc = pc]

(* Mutant: it takes the number of the next epoch.                          *)
NextEpoch ==
    /\ timerOn /\ poll.pc = "off"
    /\ poll' = [Off EXCEPT !.pc = "status", !.epoch = epoch + 1]
    /\ UNCHANGED <<epoch, guard, queue, posted, timerOn, op, update, daemon, server,
                   missed, bounds>>

PollStart ==
    /\ timerOn /\ poll.pc = "off"
    /\ poll' = [Off EXCEPT !.pc = "status", !.epoch = epoch]
    /\ UNCHANGED <<epoch, guard, queue, posted, timerOn, op, update, daemon, server,
                   missed, bounds>>

GotStatus ==
    /\ poll.pc = "status"
    /\ IF Running
         THEN /\ poll' = [poll EXCEPT !.pc = "report", !.bytes = traffic]
              /\ UNCHANGED guard
         ELSE poll' = Off /\ guard' = NoGuard
    /\ UNCHANGED <<epoch, queue, posted, timerOn, op, update, daemon, server, missed,
                   bounds>>

(* getStatus or the report's other calls fail: the poll ends and the guard *)
(* is kept.                                                                *)
StatusFails ==
    /\ poll.pc = "status"
    /\ poll' = Off
    /\ UNCHANGED <<epoch, guard, queue, posted, timerOn, op, update, daemon, server,
                   missed, bounds>>

(* Mutant: the guard is left to the policy of the server.                  *)
NoLocalGuard ==
    /\ poll.pc = "report"
    /\ IF poll.epoch # epoch THEN poll' = Off ELSE Await("fetch")
    /\ UNCHANGED <<epoch, guard, queue, posted, timerOn, op, update, daemon, server,
                   missed, bounds>>

(* The traffic has been reported, or not; then the local guard.            *)
Reported ==
    /\ poll.pc = "report"
    /\ IF poll.epoch # epoch
         THEN poll' = Off /\ UNCHANGED queue
         ELSE IF Tripped(guard, poll.bytes)
         THEN /\ queue' = Append(queue, Request(guard, TRUE, epoch, "guard"))
              /\ Await("guard")
         ELSE Await("fetch") /\ UNCHANGED queue
    /\ UNCHANGED <<epoch, guard, posted, timerOn, op, update, daemon, server, missed,
                   bounds>>

Fetched ==
    /\ poll.pc = "fetch"
    /\ IF poll.epoch # epoch
         THEN poll' = Off /\ UNCHANGED queue
         ELSE /\ queue' = Append(queue, Request(server,
                             Exceeded(server.quota, server.month), epoch, "policy"))
              /\ poll' = [poll EXCEPT !.pc = "apply", !.policy = server]
    /\ UNCHANGED <<epoch, guard, posted, timerOn, op, update, daemon, server, missed,
                   bounds>>

FetchFails ==
    /\ poll.pc = "fetch"
    /\ poll' = Off
    /\ UNCHANGED <<epoch, guard, queue, posted, timerOn, op, update, daemon, server,
                   missed, bounds>>

(* The end of reportPolicyState, and of the poll.                          *)
PollEnd ==
    /\ poll.pc = "state"
    /\ poll' = Off
    /\ UNCHANGED <<epoch, guard, queue, posted, timerOn, op, update, daemon, server,
                   missed, bounds>>

-----------------------------------------------------------------------------
(* telemetry.ts: the queue of requests.                                    *)

(* The first request is over, and the poll that awaits it goes on: with an *)
(* answer or an error, or, if the request was too old to be sent, with     *)
(* undefined.                                                              *)
Resolve(answered) ==
    /\ queue' = Tail(queue)
    /\ posted' = FALSE
    /\ CASE Head(queue).from = "reset" -> UNCHANGED <<poll, guard>>
         [] Head(queue).from = "guard" ->
                Await(IF answered THEN "state" ELSE "fetch") /\ UNCHANGED guard
         [] Head(queue).from = "policy" /\ answered ->
                Await("state") /\ guard' = GuardOf(poll.policy, poll.bytes)
         [] OTHER -> poll' = Off /\ UNCHANGED guard

(* Its turn comes: it is sent unless the epoch has changed since.          *)
Skip ==
    /\ queue # << >> /\ ~posted
    /\ Head(queue).epoch # epoch
    /\ Resolve(FALSE)
    /\ UNCHANGED <<epoch, timerOn, op, update, daemon, server, missed, bounds>>

Send ==
    /\ queue # << >> /\ ~posted
    /\ Head(queue).epoch = epoch
    /\ posted' = TRUE
    /\ calls' = calls \union {[req |-> Head(queue), at |-> "received", late |-> FALSE]}
    /\ UNCHANGED <<epoch, guard, poll, queue, timerOn, op, update, want, loggedIn,
                   shaper, traffic, server, missed, bounds>>

(* The time limit of the request; the daemon may go on with it.            *)
TimeOut(c) ==
    /\ faults < MaxFaults
    /\ c \in calls /\ ~c.late
    /\ faults' = faults + 1
    /\ calls' = (calls \ {c}) \union {[c EXCEPT !.late = TRUE]}
    /\ missed' = TRUE
    /\ Resolve(TRUE)
    /\ UNCHANGED <<epoch, timerOn, op, update, want, loggedIn, shaper, traffic,
                   server, changes, toggles>>

(* Mutant: the limits in force are left alone.                             *)
ForgetOnly ==
    /\ epoch' = epoch + 1
    /\ guard' = NoGuard
    /\ missed' = (\E c \in calls : c.late)
    /\ UNCHANGED queue

(* resetTelemetryPolicyState.                                              *)
Reset ==
    /\ epoch' = epoch + 1
    /\ guard' = NoGuard
    /\ queue' = Append(queue, Empty(epoch'))
    /\ missed' = (\E c \in calls : c.late)

-----------------------------------------------------------------------------
(* The daemon.                                                             *)

NoLimit == [rate |-> 0, by |-> 0]

Finish(c) ==
    IF c.late THEN calls' = calls \ {c} /\ UNCHANGED <<queue, posted, poll, guard>>
              ELSE calls' = calls \ {c} /\ Resolve(TRUE)

(* quotaThrottleRate.                                                      *)
Throttled(rate) == IF rate = 0 \/ rate > ThrottleRate THEN ThrottleRate ELSE rate

Blocks(req) == req.exceeded /\ req.action = "block"

(* serveTrafficShaper, when it does not block.                             *)
SetShaper(c) ==
    /\ c \in calls /\ c.at = "received" /\ ~Blocks(c.req)
    /\ shaper' = [rate |-> IF c.req.exceeded /\ c.req.action = "throttle"
                             THEN Throttled(c.req.rate) ELSE c.req.rate,
                  by |-> c.req.epoch]
    /\ Finish(c)
    /\ UNCHANGED <<epoch, timerOn, op, update, want, loggedIn, traffic, server,
                   missed, bounds>>

(* The network is turned off: setPrefsLocked also clears the shaper, but   *)
(* EditPrefs does not get there if the prefs stay as they were.            *)
StopNetwork == want' = FALSE /\ shaper' = IF want THEN NoLimit ELSE shaper

(* When it blocks: EditPrefsAs, and then the second clear.                 *)
Block(c) ==
    /\ c \in calls /\ c.at = "received" /\ Blocks(c.req)
    /\ StopNetwork
    /\ calls' = (calls \ {c}) \union {[c EXCEPT !.at = "clearing"]}
    /\ UNCHANGED <<client, loggedIn, traffic, server, missed, bounds>>

Blocked(c) ==
    /\ c \in calls /\ c.at = "clearing"
    /\ shaper' = NoLimit
    /\ Finish(c)
    /\ UNCHANGED <<epoch, timerOn, op, update, want, loggedIn, traffic, server,
                   missed, bounds>>

(* The request never gets there, or EditPrefsAs fails.                     *)
CallFails(c) ==
    /\ faults < MaxFaults
    /\ c \in calls /\ c.at = "received"
    /\ faults' = faults + 1
    /\ missed' = (missed \/ c.req.epoch = epoch)
    /\ Finish(c)
    /\ UNCHANGED <<epoch, timerOn, op, update, want, loggedIn, shaper, traffic,
                   server, changes, toggles>>

Carry ==
    /\ Running /\ traffic < MaxTraffic
    /\ traffic' = traffic + 1
    /\ UNCHANGED <<client, want, loggedIn, shaper, calls, server, missed,
                   bounds>>

(* The network is turned on; a new start counts the traffic from zero.     *)
StartNetwork == want' = TRUE /\ traffic' = IF Running THEN traffic ELSE 0

(* `scaletail down' and `scaletail up', past the desktop client.           *)
Down ==
    /\ want /\ toggles < MaxToggles
    /\ toggles' = toggles + 1
    /\ StopNetwork
    /\ UNCHANGED <<client, loggedIn, calls, traffic, server, missed, changes,
                   faults>>

Up ==
    /\ ~want /\ loggedIn /\ ~forced /\ toggles < MaxToggles
    /\ toggles' = toggles + 1
    /\ StartNetwork
    /\ UNCHANGED <<client, loggedIn, shaper, calls, server, missed, changes,
                   faults>>

-----------------------------------------------------------------------------
(* index.ts: account operations, one at a time.                            *)

(* connect and restoreAccountCredential reset first, then start the        *)
(* network; that, or the login, may fail.                                  *)
Connect ==
    /\ op = "none" /\ ~forced /\ ~Running /\ epoch < MaxResets
    /\ Reset
    /\ op' = "connect"
    /\ UNCHANGED <<poll, posted, timerOn, update, daemon, server, bounds>>

Connected ==
    /\ op = "connect"
    /\ op' = "none"
    /\ \/ StartNetwork /\ loggedIn' \in {loggedIn, TRUE}
       \/ UNCHANGED <<want, traffic, loggedIn>>
    /\ UNCHANGED <<epoch, guard, poll, queue, posted, timerOn, update, shaper,
                   calls, server, missed, bounds>>

(* logout stops the network, if the daemon has an account and answers, and *)
(* resets in any case.                                                     *)
Logout ==
    /\ op = "none" /\ epoch < MaxResets
    /\ op' = "logout"
    /\ IF loggedIn
         THEN \/ want' = FALSE /\ shaper' = NoLimit /\ loggedIn' = FALSE
              \/ UNCHANGED <<want, shaper, loggedIn>>
         ELSE UNCHANGED <<want, shaper, loggedIn>>
    /\ UNCHANGED <<epoch, guard, poll, queue, posted, timerOn, update, calls,
                   traffic, server, missed, bounds>>

LoggedOut ==
    /\ op = "logout"
    /\ Reset
    /\ op' = "none"
    /\ UNCHANGED <<poll, posted, timerOn, update, daemon, server, bounds>>

(* A forced update: the intent is noted, the network is stopped, then the  *)
(* policy is reset and the timer stopped.                                  *)
Suspend ==
    /\ op = "none" /\ ~forced /\ epoch < MaxResets
    /\ forced' = TRUE /\ intent' = (intent \/ want)
    /\ op' = "suspend"
    /\ StopNetwork
    /\ UNCHANGED <<epoch, guard, poll, queue, posted, timerOn, loggedIn,
                   calls, traffic, server, missed, bounds>>

Suspended ==
    /\ op = "suspend"
    /\ Reset
    /\ op' = "none" /\ timerOn' = FALSE
    /\ UNCHANGED <<poll, posted, update, daemon, server, bounds>>

(* clearForcedUpdateState: the update is withdrawn.  Without the intent,   *)
(* or if no account is stored, that is all; else the network is started,   *)
(* ...                                                                     *)
Withdraw ==
    /\ op = "none" /\ (forced \/ intent) /\ epoch < MaxResets
    /\ forced' = FALSE
    /\ \/ intent /\ op' = "resume" /\ StartNetwork /\ UNCHANGED intent
       \/ intent' = FALSE /\ UNCHANGED <<op, want, traffic>>
    /\ UNCHANGED <<epoch, guard, poll, queue, posted, timerOn, loggedIn,
                   shaper, calls, server, missed, bounds>>

(* ... and after the authentication the reporter, and the intent is        *)
(* acknowledged; if that fails, it is tried again with the next check.     *)
Resumed ==
    /\ op = "resume"
    /\ Reset
    /\ op' = "none" /\ timerOn' = TRUE /\ intent' = FALSE
    /\ UNCHANGED <<poll, posted, forced, daemon, server, bounds>>

ResumeFails ==
    /\ op = "resume"
    /\ op' = "none"
    /\ UNCHANGED <<epoch, guard, poll, queue, posted, timerOn, update, daemon,
                   server, missed, bounds>>

NewPolicy ==
    /\ changes < MaxChanges
    /\ changes' = changes + 1
    /\ server' \in Policies \ {server}
    /\ UNCHANGED <<client, daemon, missed, faults, toggles>>

-----------------------------------------------------------------------------
Init ==
    /\ epoch = 0 /\ guard = NoGuard /\ poll = Off /\ queue = << >>
    /\ posted = FALSE /\ timerOn = TRUE /\ op = "none"
    /\ forced = FALSE /\ intent = FALSE
    /\ want = TRUE /\ loggedIn = TRUE /\ shaper = NoLimit /\ calls = {}
    /\ traffic = 0 /\ server \in Policies /\ missed = FALSE
    /\ changes = 0 /\ faults = 0 /\ toggles = 0

Poll == \/ PollStart \/ GotStatus \/ StatusFails \/ Reported
        \/ Fetched \/ FetchFails \/ PollEnd
Handle == \E c \in calls : SetShaper(c) \/ Block(c) \/ Blocked(c)
AccountStep == Connected \/ LoggedOut \/ Suspended \/ Resumed \/ ResumeFails

Next ==
    \/ Poll \/ Skip \/ Send \/ Handle
    \/ \E c \in calls : TimeOut(c) \/ CallFails(c)
    \/ Carry \/ Down \/ Up
    \/ Connect \/ Logout \/ Suspend \/ Withdraw \/ AccountStep
    \/ NewPolicy

Spec == Init /\ [][Next]_vars

(* The timer and every await of the client end, and the daemon handles     *)
(* what it is asked; polled again and again, it tells its status sometime. *)
(* Nothing is assumed of the server.                                       *)
FairSpec ==
    Spec /\ WF_vars(Poll) /\ SF_vars(GotStatus) /\ WF_vars(Skip) /\ WF_vars(Send)
         /\ WF_vars(Handle) /\ WF_vars(AccountStep)

-----------------------------------------------------------------------------
TypeOK ==
    /\ epoch \in 0..MaxResets /\ guard \in Guards
    /\ poll.pc \in {"off", "status", "report", "guard", "fetch", "apply", "state"}
    /\ poll.epoch \in 0..epoch /\ poll.bytes \in 0..MaxTraffic
    /\ poll.policy \in Policies
    /\ queue \in Seq(Requests) /\ posted \in BOOLEAN
    /\ timerOn \in BOOLEAN
    /\ op \in {"none", "connect", "logout", "suspend", "resume"}
    /\ forced \in BOOLEAN /\ intent \in BOOLEAN
    /\ want \in BOOLEAN /\ loggedIn \in BOOLEAN
    /\ shaper \in [rate : Nat, by : 0..epoch]
    /\ calls \subseteq [req : Requests, at : {"received", "clearing"}, late : BOOLEAN]
    /\ traffic \in 0..MaxTraffic /\ server \in Policies /\ missed \in BOOLEAN
    /\ changes \in 0..MaxChanges /\ faults \in 0..MaxFaults
    /\ toggles \in 0..MaxToggles

(* Limits do not survive a reset: once the requests are through, the rate  *)
(* in force was asked for since the last login, logout or update, however  *)
(* old the request that was on its way then.  A request that failed or ran *)
(* out of time voids this until the next reset.                            *)
LimitsAreCurrent ==
    queue = << >> /\ calls = {} /\ ~missed => shaper.rate = 0 \/ shaper.by = epoch

(* A quota that blocks is enforced by the guard alone: the network does    *)
(* not stay up even if the server is never reached again.                  *)
BlockDue == Tripped(guard, traffic) /\ guard.action = "block" /\ Running /\ timerOn

GuardEnforced == BlockDue ~> ~BlockDue

(* What GuardEnforced rests on: no await of the client is for an answer    *)
(* that nobody will give.  The request the poll awaits is in the queue,    *)
(* through every reset, and the daemon is at work on the one that is       *)
(* posted, whichever late ones it still handles beside it.                 *)
NoAwaitHangs ==
    /\ poll.pc \in {"guard", "apply"} =>
        \E i \in 1..Len(queue) :
            queue[i].from = IF poll.pc = "guard" THEN "guard" ELSE "policy"
    /\ posted => \E c \in calls : ~c.late /\ c.req = Head(queue)

(* README.md: reporting and the local quota guard are always enabled.      *)
(* Outside of an account operation, and with no resume due to be tried     *)
(* again, a network that runs is watched.                                  *)
AlwaysWatched == Running /\ op = "none" /\ ~intent => timerOn

=============================================================================
