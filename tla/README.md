# ScaleTail: TLA+ models, model checking and proofs

ScaleTail is a fork of the Tailscale client and daemon (v1.98) for a private
control plane. What it adds to upstream is what this project is about first: a
login with an account password over the Noise control channel, the unattended
rotation of that password on managed Linux hosts, signed update policies that
may stop the network, and bandwidth limits in the path of the tunnel. These
parts are young, concurrent or interruptible, and mostly reached by unit tests
one step at a time. Second come three cores inherited from upstream that the
fork runs as its own services and whose concurrency is just as hard to test:
the log pipeline, the control client's goroutines, and the DERP relay with its
mesh.

Paths below are relative to `src/`.

## 1. Inventory

### How the parts interact

```
 systemd timer             Electron window/tray (client/electron)
      |                          |   telemetry   client_update
      v                          v        |            |
 scaletail up  ---- LocalAPI (ipn/localapi): password, scaletail-up, prefs,
                     start, logout, traffic-shaper, update-*
                          |
                     LocalBackend (ipn/ipnlocal, b.mu): prefs, profiles,
                     update policy, control client
                      |            |                   |
          accountauth store   controlclient        net/tstun Wrapper
          (its own lock)      (Noise, map polls)   with TrafficShaper
                      \____________/                  (atomics, own locks)
                            |
                     control server: accounts, node map, policies

 all daemons: logtail over filch ---> log server
 cmd/derper: derpserver <--- mesh (derphttp watch loops) ---> derpserver
```

* The CLI and the desktop client reach the daemon only through LocalAPI. Its
  handlers run concurrently, and take `b.mu` for single calls, not for their
  whole duration.
* The account credential has a lock of its own (`internal/accountauth`). The
  password handlers fill it, backend operations clear it, and every map request
  of a control client reads it.
* The update policy lives in the daemon's state store; the desktop client has
  its own copy of the intent to resume and acknowledges it over LocalAPI.
* The shaper is read by the packet goroutines without any lock, and changed by
  LocalAPI handlers and by the backend when the network stops. The handlers get
  their limits from the desktop client's telemetry poll, through a queue that the
  client's account operations reset.
* The control client is three goroutines that share a lock, two contexts and a
  channel of one place; the backend starts, pauses and shuts it down.
* A DERP server tells the watchers of its mesh which keys are connected; the watch
  loop of each peer turns that into forwarders in its own server's map.

### Components, their state and what makes them correct

| component | state | operations | hard behaviour | correct if |
| --- | --- | --- | --- | --- |
| Managed password rotation (`cmd/scaletail/cli/account_password_rotation.go`) | the password file, its `.next` sibling, the account at the server | recover, authenticate, stage, change, promote | interruption between any two system calls; answers lost after the server has acted; late requests | the account's password is never lost; a success is committed; interruptions are recovered from |
| Account credential (`internal/accountauth`, handlers in `ipn/localapi`, `ipn/ipnlocal`, `control/controlclient`) | one credential, a request counter; control URL, control clients | begin, set, get, clear; start, up, switch profile, login, logout, reset, edit | late answers; change of server in the middle of an authentication; two URLs (prefs, running client) | nothing outlives a clear; the latest request wins; no credential crosses to another server |
| Forced update policy (`ipn/ipnlocal/scaletail_update.go`, `client/electron/src/main/client_update.ts`) | stored policy and resume intent, `WantRunning`, control client; the client's own flag | deliver, stop, acknowledge, boot; suspend, resume, install | crash between two writes; many ways to turn the network on; late acknowledgements; a daemon that refuses its own start | required means down; no rollback; the intent to resume is never lost; the resume goes through |
| Tunnel traffic shaper (`net/tstun/traffic_shaper.go`) | configuration, a limiter for each direction, counters, waiting goroutines | configure, clear, close; wait, count, drop | limiters replaced under waiting goroutines; close; batches above the burst; rates below a byte | the rate holds; nobody is left behind, spins or loses a batch |
| Telemetry and quota policy (`client/electron/src/main/telemetry.ts`, `ipn/localapi/traffic_shaper.go`) | policy epoch, queue of shaper requests, quota guard; rate in force, requests under way | poll, report, fetch, apply, guard, reset; block, throttle, set | answers of an old epoch after a reset; requests handled after the client has given them up; server out of reach | no limit of an earlier login outlives a reset; a blocking quota is enforced without the server; the network is always watched |
| Log pipeline (`logtail/logtail.go`, `logtail/filch/filch.go`) | two files with offsets, flush flag, timer, wake-up channel, uploader | write, rotate, read, upload, retry, shut down, reopen | rotation under the reader; wake-ups lost between flag and channel; restart with half-read files | lines leave in order; nothing waits for the next line; a shutdown ends |
| Control client loops (`control/controlclient/auto.go`) | login goal, paused, closed, contexts, update generations, one-place channel | login, logout, pause, change, shut down; the three goroutines | a call between a goroutine's read and its wait; a backoff that holds the lock | no wake-up is lost; the last change reaches the server; shutdown returns |
| DERP relay (`derp/derpserver/derpserver.go`, `derp/derphttp/mesh_client.go`, `cmd/derper/mesh.go`) | client sets with duplicates, gauges, watchers and their changes, `clientsMesh` | register, unregister, note activity, watch, send updates; add and remove forwarders | duplicates that come and go; a check without the lock; reconnects by another goroutine | sets and gauges match; watchers are in sync; forwarders follow the peers |
| Control key pin (`control/controlclient/direct.go`) | the Noise key of each `http://` origin | fetch, pin, compare, forget | logout and reconnect around a fetch | a pinned key is only replaced after it was forgotten |
| Desktop client (`client/electron/src/main/index.ts`) | operation queue, session, remembered account | login, logout, connect, quit | windows, timers and update flow interleave | one operation at a time; a logout is final (as far as QuotaPolicy and UpdatePolicy have it) |
| Upstream: state machine, magicsock, filter, DNS, tailnet lock, taildrop, natc | large | large | known upstream protocols | see the plan |

`PROJECT.json` lists all of them with their sources, and under "hazards" every
place found so far where this code can go wrong in a way a test would hardly
reach, with the properties that watch it.

## 2. Modules and how they correspond to the code

There are nine specifications, each with an `MC` module that gives TLC its
constants and with `.cfg` files. Each has a `Proofs` module, AccountCredential and
ControlAuto, the two of the control connection, a common one (`ControlProofs`). There are
two abstract specifications: LogStream, which LogTail implements, and PeerFeed, the
contract between two DERP servers, which DerpClients keeps and DerpMesh relies on.
`PROJECT.json` "map" has the lines of every definition. Names are those of the source
where TLA+ allows it.

### PasswordRotation

One step for each system call of `authenticateAccountWithPasswordRotation` that
changes the password file, the `.next` file or the account. `pc` is the program
point, `cur` and `next` are the local variables `password` and `next`; `file`,
`staged` and `server` survive an interruption, the rest does not. `Crash` may
strike at every point of `CrashPoints`. A staged file is absent, empty (created
and not yet written), torn or full, because `readManagedPasswordFile` tells
these apart. The server answers `ok`, `expired`, `invalid` or an error; a change
request may be applied and its answer lost, or refused. With `LateDelivery` a
request may even be applied after its run has gone. The retry loops collapse
into the answer that ends them: they change nothing locally.

### AccountCredential

`requestID`, `cred` and their operations are `internal/accountauth` itself.
`ReadStatus`, `ReadSession`, `Begin`, `Ask`, `Accepted` and `Rejected` are the
points of `serveScaleTailAuthPassword` between which others may run: the
status, the prefs' URL, the token, the choice of the control client, and the
answer. Backend operations that hold `b.mu` are one step, and those that let
it go in between (`UpClear` ... `UpLogin`, `Logout` ... `FinalClear`) are
several; `starting` says that `startLocked` has dropped the old client and not
yet built the new one, which map requests of a lingering client can see. A Start
whose machine key cannot be read (`StartFails`, `UpStartFails`) has dropped the client
and stored its URL, and returns before the Clear. One
operation is under way at a time, beside any number of password handlers.
`origin`, `token`, `lastClear`, `sent` and `edited` are history variables; `edited` says
that the URL of the prefs has changed without a Clear, by EditPrefs or such a Start.
A control URL stands for its canonical form; names and passwords are
not told apart.

### UpdatePolicy

`disk` is the state store, `mem` and the other daemon variables are lost by
`Crash`. `Deliver` is `RefreshScaleTailUpdatePolicy` and
`ApplyScaleTailUpdatePolicy` after the signature check; a forced policy is
applied in two writes, so `StopNetwork` is a step of its own, and a crash may
come between (`CrashWhileStopping`). The gates (`StartRefused`, `EditRefused`,
`Reconcile`) are operators that every path uses which turns the network on:
`EditPrefs`, `ScaleTailUp`, `ControlStatus` (a login that completes), `Connect`
(the desktop user's profile is loaded), `Boot` and the always-on policy.
The desktop client is `ui`: `CheckActive`, `Suspend`, `CheckCleared`,
`SetRunning`, `Authenticated` or `NoCredential`, `Ack`. `stopped` is history: the
network is off because of an update and nobody has set it since. So is `ui.lapsed`: an
acknowledgement may not mean that the network is on, since a forced policy and a further one
were delivered, by whatever way, within one resume, whose acknowledgement then speaks of the
wrong stop, or since no account was stored, so that the resume did nothing (`NoCredential`). It
ends with the first policy that finds the network not stopped.

### TrafficShaper

The pacers' atomics are `state` (the current limiter, 0 for nil) and `shut`.
`Configure` and `Close` hold `s.mu` over the swap and the cancellation of one
pacer and then of the other (`Begin`, then `Swap` and `CancelOld` twice), while
packets run between any two of these steps through the loop of `waitBytes`:
`Check`, `Load`, `Reserve`, then `Due` or `Cancelled`, and at the end `Count`
or `Drop` in the caller. `close` releases `s.mu` before it reaches the pacers,
but a Configure that comes then returns at once, so the two never mix.
The limiter is that of `golang.org/x/time/rate`, known from how it is used:
a bucket that a reservation may put into debt and that is refilled by `Tick`.
`earned`, `reserved` and `served` are history; `mark` is the position of a
chunk among all the bytes reserved from its limiter.

### QuotaPolicy

The composition of `telemetry.ts`, the account operations of `index.ts`, the
LocalAPI handler and the backend's clear. The client is one thread, so its code
between two awaits is one step: `PollStart`, `GotStatus`, `Reported`, `Fetched`
and `PollEnd` are the awaits of `collectAndReport`, `queue` and `posted` are
`trafficShaperQueue`. `calls` are the requests the daemon handles: `SetShaper`,
or `Block` and `Blocked` (a block stops the network and clears the limits in two
steps), or `CallFails`. `TimeOut` lets the client give a request up that the daemon
still has, and `StatusFails` ends a poll, with the guard as it was. `Connect`, `Logout` and `Suspend` with their second halves are the
serialized operations (`op`), `Withdraw`, `Resumed` and `ResumeFails` the end of
a forced update; `Down` and `Up` are the command line behind the client's back.
The shaper is one rate with the epoch in which it was asked for: what a change of
the rate means for packets is TrafficShaper.

### LogTail and LogStream

LogTail is `logtail.go` over `filch.go`. `file`, `newer`, `wOff`, `rOff` and `newly`
are the two files and their offsets and counters; a line is a number and sizes
count lines. `TryReadLine` rotates where the code does; a write that has to rotate is two
steps under `f.mu` (`WriteRotates`, `WriteRotated`), with room for a crash between them, and
`FilchNew` opens the files a restart left, at offset 0. The wake-ups keep the
code's order: `Write`, `SetTimer` or `FlushNow`, `ClearPending`, `SendWake`.
The uploader is `at`: `Drain`, `Woken`, `UploadOk` or `UploadFails`, `Retry`,
`AwaitEnds`. `StderrWrite` puts a raw line into the newer file without the lock. A
write to stderr that was under way when `dup2Stderr` redirected it (`moved`) may end after the
rotation (`StderrLate`): then it goes to the file that is being read, at the offset it
shares with the reader, so it replaces the next unread line and is itself never read. The
comment at `logtail/filch/filch.go:364-372` says that such writes may be dropped; that the
line under the offset is lost as well it does not say.

LogStream is the promise: a queue, a batch, and three ways to lose unread lines. An
overflow drops the oldest; lines left in the newer file by a restart are overwritten
by later ones (`risk`); and a raw line that comes late is lost, perhaps with the next to be
read (`Stray`). Such a line also makes the older file the one modified last, by which
`New` orders the files: after it, and until the next write or rotation (`mixed`), a restart may
have the two halves of the queue in the wrong order. The refinement maps the queue to the
unread lines of both files, and the lines at risk to what lies behind the write offset.

### DerpClients and DerpMesh

DerpClients is one server: `active`, `dup` and `isDup` are the client sets, `cur`,
`dupConns` and `dupKeys` the gauges. What holds `Server.mu` is one step;
`noteClientActivity` is two (`NoteFast`, `NoteActivity`), because its first check is
not under the lock. A watcher has `changes` (`peerStateChange`), a request not yet
made, the `token` in its channel, and a `sender` that writes other frames too;
`told` is what the watcher knows by what was written. A watcher also forwards packets; for a
key that is not connected `ForwardNotHere` starts a goroutine (`notices`) that hands
`sendLoop` a notice, a PeerGone frame outside the queue of changes (`WriteNotice`). It may come
after the key has connected again and that has been written: the watcher forgets a connected
key, and nothing repairs it while the connection stays. `noticed` is history: the keys
of which such a notice was the last the watcher received.

DerpMesh is the other side of that conversation: `clientsMesh` with its four kinds of
entry, and for each peer the loop of `RunWatchConnectionLoop` (`Recv`,
`RecvError`, `ClearOne`, `ClearDone`, `Handle`). Another goroutine of the client may
reconnect before the loop has seen the error, with the loop still reading the old
connection ("renewed") or not; `PeerNotHere` and `RecvNotice` are the late notices, for
which the loop removes the forwarder as for any PeerGone; `fresh` says that the connection generation differs from the one the loop
has recorded.

PeerFeed is what the two have in common: when the feed opens, every key there is, once;
then every change in order; nothing once it is shut; and notices about keys that were asked
for when they were not there, out of order. In both modules `Feed` is the
instance of it for one watcher, or one peer. For DerpClients the wire is
what `sendLoop` has in hand followed by the queue, so taking a batch, dropping a request
and finding the channel full are not seen; for DerpMesh it is `wire` itself.

### ControlAuto

`pc` has the program point of each of the three goroutines; a step is what happens
under one hold of `c.mu`, or one wait. `cancelled` tells of the context a
goroutine took at the beginning of its turn. `mapRoutine` backs off while it holds
`c.mu` (`Locked`). `gen`, `informed` and `sent` are the update generations, and `known`
is history: the last change the server has been told of.

### Cores of the liveness properties

Each module with a liveness property also states what that property rests on as a
state predicate: `WakeUpPending` (LogTail, ControlAuto), `ShutdownFrees`,
`NoneStranded`, `NoAwaitHangs`, `NoUpdateLost`, `LoopInSync` and `SettledMesh`. They say
that nobody waits for what will never come, whatever the fairness; section 4 proves them.

Properties, mutants and history variables are marked as such. An operator whose
comment begins with "Mutant" is a plausible error in the definition that follows it
and is used by nothing: replacing the definition by it must break the
property that `PROJECT.json` names.

## 3. Runs

| run | checks | states | shows |
| --- | --- | --- | --- |
| `rotation_recovery` | NoLockout, SuccessIsCommitted, FileFollowsServer, StagedBeforeChange, RecoveredUnlessEmpty | 9 thousand | three faults and three ageings anywhere never lose the password; the timer's runs recover, except from an empty `.next` file |
| `credential_store` | NoCredentialOutlivesClear, LatestRequestWins, SentOnlyToOrigin | 1.6 million | two handlers against two backend operations, some of which fail half-way; the tokens keep late answers out, and no map request of the running client crosses servers as long as every change of the prefs' URL comes with a Clear |
| `update_gates` | ForcedMeansDown, StoppedCanResume, NoRollback | 412 thousand | all four administrator settings; no path turns the network on while an update is required, and the intent is kept unless it lapses |
| `update_resume` | ResumeCompletes, DaemonServes | 66 thousand | without the always-on policy and without a crash between the two writes, the network itself comes back unless the intent lapses, and a restarted daemon comes to serve again |
| `update_boot` | DaemonServes, violated | | with always-on the restarted daemon refuses its own Start and exits, for ever |
| `shaper_waits` | WithinRate, CurrentIsLive, DropsOnlyWhenClosed, NoneLeftBehind, CloseDrains | 205 thousand | two goroutines against two changes and a close |
| `quota_limits` | LimitsAreCurrent, GuardEnforced | 1 million | polls, two resets, a fault and a stop and start by the command line in every order |
| `quota_watched` | AlwaysWatched, violated | | a forced update that is withdrawn without a resume leaves the reporter stopped for good |
| `log_stream` | ImplementsStream, LoggedLeaves, ShutdownEnds | 350 thousand | three lines, the last perhaps through stderr and late, a restart, a network change and a shutdown: LogTail implements LogStream, no wake-up is lost and a shutdown ends |
| `derp_clients` | SetsMatch, WatcherInSync, UpdatesArrive | 572 thousand | three connections of one key and a watcher that forwards packets; every change reaches it although requests are dropped |
| `derp_mesh` | MeshMatches, StickyForwarder, MeshConverges | 549 thousand | three peers, up to two messages on each wire, a break, two changes or late notices, beside local clients: the forwarders follow the peers, but for a key whose last message was a late notice |
| `control_routines` | RoutinesServe, ShutdownReturns | 139 thousand | three calls and a shutdown against every step of the three goroutines |

Each module's `TypeOK` is checked by one of its passing runs. The two violations are the
findings of `PROJECT.json`, each with the sentence of the documentation it disagrees with.

### Known limits the models reproduce

Here the code does less than its documentation, a comment or an assertion says, or than one
would wish. The properties of the runs make an exception of these cases by name, and say that
there is no other. A change of a constant, the named state, or one of the statements
EventuallyRecovered, WithdrawalRestores, OlderImmutable, ConsistencyCheck and WatcherKnows shows
it: these five are stated in the modules, TLC refutes each within the bounds of its module's
runs, and no run claims them. Most are noted at their hazard.

* Rotation: with `LateDelivery = TRUE`, NoLockout fails: a change request that is applied
  after the next run has discarded the staged password locks the account out. And
  RecoveredUnlessEmpty needs its exception: EventuallyRecovered fails, as an empty
  `.next` file is refused by every later run.
* Credential: `cred.filed # cred.origin` is reachable. A change of server
  between the read of the URL and the request files a credential under the wrong URL.
  SentOnlyToOrigin does not catch it by itself, nor what follows from `edited`: after an EditPrefs or
  a failed Start a credential of the old server may be filed under the new URL and sent
  there. It is about the running client; a replaced client that lingers may send once more
  what is stored for the URL of the prefs.
* Update: with `CrashWhileStopping = TRUE`, ResumeCompletes fails: after the restart there
  is no control client to authenticate with. `README.md:161` says that after a withdrawal the
  network is restored to its state before the update; WithdrawalRestores, which states it, fails
  in two ways, and both are what `ui.lapsed` excepts. Without a stored account
  `resumeNetworkAfterForcedUpdateUnlocked` warns and returns normally
  (`client/electron/src/main/index.ts:533-537`), the client acknowledges and the daemon forgets
  the intent: the network stays off. And a forced policy and its withdrawal within one
  resume, by LocalAPI and the refresh after a restart, have their intent cleared by the
  acknowledgement of that resume.
* Shaper: a batch that waits through a clear is added to the counters the clear has reset.
* Logs: after a restart the first lines are written over unread lines of the newer
  file, although the comment at `logtail/filch/filch.go:67` says they are appended to the
  end; LogStream calls them at risk, so ImplementsStream is not evidence for that comment. Nor is
  it for "f.older is guaranteed to be immutable" (`logtail/filch/filch.go:305`): OlderImmutable
  fails by a write to stderr that outlasts a rotation, and LogStream allows its consequences.
* DERP: `curClients` counts connections (`derp/derpserver/derpserver.go:785`), and the server's own
  ConsistencyCheck (line 2458, served by `cmd/derper/derper.go:266`) compares it with
  `len(s.clients)`, a count of keys: it fails as soon as a key is connected twice. SetsMatch says
  what each of the two is, and is not evidence for that check. The comments at lines 219-220 and
  271-273, by which the connections of a cloned key get no frames, describe the policy
  `disableFighters`.
* DERP: `derp/derp.go:101-106` says that a watcher gets a stream of what connects and
  disconnects, and `derp/derpserver/derpserver.go:1787` that `peerGone` is "not used by mesh
  peers". The notice that answers a forwarded packet for an absent key (line 1248, from its own
  goroutine, line 947) may be written after the key has come back, and the watcher removes
  the key for it (`derp/derphttp/mesh_client.go:166-178`): WatcherKnows fails, and the mesh lacks
  a forwarder of a connected key until that key connects anew or the connection breaks. So
  WatcherInSync, PeerFeed and MeshConverges make an exception of the keys in `noticed`.
* Quota: while a throttling or alerting guard is tripped the policy is not fetched,
  so a raised quota is seen only after a stop or a reset. LimitsAreCurrent excepts a request
  the client has given up and the daemon handles late (`missed`), does not tell which
  of two limits of one epoch is in force, and says nothing of the guard, which a poll of the
  old account may leave behind; GuardEnforced is about the block only.
* Control: a goroutine that has passed `waitUnpause` makes its request on the fresh
  context although the client was paused meanwhile.

### Bounds, and why they are enough

* Rotation: every event is an ageing, an expiry or a fault. Three of each allow a
  fault in the run, in the run that recovers from it, and in the run after that;
  the states a run leaves behind are exhausted by then (the proofs need no bound).
* Credential: two servers are what it takes to cross from one to the other; two
  handlers, two requests and two operations contain every pair of orders of a
  late answer against a clear. The handlers are symmetric; the run has no
  liveness property, so the symmetry is sound.
* Update: four revisions and three versions give force, withdraw, force again and
  a further update; two crashes allow one in the middle of the recovery of the
  other. The liveness run has three revisions, two versions and three crashes, and the
  violation needs one forced policy.
* Shaper: two changes give an old limiter, its replacement and the state in
  between; a batch of two bytes against a burst of one is cut into chunks that
  two different limiters may serve. The limits are none, one below a
  byte per second, and one that is cut off at the largest burst for one
  direction only. One second is enough to pay a debt; a second one multiplies the
  states without a new order of events.

* Quota: two resets give an old epoch, a current one and one in between for a
  request that is still under way; one byte is the difference between a quota that
  is kept and one that is exceeded; one fault is a request that is lost, refused or
  handled late. The three policies are a plain limit, a quota that blocks and one that
  throttles.
* Logs: `MaxFileSize = 0` makes every second write a candidate for a rotation, so three
  lines fill, rotate and overflow both files. Two logged lines are what the flush flag can
  lose one of; the third may come through stderr, in time or late, with both files filled, and
  a restart may follow. A raw line before a logged one, and so a file longer than the
  counters say, is left to StreamImplemented, which has no bound.
* DERP: three connections of one key are the least for which a dup set shrinks without
  vanishing; a history and a queue of two hold a change that arrives
  while another is written. Three peers are the least for which a multiForwarder outlives a
  removal (all three have this server's own key, so one break removes one of three forwarders);
  two messages give the wire an order, and a notice may overtake both; two changes are a key that
  comes and goes, one that comes after it was asked for, or the same key at two peers.
  Longer histories are left to the proofs.
* Control: three calls contain every pair of a change and its opposite around a
  third; the shutdown is on top.

Deadlock is checked where the system always has something to do. The
credential, shaper, quota, log and control runs end when their bounds are used up
and nobody calls, or when the component has been shut down.

### Fairness

* Rotation: `scaletail-account-login.timer` fires every six hours
  (`OnUnitActiveSec`) and a started run takes its steps (`WF(Run)`); the server
  handles what it receives (`WF(ServerChange)`). Faults are bounded, so in the end
  they stop.
* Update: the service manager restarts the daemon (`WF(Boot)`), a step under `b.mu`
  is finished (`WF(StopNetwork)`), the client checks every ten minutes and takes
  its steps (`WF` on each), and a stored credential that is tried again and
  again is accepted sometimes (`SF(Authenticated)`: a failing attempt disables the
  step, so weak fairness would not say it). Nothing is assumed of the user, of
  the server's policies or of crashes.
* Shaper: the goroutines are scheduled (`WF` on each packet's work and on the
  two steps of a change). Nothing is assumed of the time: `NoneLeftBehind` and
  `CloseDrains` hold even if no second ever passes, which is the point, since a
  slow limiter may make a packet wait for minutes.
* Quota: the timer fires, every await of the client ends (by its time limit if need
  be) and the daemon handles what it is asked (`WF` on the poll, the queue, the
  handler and the account operations). A `getStatus` that is asked again and again succeeds
  sometimes (`SF(GotStatus)`: each failure ends the poll). Nothing is assumed of the server.
* Logs: goroutines and timers run (`WF`); a server that can be reached takes an
  upload some day (`SF(UploadOk)`: each failure disables it), and the `select` of
  `drainBlock` ends when it is ready again and again (`SF(BlockEnds)`). LoggedLeaves assumes
  in its own statement that the network stays up.
* DERP: goroutines are scheduled and every write of `sendLoop` ends, as it has a
  deadline (`WF`); Go's `select` chooses at random among the ready cases, so one that is
  ready again and again is taken (`SF(TakeToken)`). The watch loop runs and connects
  again after its interval (`WF`); MeshConverges assumes that the
  connection stays.
* Control: the goroutines run. `authRoutine` and `updateRoutine` have to get a lock
  that `mapRoutine` takes again and again, and Go's mutex starves nobody (`SF`); a
  server that is asked again and again takes an update (`SF(UpdateOk)`). Nothing is assumed of
  logins or of a map poll, except that a cancelled request returns.

## 4. Proofs

`tlapm` proves the following for all values of the constants (within the
assumptions named in the modules, which only say that bounds are natural
numbers, that sets have the right elements, and that a nil message is no message).
Every safety property of a run is among them (TypeOK of ControlAuto as LoopsTyped),
and so are the safety cores of section 2. A core is what can be wrong in the code when
a wake-up is lost or a wait is left behind; the rest of the way to `~>` and `<>[]` is
the scheduling the fairness assumes, and stays with TLC.

* **Rotation** (`PasswordRotationProofs`): TypeCorrect, NeverLockedOut,
  SuccessCommits, FileOnlyFollowsServer, ChangeIsStaged; all but the first for
  `LateDelivery = FALSE`, which is necessary (section 3).
  `NoLockout` is not inductive: that discarding the staged file is safe depends on
  what the server said two steps before. `PointInv` says what each program point
  knows about the file, the staged file and the server, and `WireInv` that a request
  under way belongs to the run that awaits it.
* **Credential** (`ControlProofs`): TypeCorrect; ClearIsFinal and
  LatestWins from `TokenInv` (no token in use is above the counter, and a stored
  credential's token is below it, so a second use of a token is impossible);
  OnlyToOrigin from `OriginInv` (until EditPrefs or a failed Start changes a URL without a
  Clear, the running client, the stored credential and the answer still to be accepted all belong to the
  server of the prefs).
* **Control** (`ControlProofs`, as the instance `Loops` whose variable `sent` is called
  `sending`, since AccountCredential has a `sent` of its own): LoopsTyped, NoWakeUpLost,
  ShutdownReleases, for any number of calls. `LoopsInv` has the three kinds of
  idle wait (`AuthWakes`, `MapWakes`, `UpdateWakes`), each with all the places its
  wake-up may be in: the cancelled context, the signal about to be sent, the channel, or a login that has not
  reached `restartMap`. `PausesEnd` and `ContextsEnd` say that a pause does not outlive a shutdown
  and that a goroutine which still has a context finds it cancelled. `Generations`:
  `informed <= known <= gen`, because the generation sent was read from `gen`.
* **Update** (`UpdatePolicyProofs`): TypeCorrect, UpdateRequiredMeansDown and
  PolicyNeverRollsBack from `GateInv` (memory agrees with the disk once it is
  loaded, and the gate is closed); IntentSurvives from `IntentInv`: memory and disk agree on the user's
  `WantRunning`, the intent is saved before the network is stopped, and a resume
  under way during a new stop sees that an update is required, unless the intent has
  lapsed.
* **Shaper** (`TrafficShaperProofs`): TypeCorrect, RateKept, LimiterLive,
  LimitsHold, NoDrops. The invariant `IInv` has one part for each idea. `MadeInv`:
  the limiter a change is about to make is used by nobody. `CtlInv`: the one
  to be cancelled is not the current one. `ChunkInv`: a chunk fits the burst of
  the limiter it is asked of, even if that has been replaced. `RateInv`: tokens
  and reservations never exceed what was earned, and a waiter's debt covers the
  way to its mark. `ForceInv`: where a change has nothing left to do, state and configuration agree.
  Each action's effect is a lemma, and the parts are then preserved one by one.
  NobodyStranded is the core of NoneLeftBehind and CloseDrains: `HeldInv` says
  it already of a packet that has loaded a limiter and does not wait yet, since a swap may come
  between the two.
* **Quota** (`QuotaPolicyProofs`): TypeCorrect, NoLimitSurvives, AnswersFindPoll.
  `LimitsAreCurrent` speaks of a quiet moment; the invariant has to say what is under way
  until then. `QueueOrder`: the last request of the queue belongs to the current
  epoch. `CallsOrder`: a request the daemon handles is the first of the queue, or
  the client has given it up and that is noted. `Accounted`: a rate of an older
  epoch is noted, or a request is still to come. `PollAwaits`: the poll waits for
  at most one request, and that one is in the queue; this is AnswersFindPoll.
  AwaitsEnd, the core of GuardEnforced, adds `PostedInv`: of the requests the daemon
  handles for a posted one, one has not been given up.
* **Logs** (`LogTailProofs`): TypeCorrect, and StreamImplemented, the refinement: every
  step of LogTail is a step of LogStream or changes nothing in it; a crash between a rotation
  and its write is included, and so are writes to stderr that come late. An overflow keeps
  what LogStream says because of `Sizes` (the count of new lines is at most what was in the
  file when it was opened and what was written since, so the newer file is more than half
  full). A restart keeps the order because `New` goes by the file that was modified last, which
  is the newer unless the files are mixed; if they are, it exchanges the two parts of the queue
  (`Trade`, `RestTrade`). It repeats nothing because of
  `Distinct` (the files share no line). `CancelInv` makes a batch that is given up a
  `GiveUp`: uploads are cancelled only by a shutdown. The lemmas before that say
  what a write, a rotation, a read and a reopening do to the sequence of unread lines.
  NoWakeUpLost, the core of LoggedLeaves, follows from `WakeInv`: the flag is set only
  while the timer is armed, and a blocked uploader has a wake-up on its way or
  nothing but raw lines of stderr to read, which wake nobody in the code either.
* **DERP server** (`DerpClientsProofs`): ClientSetsMatch, WatchersInSync, HistoriesCover,
  TypeCorrect. `SetsMatch` needs a fact the code nowhere states, `HistoryOK`: at most one
  member of a dup set is missing from its `sendHistory`, and no two neighbours in it are
  equal, so that `removeClient` finds a successor when the active connection leaves. The
  gauges are cardinalities of sets of connections. `WatcherInSync` needs that one who is no
  watcher has nothing queued (`Silent`); what a watcher will know is stated by the last
  message about each key, so it follows from a single append or removal. Notices are in
  the model, so `told` is what the watcher knows: it never has a key too many, and lacks only
  keys in `noticed` of which nothing is under way.
  UpdatesUnderway, the core of UpdatesArrive, follows from `PendInv`: a queued change has
  a request about to be made, one in the channel or a sender that looks again,
  and only such a sender has a batch. FeedImplemented is the refinement of PeerFeed for
  every connection that may watch: `registerClient` is a Come, `unregisterClient` a Go or a
  Shut or unseen, `addWatcher` an Open, a written change a Deliver, a forwarded packet for an
  absent key an Ask, its answer a Notice, all else a stutter.
* **DERP mesh** (`DerpMeshProofs`): TypeCorrect, MapMatchesLoops, ForwarderIsSticky.
  `EntriesOK`: a multiForwarder has at least two forwarders and prefers one of them;
  with `MatchInv` (an entry's forwarders are the peers whose loop has the key), a key in the
  loop of a peer is in the map, so the panic of RemovePacketForwarder is never reached.
  Which forwarder is preferred next is `Max` and `CHOOSE` over the indices, whose
  facts are lemmas. LoopsInSync and MeshSettles are the core of MeshConverges. `FollowInv`: over
  any connection the loop will come to know the peer's keys, but for those a late notice
  took from it with nothing to follow, a connection the loop has not
  recorded yet still has a message to make it do so (the peer always has this server's own key),
  and one that replaced the connection under the loop is not recorded. FeedAssumed: the
  peer of the model is a PeerFeed and nothing more, so what MeshSettles takes for granted
  is what FeedImplemented shows of the server at the other end. This is a link by
  contract: the two servers are not composed in one specification.

Three limits of the provers shape the proofs. Induction over data is not available as a
rule, but a set of natural numbers that is not empty has a least element (`NatMin`, from the
library's WFMin): a least counterexample gives what is needed of the recursive function
`Trimmed`. Operators reached through `Stream!` are symbols of their own and
are bridged once (`SameOperators`). And Booleans beside arithmetic are kept in separate
steps.

Only model-checked: everything with fairness (RecoveredUnlessEmpty, ResumeCompletes,
DaemonServes, NoneLeftBehind, CloseDrains, GuardEnforced, LoggedLeaves, ShutdownEnds, UpdatesArrive,
MeshConverges, RoutinesServe, ShutdownReturns), since TLAPS proves no liveness, and the
violated properties. Only proved: the cores and PeerFeed are in no `.cfg`; the runs check the
liveness properties they are the core of.

## 5. Not modelled, and why

* Rotation: a power loss that undoes a rename the directory was not synced for; the
  permission and ownership checks of the files.
* Credential: user names, passwords and the Noise channel; several concurrent
  clients that ask for backend operations at once.
* Update: signatures, manifests, the download and its staging directory, the
  window; failing writes of the state store; system policies that change while
  the daemon runs; more than one user profile.
* Shaper: fractions of a second and the wait durations of the status. `Swap` takes the two
  atomics that `close` swaps one after the other (lines 109 and 112) in one step; a packet
  between them finds the old limiter either way, and is woken by its cancellation.
* Quota: the contents of the reports; upload and download apart from each other; the
  validation of the handler's input; windows, tray, routes and exit nodes.
* Logs: encoding, compression, I/O errors, the memory buffer, and the wait for the network of a
  logger without an event bus (`logtail/logtail.go:471-488`). Lines have one length, so the
  torn fragment that a short line leaves of a longer one it overwrites is not seen, and
  the read buffer holds one line.
* DERP: packets and their queues, rate limits (so every packet for an absent key may be
  answered), the policy `disableFighters` that only tests choose. The returns marked
  "unexpected" (`derp/derpserver/derpserver.go:814-831`) are not reached, as SetsMatch shows, and
  the one of addWatcher for a connection to oneself (line 956) takes a server that watches
  itself. `sendHistory` grows without a bound in the code, and has one here.
* Control: the statuses for the observer and the map sessions of `map.go`. updateControl
  returns early when a newer change has taken a generation meanwhile
  (`control/controlclient/auto.go:257-260`); the model signals then too, which is
  the signal of the newer caller.
* Every other part of the repository: see "components" in `PROJECT.json` and the
  plan.

## 6. Plan

Done: the four components of the fork; the traffic policy composed with the handler
and the account operations; the log pipeline with its abstract specification; the relay
and its mesh; the control client's goroutines. Every safety property of a run is also
a theorem, and so is the safety core of every liveness property but those of the rotation
and of the update policy, whose progress is a chain of steps rather than a wait, and
of ShutdownEnds. Next:

1. **ControlKeyPin**: the pinned Noise key of an `http://` origin, with
   connect, logout, change of origin and concurrent dials.
2. **An abstract shaper** as the specification of `TrafficShaper`, with the
   refinement proved from `IInv`.
3. **Two servers composed**: DerpClients and DerpMesh over one PeerFeed, so that the
   contract is discharged in a single specification.
4. **Further upstream cores**: the audit log's retries, the endpoint state of
   magicsock, the tailnet lock's merge as a pure algorithm.
