---------------------------- MODULE UpdatePolicy ----------------------------
(***************************************************************************)
(* The forced update policy of the Windows client: the daemon's copy and   *)
(* its gates (ipn/ipnlocal/scaletail_update.go and the WantRunning paths   *)
(* of ipn/ipnlocal/local.go), the daemon's life cycle, and the desktop     *)
(* client that suspends the network and resumes it afterwards              *)
(* (client/electron/src/main/client_update.ts, index.ts).                  *)
(*                                                                         *)
(* Signatures are checked before a policy gets here, so a policy is a      *)
(* revision, an action and a version.  "suggested" differs from "clear"    *)
(* only in what the window shows.  One user profile is modelled, beside    *)
(* the empty profile Windows starts with when it is not in unattended      *)
(* mode.  Every backend operation holds b.mu and is one step, except the   *)
(* application of a forced policy, which writes the state store twice.     *)
(***************************************************************************)
EXTENDS Naturals

CONSTANTS
    MaxRevision,          \* bound on the revisions the server publishes
    MaxVersion,           \* bound on the versions of the program
    MaxFaults,            \* bound on crashes of the daemon and of the client
    MaxOps,               \* bound on what the user does to the network
    Modes,                \* the administrator's settings to consider
    CrashWhileStopping    \* may the daemon die between its two writes?

Settings == [unattended : BOOLEAN, alwaysOn : BOOLEAN]

ASSUME UpdateAssumption ==
    /\ MaxRevision \in Nat
    /\ MaxVersion \in Nat \ {0}
    /\ MaxFaults \in Nat
    /\ MaxOps \in Nat
    /\ Modes \subseteq Settings
    /\ CrashWhileStopping \in BOOLEAN

VARIABLES
    mode,      \* ForceDaemon and the AlwaysOn system policy; never change
    version,   \* version.Short() of the installed program
    disk,      \* the state store: OTA state, WantRunning of the user profile
    up,        \* does a daemon process serve the LocalAPI?
    mem,       \* b.scaleTailUpdate
    profile,   \* pm.currentProfile: "empty" or "user"
    want,      \* pm.prefs.WantRunning
    override,  \* b.overrideAlwaysOn
    client,    \* b.cc # nil
    stopping,  \* a forced policy is persisted, the network not yet stopped
    stopped,   \* history: the user's network is off because an update was
               \*   required, and no one has set it since
    ui,        \* the desktop client: where it is, forcedActionVersion, and
               \*   history: has a policy come during its resume, and may
               \*   an acknowledgement not mean that the network is on?
    flag,      \* forcedResumeNetwork and its copy in forced-client-update.json
    faults,
    ops

vars == <<mode, version, disk, up, mem, profile, want, override, client,
          stopping, stopped, ui, flag, faults, ops>>
prefVars   == <<profile, want, override, client, stopped>>
daemonVars == <<up, mem, stopping, prefVars>>

NoPolicy == [rev |-> 0, action |-> "clear", version |-> 1]
Policies == [rev : 0..MaxRevision, action : {"forced", "clear"},
             version : 1..MaxVersion]
NoState  == [policy |-> NoPolicy, resume |-> FALSE]

(* scaleTailForcedUpdateRequiredLocked, for the policy s holds.            *)
Required(s) == s.policy.action = "forced" /\ version < s.policy.version

(* The network carries the user's traffic.                                 *)
Online == up /\ profile = "user" /\ want /\ client

Points == {"gone", "idle", "suspend", "setRunning", "auth", "ack"}
Resuming == {"setRunning", "auth", "ack"}
Idle == [ui EXCEPT !.pc = "idle"]
Fresh(at) == [ui EXCEPT !.pc = at, !.acted = 0, !.refreshed = FALSE]

TypeOK ==
    /\ mode \in Settings
    /\ version \in 1..MaxVersion
    /\ disk \in [policy : Policies, resume : BOOLEAN, want : BOOLEAN]
    /\ mem \in [policy : Policies, resume : BOOLEAN]
    /\ up \in BOOLEAN /\ want \in BOOLEAN /\ override \in BOOLEAN
    /\ client \in BOOLEAN /\ stopping \in BOOLEAN
    /\ stopped \in BOOLEAN
    /\ profile \in {"empty", "user"}
    /\ ui \in [pc : Points, acted : 0..MaxRevision, refreshed : BOOLEAN,
               lapsed : BOOLEAN]
    /\ flag \in BOOLEAN
    /\ faults \in 0..MaxFaults
    /\ ops \in 0..MaxOps

(* A registered machine whose user last wanted the network on or off; the  *)
(* daemon and the client have not been started yet.                        *)
Init ==
    /\ mode \in Modes
    /\ version = 1
    /\ \E w \in BOOLEAN :
          disk = [policy |-> NoPolicy, resume |-> FALSE, want |-> w]
    /\ up = FALSE /\ mem = NoState
    /\ profile = "empty" /\ want = FALSE /\ override = FALSE /\ client = FALSE
    /\ stopping = FALSE /\ stopped = FALSE
    /\ ui = [pc |-> "gone", acted |-> 0, refreshed |-> FALSE,
             lapsed |-> FALSE]
    /\ flag = FALSE
    /\ faults = 0 /\ ops = 0

-----------------------------------------------------------------------------
(* The backend's ways to set WantRunning.                                  *)

(* b.mu is free and the user's profile is the current one.                 *)
Ready == up /\ ~stopping /\ profile = "user"

(* Mutant: the system policy has the last word.                            *)
ReconcileIgnoringUpdate(w, overridden) == w \/ (mode.alwaysOn /\ ~overridden)

(* reconcilePrefsLocked: the system policy first, the forced update last.  *)
Reconcile(w, overridden) ==
    (w \/ (mode.alwaysOn /\ ~overridden)) /\ ~Required(mem)

(* Mutant: the prefs are changed in memory only.                           *)
SetPrefsUnsaved(w) == want' = w /\ UNCHANGED disk

(* pm.SetPrefs on the user's profile.                                      *)
SetPrefs(w) ==
    /\ want' = w
    /\ disk' = [disk EXCEPT !.want = w]

(* startLocked with the current prefs w of profile p: refused while an     *)
(* update is required and w is set, else it makes a control client.        *)
StartRefused(w) == Required(mem) /\ w
StartLocked(p, w) ==
    /\ profile' = p
    /\ override' = FALSE
    /\ client' = ~StartRefused(w)
    /\ want' = IF StartRefused(w) THEN w ELSE Reconcile(w, FALSE)
    /\ disk' = IF p = "user" THEN [disk EXCEPT !.want = want'] ELSE disk
    /\ stopped' = (stopped /\ ~disk'.want)

(* editPrefsLocked with WantRunning = w.  checkPrefsLocked refuses w while *)
(* an update is required, and equal prefs end the edit.  An edit that      *)
(* turns the network off overrides always-on, one that turns it on ends    *)
(* the override; setPrefsLocked reconciles and saves.                      *)
EditRefused(w) == Required(mem) /\ w
EditPrefsLocked(w) ==
    IF EditRefused(w) \/ w = want
    THEN UNCHANGED <<disk, want, override>>
    ELSE /\ SetPrefs(Reconcile(w, ~w))
         /\ override' = ~w

(* The gates of the test TestScaleTailForcedUpdateBlocksEveryRunningEntry: *)
(* PATCH prefs, and the reconnect timer that edits them as ipnauth.Self.   *)
EditPrefs(w) ==
    /\ Ready /\ ops < MaxOps /\ w # want /\ ~EditRefused(w)
    /\ EditPrefsLocked(w)
    /\ stopped' = FALSE
    /\ ops' = ops + 1
    /\ UNCHANGED <<mode, version, up, mem, profile, client, stopping, ui,
                   flag, faults>>

(* scaletail-up: CheckPrefs, then Start with UpdatePrefs.WantRunning.      *)
ScaleTailUp ==
    /\ Ready /\ ops < MaxOps
    /\ ~Required(mem)
    /\ SetPrefs(Reconcile(TRUE, FALSE))
    /\ override' = FALSE
    /\ client' = TRUE
    /\ stopped' = FALSE
    /\ ops' = ops + 1
    /\ UNCHANGED <<mode, version, up, mem, profile, stopping, ui, flag,
                   faults>>

(* setControlClientStatusLocked: the control client reports, possibly that *)
(* a login the user started has completed, which makes the network wanted; *)
(* reconciliation has the last word.                                       *)
ControlStatus(login) ==
    /\ Ready /\ client
    /\ login => ops < MaxOps
    /\ SetPrefs(Reconcile(want \/ login, override))
    /\ stopped' = (stopped /\ ~want')
    /\ ops' = IF login THEN ops + 1 ELSE ops
    /\ UNCHANGED <<mode, version, up, mem, profile, override, client,
                   stopping, ui, flag, faults>>

-----------------------------------------------------------------------------
(* The daemon's copy of the policy.                                        *)

(* writeScaleTailUpdateStateLocked and loadScaleTailUpdatePolicyLocked.    *)
WriteState(s) ==
    disk' = [disk EXCEPT !.policy = s.policy, !.resume = s.resume]
Load == [policy |-> disk.policy, resume |-> disk.resume]

(* Mutant: a second policy of the current revision is accepted.            *)
NotOlder(p) == p.rev >= mem.policy.rev

(* applyVerifiedScaleTailUpdatePolicyLocked up to the first write.  The    *)
(* monitor of the daemon and the PUT of the desktop client deliver any     *)
(* policy the server ever signed, so an old one or a second one of the     *)
(* same revision may arrive: both change nothing.                          *)
Newer(p) == p.rev > mem.policy.rev
Persist(p) ==
    LET active == Required([policy |-> p])
        next   == [policy |-> p, resume |-> mem.resume \/ (active /\ want)]
    IN  /\ mem' = next
        /\ WriteState(next)
        /\ stopping' = (active /\ want)

(* Policies come from the monitor's refresh and by PUT at any time, also   *)
(* within one resume of the client.                                        *)
Lapsed == IF ui.pc \in Resuming THEN ui.lapsed \/ ui.refreshed
                                ELSE ui.lapsed /\ stopped
Deliver(p) ==
    /\ Ready /\ Newer(p)
    /\ Persist(p)
    /\ ui' = [ui EXCEPT !.refreshed = ui.pc \in Resuming, !.lapsed = Lapsed]
    /\ UNCHANGED <<mode, version, up, prefVars, flag, faults, ops>>

(* ... and its second half: the network is stopped as ipnauth.Self.        *)
StopNetwork ==
    /\ up /\ stopping
    /\ EditPrefsLocked(FALSE)
    /\ stopping' = FALSE
    /\ stopped' = TRUE
    /\ UNCHANGED <<mode, version, up, mem, profile, client, ui, flag, faults,
                   ops>>

(* Mutant: an acknowledgement counts while an update is required.          *)
AcknowledgeAlways ==
    /\ mem' = [mem EXCEPT !.resume = FALSE]
    /\ WriteState(mem')

(* AcknowledgeScaleTailUpdateResume.                                       *)
Acknowledge ==
    IF Required(mem) \/ ~mem.resume
    THEN UNCHANGED <<mem, disk>>
    ELSE /\ mem' = [mem EXCEPT !.resume = FALSE]
         /\ WriteState(mem')

-----------------------------------------------------------------------------
(* The daemon's life cycle.                                                *)

(* The process ends; what it held in memory is gone.                       *)
Down ==
    /\ up' = FALSE /\ mem' = NoState /\ stopping' = FALSE
    /\ profile' = "empty" /\ want' = FALSE /\ override' = FALSE
    /\ client' = FALSE

(* NewLocalBackend and the first Start of run(): the profile of unattended *)
(* mode or the empty one, the system policy applied before the OTA state   *)
(* is read, then startLocked.  When Start refuses, the process exits.      *)
(* BootNoProfile is a mutant: the fallback to a new profile is missing.    *)
BootNoProfile == IF mode.unattended THEN "user" ELSE ""
BootProfile == IF mode.unattended THEN "user" ELSE "empty"
BootWant == (mode.unattended /\ disk.want) \/ mode.alwaysOn
BootDisk == IF mode.unattended THEN [disk EXCEPT !.want = BootWant] ELSE disk
BootRefused == Required(disk) /\ BootWant
Boot ==
    /\ ~up
    /\ disk' = BootDisk
    /\ stopped' = (stopped /\ ~disk'.want)
    /\ IF BootRefused
       THEN UNCHANGED <<up, mem, profile, want, override, client>>
       ELSE /\ up' = TRUE
            /\ mem' = Load
            /\ profile' = BootProfile
            /\ want' = BootWant
            /\ client' = TRUE
            /\ UNCHANGED override
    /\ UNCHANGED <<mode, version, stopping, ui, flag, faults, ops>>

Crash ==
    /\ up /\ faults < MaxFaults
    /\ stopping => CrashWhileStopping
    /\ Down
    /\ faults' = faults + 1
    /\ UNCHANGED <<mode, version, disk, stopped, ui, flag, ops>>

(* The installer that scaletail-update/install launches replaces both      *)
(* programs; it only takes a newer version.                                *)
Install(v) ==
    /\ Ready /\ ui.pc = "idle" /\ v > version
    /\ version' = v
    /\ Down
    /\ ui' = Fresh("gone")
    /\ UNCHANGED <<mode, disk, stopped, flag, faults, ops>>

-----------------------------------------------------------------------------
(* The desktop client.                                                     *)

UIStart ==
    /\ ui.pc = "gone"
    /\ ui' = Idle
    /\ UNCHANGED <<mode, version, disk, daemonVars, flag, faults, ops>>

(* SetCurrentUser: its connection brings the user's profile in.            *)
Connect ==
    /\ up /\ ~stopping /\ profile = "empty" /\ ui.pc # "gone"
    /\ StartLocked("user", disk.want)
    /\ UNCHANGED <<mode, version, up, mem, stopping, ui, flag, faults, ops>>

(* The client ends or dies.  The daemon goes back to the empty profile,    *)
(* whose prefs are the defaults, unless it runs unattended, or always-on   *)
(* and the user is still signed in.                                        *)
UIExit ==
    /\ ui.pc # "gone" /\ faults < MaxFaults /\ ~stopping
    /\ ui' = Fresh("gone")
    /\ \/ /\ up /\ ~mode.unattended /\ profile = "user"
          /\ StartLocked("empty", FALSE)
       \/ /\ ~up \/ mode.unattended \/ mode.alwaysOn \/ profile = "empty"
          /\ UNCHANGED <<disk, prefVars>>
    /\ faults' = faults + 1
    /\ UNCHANGED <<mode, version, up, mem, stopping, flag, ops>>

(* checkClientUpdate or restoreCachedForcedUpdate sees an active policy it *)
(* has not acted on: activateForcedUpdate saves whether to resume.         *)
CheckActive ==
    /\ Ready /\ ui.pc = "idle" /\ Required(mem)
    /\ ui.acted # mem.policy.rev
    /\ ui' = [ui EXCEPT !.pc = "suspend", !.acted = mem.policy.rev]
    /\ flag' = (flag \/ want \/ mem.resume)
    /\ UNCHANGED <<mode, version, disk, daemonVars, faults, ops>>

(* suspendNetworkForForcedUpdate.                                          *)
Suspend ==
    /\ Ready /\ ui.pc = "suspend"
    /\ EditPrefsLocked(FALSE)
    /\ stopped' = (stopped \/ (want /\ Required(mem)))
    /\ flag' = (flag \/ want)
    /\ ui' = Idle
    /\ UNCHANGED <<mode, version, up, mem, profile, client, stopping, faults,
                   ops>>

(* Mutant: only the client's own copy of the intent is looked at.          *)
CheckClearedByFlag ==
    /\ Ready /\ ui.pc = "idle" /\ ~Required(mem) /\ flag
    /\ ui' = Fresh("setRunning")
    /\ flag' = FALSE
    /\ UNCHANGED <<mode, version, disk, daemonVars, faults, ops>>

(* ... sees that none is active: clearForcedUpdateState forgets the        *)
(* client's own copy and resumes if the daemon's or its own asks for it.   *)
CheckCleared ==
    /\ Ready /\ ui.pc = "idle" /\ ~Required(mem)
    /\ mem.resume \/ flag
    /\ ui' = Fresh("setRunning")
    /\ flag' = FALSE
    /\ UNCHANGED <<mode, version, disk, daemonVars, faults, ops>>

(* resumeNetworkAfterForcedUpdate: PATCH WantRunning, which is an error    *)
(* if an update is required again.                                         *)
SetRunning ==
    /\ Ready /\ ui.pc = "setRunning"
    /\ EditPrefsLocked(TRUE)
    /\ stopped' = (stopped /\ ~want')
    /\ ui' = IF EditRefused(TRUE) THEN Idle ELSE [ui EXCEPT !.pc = "auth"]
    /\ UNCHANGED <<mode, version, up, mem, profile, client, stopping, flag,
                   faults, ops>>

(* ... without a stored credential it warns and returns normally, and is   *)
(* acknowledged like a resume that did its work.                           *)
NoCredential ==
    /\ ui.pc = "setRunning"
    /\ ui' = [ui EXCEPT !.pc = "ack", !.lapsed = TRUE]
    /\ UNCHANGED <<mode, version, disk, daemonVars, flag, faults, ops>>

(* authenticateAccountWithRetry: DoNoiseRequest needs a control client.    *)
Authenticated ==
    /\ Ready /\ ui.pc = "auth" /\ client
    /\ ui' = [ui EXCEPT !.pc = "ack"]
    /\ UNCHANGED <<mode, version, disk, daemonVars, flag, faults, ops>>

(* It gives up after 45 s, or any call finds no daemon to talk to.         *)
ResumeFails ==
    /\ \/ ui.pc = "auth"
       \/ ~up /\ ui.pc \in Resuming \cup {"suspend"}
    /\ ui' = IF ui.pc = "suspend" THEN [Idle EXCEPT !.acted = 0] ELSE Idle
    /\ UNCHANGED <<mode, version, disk, daemonVars, flag, faults, ops>>

Ack ==
    /\ Ready /\ ui.pc = "ack"
    /\ Acknowledge
    /\ ui' = Idle
    /\ UNCHANGED <<mode, version, up, prefVars, stopping, flag, faults, ops>>

-----------------------------------------------------------------------------
UIStep == \/ UIStart \/ Connect \/ CheckActive \/ Suspend \/ CheckCleared
          \/ SetRunning \/ NoCredential \/ Authenticated \/ ResumeFails \/ Ack

Next ==
    \/ Boot \/ Crash \/ StopNetwork \/ ScaleTailUp
    \/ \E w \in BOOLEAN : EditPrefs(w) \/ ControlStatus(w)
    \/ \E p \in Policies : Deliver(p)
    \/ \E v \in 1..MaxVersion : Install(v)
    \/ UIExit
    \/ UIStep

Spec == Init /\ [][Next]_vars

(* The babysitter restarts the daemon, a step under b.mu is finished, the  *)
(* client runs in the user's session and checks every ten minutes; a       *)
(* stored credential that is tried again and again is accepted sometimes.  *)
FairSpec ==
    /\ Spec
    /\ WF_vars(Boot) /\ WF_vars(StopNetwork)
    /\ WF_vars(UIStart) /\ WF_vars(Connect)
    /\ WF_vars(CheckActive) /\ WF_vars(Suspend) /\ WF_vars(CheckCleared)
    /\ WF_vars(SetRunning) /\ WF_vars(ResumeFails) /\ WF_vars(Ack)
    /\ SF_vars(Authenticated)

-----------------------------------------------------------------------------
(* Every running entry is closed: while the policy the daemon knows        *)
(* requires an update, and the step that applies it is over, the user's    *)
(* traffic does not flow, whatever edits, logins, restarts, profile        *)
(* changes and always-on settings happen in between.                       *)
ForcedMeansDown == up /\ Required(mem) /\ ~stopping => ~Online

(* scaletaild keeps the highest revision it accepted, across restarts: it  *)
(* never goes back and never replaces the content of a revision.           *)
NoRollback ==
    [][/\ disk'.policy.rev >= disk.policy.rev
       /\ disk'.policy.rev = disk.policy.rev
             => disk'.policy = disk.policy]_vars

(* The running intent is never lost: as long as the user's network is off  *)
(* because an update was required, the daemon's state file says that it    *)
(* must be turned on again, across crashes of both programs, withdrawals,  *)
(* new policies and acknowledgements that arrive late.  It lapses in two   *)
(* ways.  Of two policies that come within one resume the second may       *)
(* withdraw the first, and the acknowledgement, which carries no revision, *)
(* is then taken for one of the stop in between.  And a resume without a   *)
(* stored account does nothing and is acknowledged all the same.           *)
StoppedCanResume == stopped /\ ~ui.lapsed => disk.resume

(* A network stopped by a policy is given back: once no update is required *)
(* the user's traffic flows again, unless an update is required again, the *)
(* user turns the network off, or the intent lapses as above.              *)
ResumeCompletes ==
    (stopped /\ ~ui.lapsed /\ ~Required(disk)) ~>
        (Online \/ Required(disk) \/ ui.lapsed \/ (~stopped /\ ~disk.want))

(* What README.md says of a signed withdrawal, "clear": the network goes   *)
(* back to the state it had before the update, unless a newer policy       *)
(* requires one or the user turns the network off.  The code does not keep *)
(* it: both ways in which the intent lapses leave the network off.         *)
WithdrawalRestores ==
    (stopped /\ disk.policy.action = "clear") ~>
        (Online \/ Required(disk) \/ (~stopped /\ ~disk.want))

(* A daemon that ended comes back and serves the LocalAPI, through which   *)
(* the withdrawal of the policy and the required update arrive.            *)
DaemonServes == ~up ~> up

=============================================================================
