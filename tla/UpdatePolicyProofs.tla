------------------------- MODULE UpdatePolicyProofs -------------------------
(***************************************************************************)
(* Proofs about UpdatePolicy, for any number of revisions, versions,       *)
(* crashes and user operations and for every administrator setting.        *)
(***************************************************************************)
EXTENDS UpdatePolicy, TLAPS

(* A running daemon's copy of the policy state is the one on disk.         *)
MemMatches ==
    up => mem.policy = disk.policy /\ mem.resume = disk.resume

(* Gate: ForcedMeansDown, for either profile.                              *)
Gate == up /\ Required(mem) /\ ~stopping => ~(want /\ client)

(* While the user's profile is the current one, its prefs are saved.       *)
UserWant == up /\ profile = "user" => want = disk.want

(* Between the two writes the update is required and the intent is saved.  *)
StoppingInv ==
    stopping => /\ up /\ profile = "user" /\ want
                /\ Required(mem) /\ mem.resume

(* Saved prefs that want the network although an update is required were   *)
(* left by a crash between the two writes, so the intent is saved too.     *)
(* (An always-on daemon that does not come up again may rewrite them.)     *)
SavedIntent ==
    disk.want /\ Required(disk) /\ ~(mode.alwaysOn /\ ~up) => disk.resume

(* A client that has turned the network on and is about to acknowledge it  *)
(* finds it stopped only by a policy delivered meanwhile, which is still   *)
(* the last one unless the intent has lapsed.                              *)
AckInv ==
    ui.pc \in {"auth", "ack"} /\ (stopped \/ stopping) =>
        ui.lapsed \/ (ui.refreshed /\ Required(disk))

IntentInv == /\ UserWant /\ StoppingInv /\ SavedIntent
             /\ AckInv /\ StoppedCanResume

-----------------------------------------------------------------------------
(* The operators that set the prefs keep the types of what they set.       *)

(* The fields of a stored state have their types.                          *)
LEMMA StateType ==
    /\ NoPolicy \in Policies
    /\ NoState \in [policy : Policies, resume : BOOLEAN]
<1>1. NoPolicy \in Policies
  BY UpdateAssumption DEF NoPolicy, Policies
<1> QED  BY <1>1 DEF NoState

(* Reconciling the prefs yields prefs.                                     *)
LEMMA ReconcileType ==
    ASSUME TypeOK, NEW w \in BOOLEAN, NEW o \in BOOLEAN
    PROVE  Reconcile(w, o) \in BOOLEAN
BY DEF TypeOK, Settings, Reconcile, Required

(* So does an edit.                                                        *)
LEMMA EditType ==
    ASSUME TypeOK, NEW w \in BOOLEAN, EditPrefsLocked(w)
    PROVE  /\ disk' \in [policy : Policies, resume : BOOLEAN, want : BOOLEAN]
           /\ want' \in BOOLEAN /\ override' \in BOOLEAN
           /\ disk'.policy = disk.policy /\ disk'.resume = disk.resume
<1>1. (~w) \in BOOLEAN  OBVIOUS
<1>2. Reconcile(w, ~w) \in BOOLEAN  BY <1>1, ReconcileType
<1>3. CASE EditRefused(w) \/ w = want
  BY <1>3 DEF EditPrefsLocked, TypeOK
<1>4. CASE ~(EditRefused(w) \/ w = want)
  BY <1>1, <1>2, <1>4 DEF EditPrefsLocked, SetPrefs, TypeOK
<1> QED  BY <1>3, <1>4

(* And a start.                                                            *)
LEMMA StartType ==
    ASSUME TypeOK, NEW p \in {"empty", "user"}, NEW w \in BOOLEAN,
           StartLocked(p, w)
    PROVE  /\ disk' \in [policy : Policies, resume : BOOLEAN, want : BOOLEAN]
           /\ want' \in BOOLEAN /\ override' \in BOOLEAN
           /\ client' \in BOOLEAN /\ stopped' \in BOOLEAN
           /\ profile' \in {"empty", "user"}
           /\ disk'.policy = disk.policy /\ disk'.resume = disk.resume
<1>1. Reconcile(w, FALSE) \in BOOLEAN  BY ReconcileType
<1>2. want' \in BOOLEAN  BY <1>1 DEF StartLocked
<1>3. disk' \in [policy : Policies, resume : BOOLEAN, want : BOOLEAN]
  BY <1>2 DEF StartLocked, TypeOK
<1>4. disk'.policy = disk.policy /\ disk'.resume = disk.resume
  BY DEF StartLocked, TypeOK
<1>5. client' \in BOOLEAN /\ stopped' \in BOOLEAN /\ override' \in BOOLEAN
  BY Zenon DEF StartLocked
<1> QED  BY <1>2, <1>3, <1>4, <1>5 DEF StartLocked

-----------------------------------------------------------------------------
(* Type correctness.                                                       *)

(* The types hold at the first boot.                                       *)
LEMMA TypeInit == Init => TypeOK
<1> SUFFICES ASSUME Init PROVE TypeOK  OBVIOUS
<1>1. disk \in [policy : Policies, resume : BOOLEAN, want : BOOLEAN]
  BY StateType DEF Init
<1>2. ui \in [pc : Points, acted : 0..MaxRevision, refreshed : BOOLEAN,
             lapsed : BOOLEAN]
  BY UpdateAssumption DEF Init, Points
<1>3. mode \in Settings  BY UpdateAssumption DEF Init
<1>4. version \in 1..MaxVersion /\ faults \in 0..MaxFaults /\ ops \in 0..MaxOps
  BY UpdateAssumption DEF Init
<1> QED  BY <1>1, <1>2, <1>3, <1>4, StateType DEF Init, TypeOK

DiskType == [policy : Policies, resume : BOOLEAN, want : BOOLEAN]
MemType  == [policy : Policies, resume : BOOLEAN]
UIType   == [pc : Points, acted : 0..MaxRevision, refreshed : BOOLEAN,
             lapsed : BOOLEAN]

(* A client that starts over has its type.                                 *)
LEMMA FreshType ==
    ASSUME TypeOK, NEW at \in Points
    PROVE  Fresh(at) \in UIType
<1>1. ui \in UIType  BY DEF TypeOK, UIType
<1>2. 0 \in 0..MaxRevision  BY UpdateAssumption
<1>3. [ui EXCEPT !.pc = at] \in UIType  BY <1>1 DEF UIType
<1>4. [ui EXCEPT !.pc = at, !.acted = 0] \in UIType
  BY <1>1, <1>2, <1>3 DEF UIType
<1>5. Fresh(at) = [[ui EXCEPT !.pc = at, !.acted = 0] EXCEPT !.refreshed = FALSE]
  BY DEF Fresh
<1> QED  BY <1>4, <1>5 DEF UIType

(* Every step keeps them.                                                  *)
LEMMA TypeStep == TypeOK /\ [Next]_vars => TypeOK'
<1> SUFFICES ASSUME TypeOK, [Next]_vars PROVE TypeOK'  OBVIOUS
<1> USE UpdateAssumption
<1>1. CASE Boot
  <2>1. BootWant \in BOOLEAN  BY DEF BootWant, TypeOK, Settings
  <2>2. disk' \in DiskType  BY <1>1, <2>1 DEF Boot, BootDisk, TypeOK, DiskType
  <2>3. mem' \in MemType  BY <1>1 DEF Boot, Load, TypeOK, DiskType, MemType
  <2>4. profile' \in {"empty", "user"}  BY <1>1 DEF Boot, BootProfile, TypeOK
  <2>5. /\ up' \in BOOLEAN /\ want' \in BOOLEAN /\ override' \in BOOLEAN
       /\ client' \in BOOLEAN /\ stopping' \in BOOLEAN /\ stopped' \in BOOLEAN
    BY <1>1, <2>1 DEF Boot, TypeOK
  <2> QED  BY <1>1, <2>1, <2>2, <2>3, <2>4, <2>5
    DEF Boot, Load, TypeOK, DiskType, MemType
<1>2. CASE Crash
  <2>1. mem' \in MemType  BY <1>2, StateType DEF Crash, Down, MemType
  <2>2. faults' \in 0..MaxFaults  BY <1>2 DEF Crash, TypeOK
  <2> QED  BY <1>2, <2>1, <2>2 DEF Crash, Down, TypeOK, MemType
<1>3. CASE StopNetwork
  BY <1>3, EditType DEF TypeOK, StopNetwork
<1>4. CASE ScaleTailUp
  <2>1. TRUE \in BOOLEAN /\ FALSE \in BOOLEAN  OBVIOUS
  <2>2. Reconcile(TRUE, FALSE) \in BOOLEAN  BY ReconcileType
  <2>3. disk' \in DiskType /\ want' \in BOOLEAN
    BY <1>4, <2>2 DEF ScaleTailUp, SetPrefs, TypeOK, DiskType
  <2>4. ops' \in 0..MaxOps  BY <1>4 DEF ScaleTailUp, TypeOK
  <2> QED  BY <1>4, <2>1, <2>2, <2>3, <2>4 DEF ScaleTailUp, TypeOK, DiskType
<1>5. ASSUME NEW w \in BOOLEAN, EditPrefs(w) PROVE TypeOK'
  <2>1. disk' \in DiskType /\ want' \in BOOLEAN /\ override' \in BOOLEAN
    BY <1>5, EditType DEF EditPrefs, DiskType
  <2>2. ops' \in 0..MaxOps  BY <1>5 DEF EditPrefs, TypeOK
  <2> QED  BY <1>5, <2>1, <2>2 DEF EditPrefs, TypeOK, DiskType
<1>6. ASSUME NEW w \in BOOLEAN, ControlStatus(w) PROVE TypeOK'
  BY <1>6, ReconcileType DEF TypeOK, ControlStatus, SetPrefs
<1>7. ASSUME NEW p \in Policies, Deliver(p) PROVE TypeOK'
  <2>1. Required([policy |-> p]) \in BOOLEAN  BY DEF Required
  <2>2. mem' \in MemType
    BY <1>7, <2>1 DEF Deliver, Persist, WriteState, TypeOK, MemType
  <2>3. disk' \in DiskType
    BY <1>7, <2>2 DEF Deliver, Persist, WriteState, TypeOK, DiskType, MemType
  <2>4. stopping' \in BOOLEAN
    BY <1>7, <2>1 DEF Deliver, Persist, WriteState, TypeOK
  <2>5. ui' \in UIType
    <3>1. (ui.pc \in Resuming) \in BOOLEAN /\ Lapsed \in BOOLEAN
      BY DEF Lapsed, TypeOK
    <3>2. ui' = [ui EXCEPT !.refreshed = (ui.pc \in Resuming),
                           !.lapsed = Lapsed]
      BY <1>7 DEF Deliver
    <3> QED  BY <3>1, <3>2 DEF TypeOK, UIType
  <2> QED  BY <1>7, <2>1, <2>2, <2>3, <2>4, <2>5
    DEF Deliver, prefVars, TypeOK, DiskType, MemType, UIType
<1>8. ASSUME NEW v \in 1..MaxVersion, Install(v) PROVE TypeOK'
  <2>1. mem' \in MemType  BY <1>8, StateType DEF Install, Down, MemType
  <2>2. ui' \in UIType  BY <1>8, FreshType DEF Install, Points
  <2> QED  BY <1>8, <2>1, <2>2 DEF Install, Down, TypeOK, MemType, UIType
<1>9. CASE UIExit
  <2>1. ui' \in UIType  BY <1>9, FreshType DEF UIExit, Points
  <2>2. faults' \in 0..MaxFaults  BY <1>9 DEF UIExit, TypeOK
  <2>3. CASE StartLocked("empty", FALSE)
    BY <1>9, <2>1, <2>2, <2>3, StartType DEF UIExit, TypeOK, UIType
  <2>4. CASE UNCHANGED <<disk, prefVars>>
    BY <1>9, <2>1, <2>2, <2>4 DEF UIExit, prefVars, TypeOK, UIType
  <2> QED  BY <1>9, <2>3, <2>4 DEF UIExit
<1>10. CASE UIStart
  BY <1>10 DEF TypeOK, UIStart, Idle, Points, daemonVars, prefVars
<1>11. CASE Connect
  BY <1>11, StartType DEF TypeOK, Connect
<1>12. CASE CheckActive
  <2>1. ui' \in UIType
    BY <1>12 DEF CheckActive, Points, TypeOK, UIType, Policies
  <2>2. flag' \in BOOLEAN  BY <1>12 DEF CheckActive, TypeOK
  <2> QED  BY <1>12, <2>1, <2>2
    DEF CheckActive, daemonVars, prefVars, TypeOK, UIType
<1>13. CASE Suspend
  BY <1>13, EditType DEF TypeOK, Suspend, Idle, Points
<1>14. CASE CheckCleared
  <2>1. ui' \in UIType  BY <1>14, FreshType DEF CheckCleared, Points
  <2> QED  BY <1>14, <2>1
    DEF CheckCleared, daemonVars, prefVars, TypeOK, UIType
<1>15. CASE SetRunning
  BY <1>15, EditType DEF TypeOK, SetRunning, Idle, Points
<1>16. CASE NoCredential
  BY <1>16 DEF TypeOK, NoCredential, Points, daemonVars, prefVars
<1>17. CASE Authenticated
  BY <1>17 DEF TypeOK, Authenticated, Points, daemonVars, prefVars
<1>18. CASE ResumeFails
  <2>1. Idle \in UIType  BY DEF Idle, Points, TypeOK, UIType
  <2>2. [Idle EXCEPT !.acted = 0] \in UIType  BY <2>1 DEF UIType
  <2>3. ui' \in UIType  BY <1>18, <2>1, <2>2 DEF ResumeFails
  <2> QED  BY <1>18, <2>3
    DEF ResumeFails, daemonVars, prefVars, TypeOK, UIType
<1>19. CASE Ack
  <2>1. ui' \in UIType  BY <1>19 DEF Ack, Idle, Points, TypeOK, UIType
  <2>2. mem' \in MemType  BY <1>19 DEF Ack, Acknowledge, TypeOK, MemType
  <2>3. disk' \in DiskType
    BY <1>19, <2>2 DEF Ack, Acknowledge, WriteState, TypeOK, MemType, DiskType
  <2> QED  BY <1>19, <2>1, <2>2, <2>3
    DEF Ack, prefVars, TypeOK, MemType, DiskType, UIType
<1>20. CASE UNCHANGED vars
  BY <1>20 DEF TypeOK, vars
<1> QED
  BY <1>1, <1>2, <1>3, <1>4, <1>5, <1>6, <1>7, <1>8, <1>9, <1>10,
     <1>11, <1>12, <1>13, <1>14, <1>15, <1>16, <1>17, <1>18, <1>19, <1>20
  DEF Next, UIStep

(* Every reachable state has its type.                                     *)
THEOREM TypeCorrect == Spec => []TypeOK
BY TypeInit, TypeStep, PTL DEF Spec

-----------------------------------------------------------------------------
(* The gates.                                                              *)

(* What an edit of the prefs leaves behind.                                *)
LEMMA EditWant ==
    ASSUME TypeOK, NEW w \in BOOLEAN, EditPrefsLocked(w)
    PROVE  /\ ~w => ~want'
           /\ w /\ ~Required(mem) => want'
           /\ w /\ Required(mem) => want' = want
           /\ disk'.want = want' \/ (disk'.want = disk.want /\ want' = want)
<1>1. CASE EditRefused(w) \/ w = want
  BY <1>1 DEF EditPrefsLocked, EditRefused, TypeOK
<1>2. CASE ~(EditRefused(w) \/ w = want)
  <2>1. want' = Reconcile(w, ~w) /\ disk' = [disk EXCEPT !.want = want']
    BY <1>2 DEF EditPrefsLocked, SetPrefs
  <2>2. ~w => ~want'  BY <2>1 DEF Reconcile
  <2>3. w => want'  BY <1>2, <2>1 DEF Reconcile, EditRefused
  <2> QED  BY <1>2, <2>1, <2>2, <2>3 DEF TypeOK, EditRefused
<1> QED  BY <1>1, <1>2

(* What Start leaves behind.                                               *)
LEMMA StartWant ==
    ASSUME TypeOK, NEW p \in {"empty", "user"}, NEW w \in BOOLEAN,
           StartLocked(p, w)
    PROVE  /\ Required(mem) /\ client' => ~want'
           /\ Required(mem) /\ want' => w
           /\ p = "user" => disk'.want = want'
           /\ p # "user" => disk' = disk
           /\ stopped' => stopped /\ ~disk'.want
<1>1. Required(mem) /\ client' => ~want'
  BY DEF StartLocked, StartRefused, Reconcile
<1>2. Required(mem) /\ want' => w
  BY DEF StartLocked, StartRefused, Reconcile
<1>3. (p = "user" => disk'.want = want') /\ (p # "user" => disk' = disk)
  BY DEF StartLocked, TypeOK
<1>4. stopped' => stopped /\ ~disk'.want
  BY DEF StartLocked
<1> QED  BY <1>1, <1>2, <1>3, <1>4

GateInv == TypeOK /\ MemMatches /\ Gate

(* Every step keeps the gate closed while an update is required.           *)
LEMMA GateStep == GateInv /\ [Next]_vars => GateInv'
<1> SUFFICES ASSUME GateInv, [Next]_vars PROVE MemMatches' /\ Gate'
  BY TypeStep DEF GateInv
<1> USE DEF GateInv
<1>1. CASE Boot
  <2>1. disk'.policy = disk.policy /\ disk'.resume = disk.resume
    BY <1>1 DEF Boot, BootDisk, TypeOK
  <2>2. CASE BootRefused
    BY <1>1, <2>2 DEF Boot, MemMatches, Gate
  <2>3. CASE ~BootRefused
    BY <1>1, <2>1, <2>3 DEF Boot, Load, BootRefused, MemMatches, Gate,
      Required
  <2> QED  BY <2>2, <2>3
<1>2. CASE Crash
  BY <1>2 DEF Crash, Down, MemMatches, Gate
<1>3. CASE StopNetwork
  BY <1>3, EditType, EditWant DEF StopNetwork, MemMatches, Gate
<1>4. CASE ScaleTailUp
  BY <1>4 DEF ScaleTailUp, SetPrefs, MemMatches, Gate, Required, TypeOK
<1>5. ASSUME NEW w \in BOOLEAN, EditPrefs(w) PROVE MemMatches' /\ Gate'
  BY <1>5, EditType, EditWant
  DEF EditPrefs, EditRefused, MemMatches, Gate, Required
<1>6. ASSUME NEW w \in BOOLEAN, ControlStatus(w) PROVE MemMatches' /\ Gate'
  BY <1>6 DEF ControlStatus, SetPrefs, Reconcile, MemMatches, Gate, Required,
    TypeOK
<1>7. ASSUME NEW p \in Policies, Deliver(p) PROVE MemMatches' /\ Gate'
  BY <1>7 DEF Deliver, Persist, WriteState, prefVars, MemMatches, Gate,
    Required, TypeOK
<1>8. ASSUME NEW v \in 1..MaxVersion, Install(v) PROVE MemMatches' /\ Gate'
  BY <1>8 DEF Install, Down, MemMatches, Gate
<1>9. CASE UIExit
  <2>1. CASE StartLocked("empty", FALSE)
    BY <1>9, <2>1, StartType, StartWant
    DEF UIExit, MemMatches, Gate, Required
  <2>2. CASE UNCHANGED <<disk, prefVars>>
    BY <1>9, <2>2 DEF UIExit, prefVars, MemMatches, Gate, Required
  <2> QED  BY <1>9, <2>1, <2>2 DEF UIExit
<1>10. CASE UIStart
  BY <1>10 DEF UIStart, daemonVars, prefVars, MemMatches, Gate, Required
<1>11. CASE Connect
  BY <1>11, StartType, StartWant
  DEF Connect, MemMatches, Gate, Required, TypeOK
<1>12. CASE CheckActive
  BY <1>12 DEF CheckActive, daemonVars, prefVars, MemMatches, Gate, Required
<1>13. CASE Suspend
  BY <1>13, EditType, EditWant DEF Suspend, MemMatches, Gate
<1>14. CASE CheckCleared
  BY <1>14 DEF CheckCleared, daemonVars, prefVars, MemMatches, Gate, Required
<1>15. CASE SetRunning
  BY <1>15, EditType, EditWant
  DEF SetRunning, Ready, MemMatches, Gate, Required
<1>16. CASE NoCredential
  BY <1>16 DEF NoCredential, daemonVars, prefVars, MemMatches, Gate, Required
<1>17. CASE Authenticated
  BY <1>17 DEF Authenticated, daemonVars, prefVars, MemMatches, Gate, Required
<1>18. CASE ResumeFails
  BY <1>18 DEF ResumeFails, daemonVars, prefVars, MemMatches, Gate, Required
<1>19. CASE Ack
  BY <1>19 DEF Ack, Acknowledge, WriteState, prefVars, MemMatches, Gate,
    Required, TypeOK
<1>20. CASE UNCHANGED vars
  BY <1>20 DEF vars, MemMatches, Gate, Required
<1> QED
  BY <1>1, <1>2, <1>3, <1>4, <1>5, <1>6, <1>7, <1>8, <1>9, <1>10,
     <1>11, <1>12, <1>13, <1>14, <1>15, <1>16, <1>17, <1>18, <1>19, <1>20
  DEF Next, UIStep

(* The gate is closed in every behaviour.                                  *)
LEMMA GateAlways == Spec => []GateInv
<1>1. Init => GateInv
  BY TypeInit DEF Init, GateInv, MemMatches, Gate
<1> QED  BY <1>1, GateStep, PTL DEF Spec

(* The forced update gate: no interleaving of edits, logins, starts,       *)
(* profile changes, crashes and policies lets the user's traffic flow      *)
(* while an update is required.                                            *)
THEOREM UpdateRequiredMeansDown == Spec => []ForcedMeansDown
<1>1. GateInv => ForcedMeansDown
  BY DEF GateInv, Gate, ForcedMeansDown, Online
<1> QED  BY <1>1, GateAlways, PTL

(* The persisted policy never goes back and is never replaced by another   *)
(* one of its revision, in memory or on disk, across restarts.             *)
THEOREM PolicyNeverRollsBack == Spec => NoRollback
<1> DEFINE Forward ==
      /\ disk'.policy.rev >= disk.policy.rev
      /\ disk'.policy.rev = disk.policy.rev => disk'.policy = disk.policy
<1>1. GateInv /\ [Next]_vars => [Forward]_vars
  <2> SUFFICES ASSUME GateInv, Next PROVE Forward  OBVIOUS
  <2>1. disk.policy.rev \in Nat
    BY UpdateAssumption DEF GateInv, TypeOK, Policies
  <2>2. ASSUME NEW p \in Policies, Deliver(p) PROVE Forward
    <3>1. disk'.policy = p
      BY <2>2 DEF Deliver, Persist, WriteState, GateInv, TypeOK
    <3>2. p.rev > disk.policy.rev
      BY <2>2 DEF Deliver, Newer, Ready, GateInv, MemMatches
    <3>3. p.rev \in Nat  BY UpdateAssumption DEF Policies
    <3> QED  BY <2>1, <3>1, <3>2, <3>3
  <2>3. (\A p \in Policies : ~Deliver(p)) => disk'.policy = disk.policy
    <3> SUFFICES ASSUME \A p \in Policies : ~Deliver(p)
                 PROVE disk'.policy = disk.policy  OBVIOUS
    <3> USE DEF GateInv
    <3>1. CASE Boot  BY <3>1 DEF Boot, BootDisk, TypeOK
    <3>2. CASE Crash \/ UIStart \/ CheckActive \/ CheckCleared \/ NoCredential
                 \/ Authenticated \/ ResumeFails
      BY <3>2 DEF Crash, UIStart, CheckActive, CheckCleared, NoCredential,
                  Authenticated, ResumeFails
    <3>3. CASE StopNetwork \/ Suspend \/ SetRunning
                 \/ \E w \in BOOLEAN : EditPrefs(w)
      BY <3>3, EditType DEF StopNetwork, Suspend, SetRunning, EditPrefs
    <3>4. CASE ScaleTailUp \/ \E w \in BOOLEAN : ControlStatus(w)
      BY <3>4 DEF ScaleTailUp, ControlStatus, SetPrefs, TypeOK
    <3>5. CASE UIExit
      BY <3>5, StartType DEF UIExit
    <3>6. CASE Connect
      BY <3>6, StartType DEF Connect, TypeOK
    <3>7. CASE Ack
      BY <3>7 DEF Ack, Acknowledge, WriteState, Ready, MemMatches, TypeOK
    <3>8. CASE \E v \in 1..MaxVersion : Install(v)
      BY <3>8 DEF Install
    <3> QED  BY <3>1, <3>2, <3>3, <3>4, <3>5, <3>6, <3>7, <3>8 DEF Next, UIStep
  <2> QED  BY <2>1, <2>2, <2>3
<1> QED  BY <1>1, GateAlways, PTL DEF Spec, NoRollback

-----------------------------------------------------------------------------
(* The intent to resume.                                                    *)

(* Every step keeps the user's intent to run.                              *)
LEMMA IntentStep == GateInv /\ IntentInv /\ [Next]_vars => IntentInv'
<1> SUFFICES ASSUME GateInv, IntentInv, [Next]_vars PROVE IntentInv'
  OBVIOUS
<1> USE DEF GateInv, IntentInv
<1>1. CASE Boot
  BY <1>1 DEF Boot, Load, BootDisk, BootWant, BootProfile, BootRefused,
    MemMatches,
    TypeOK,
    UserWant, StoppingInv, SavedIntent, AckInv, StoppedCanResume, Required
<1>2. CASE Crash
  BY <1>2 DEF Crash, Down, MemMatches, TypeOK, UserWant, StoppingInv,
    SavedIntent, AckInv, StoppedCanResume, Required
<1>3. CASE StopNetwork
  BY <1>3, EditType, EditWant
    DEF StopNetwork, MemMatches, TypeOK, UserWant, StoppingInv, SavedIntent,
        AckInv, StoppedCanResume, Required
<1>4. CASE ScaleTailUp
  BY <1>4 DEF ScaleTailUp, Ready, SetPrefs, Reconcile, MemMatches, TypeOK,
    UserWant, StoppingInv, SavedIntent, AckInv, StoppedCanResume, Required
<1>5. ASSUME NEW w \in BOOLEAN, EditPrefs(w) PROVE IntentInv'
  BY <1>5, EditType, EditWant
    DEF EditPrefs, EditRefused, Ready, MemMatches, TypeOK, UserWant,
        StoppingInv, SavedIntent, AckInv, StoppedCanResume, Required
<1>6. ASSUME NEW w \in BOOLEAN, ControlStatus(w) PROVE IntentInv'
  BY <1>6 DEF ControlStatus, Ready, SetPrefs, Reconcile, MemMatches, TypeOK,
    UserWant, StoppingInv, SavedIntent, AckInv, StoppedCanResume, Required
<1>7. ASSUME NEW p \in Policies, Deliver(p) PROVE IntentInv'
  BY <1>7 DEF Deliver, Lapsed, Persist, WriteState, Ready, Resuming, prefVars,
    MemMatches,
    TypeOK, UserWant, StoppingInv, SavedIntent, AckInv, StoppedCanResume,
      Required
<1>8. ASSUME NEW v \in 1..MaxVersion, Install(v) PROVE IntentInv'
  <2>1. Required(disk)' => Required(disk)
    <3>1. /\ version \in Nat /\ v \in Nat /\ disk.policy.version \in Nat
          /\ v > version /\ version' = v /\ disk' = disk
      BY <1>8, UpdateAssumption DEF Install, TypeOK, Policies
    <3> QED  BY <3>1 DEF Required
  <2> QED
    BY <1>8, <2>1 DEF Install, Fresh, TypeOK, Ready, Down, UserWant, StoppingInv, SavedIntent,
      AckInv, StoppedCanResume
<1>9. CASE UIExit
  <2>1. CASE StartLocked("empty", FALSE)
    <3>1. disk' = disk /\ profile' = "empty" /\ (stopped' => stopped)
      BY <2>1, StartWant DEF StartLocked
    <3> QED
      BY <1>9, <3>1 DEF UIExit, Fresh, TypeOK, UserWant, StoppingInv, SavedIntent, AckInv,
        StoppedCanResume, Required
  <2>2. CASE UNCHANGED <<disk, prefVars>>
    BY <1>9, <2>2 DEF UIExit, Fresh, TypeOK, prefVars, UserWant, StoppingInv, SavedIntent,
      AckInv, StoppedCanResume, Required
  <2> QED  BY <1>9, <2>1, <2>2 DEF UIExit
<1>10. CASE UIStart
  BY <1>10 DEF UIStart, Idle, daemonVars, prefVars, TypeOK, UserWant,
    StoppingInv, SavedIntent, AckInv, StoppedCanResume, Required
<1>11. CASE Connect
  BY <1>11, StartType, StartWant
    DEF Connect, MemMatches, TypeOK, UserWant, StoppingInv, SavedIntent,
        AckInv, StoppedCanResume, Required
<1>12. CASE CheckActive
  BY <1>12 DEF CheckActive, daemonVars, prefVars, TypeOK, UserWant,
    StoppingInv, SavedIntent, AckInv, StoppedCanResume, Required
<1>13. CASE Suspend
  BY <1>13, EditType, EditWant
    DEF Suspend, Ready, Idle, MemMatches, TypeOK, UserWant, StoppingInv,
        SavedIntent, AckInv, StoppedCanResume, Required
<1>14. CASE CheckCleared
  BY <1>14 DEF CheckCleared, Fresh, TypeOK, daemonVars, prefVars,
    UserWant, StoppingInv, SavedIntent, AckInv, StoppedCanResume, Required
<1>15. CASE SetRunning
  BY <1>15, EditType, EditWant
    DEF SetRunning, EditRefused, Ready, Idle, MemMatches, TypeOK, UserWant,
        StoppingInv, SavedIntent, AckInv, StoppedCanResume, Required
<1>16. CASE NoCredential
  BY <1>16 DEF NoCredential, daemonVars, prefVars, TypeOK, UserWant,
    StoppingInv, SavedIntent, AckInv, StoppedCanResume, Required
<1>17. CASE Authenticated
  BY <1>17 DEF Authenticated, daemonVars, prefVars, TypeOK, UserWant,
    StoppingInv, SavedIntent, AckInv, StoppedCanResume, Required
<1>18. CASE ResumeFails
  BY <1>18 DEF ResumeFails, Idle, daemonVars, prefVars, TypeOK, UserWant,
    StoppingInv, SavedIntent, AckInv, StoppedCanResume, Required
<1>19. CASE Ack
  <2>1. CASE Required(mem) \/ ~mem.resume
    BY <1>19, <2>1 DEF Ack, Acknowledge, Idle, prefVars, TypeOK,
      UserWant, StoppingInv, SavedIntent, AckInv, StoppedCanResume, Required
  <2>2. CASE ~(Required(mem) \/ ~mem.resume)
    <3>1. /\ disk'.policy = disk.policy /\ disk'.want = disk.want
          /\ ~stopping /\ (stopped => ui.lapsed) /\ ~Required(disk)
      BY <1>19, <2>2 DEF Ack, Acknowledge, WriteState, Ready, MemMatches,
        TypeOK, StoppingInv, AckInv, Required
    <3> QED
      BY <1>19, <3>1 DEF Ack, Idle, prefVars, TypeOK, UserWant, StoppingInv,
        SavedIntent, AckInv, StoppedCanResume, Required
  <2> QED
    BY <2>1, <2>2
<1>20. CASE UNCHANGED vars
  BY <1>20 DEF vars, UserWant, StoppingInv, SavedIntent, AckInv,
    StoppedCanResume, Required
<1> QED
  BY <1>1, <1>2, <1>3, <1>4, <1>5, <1>6, <1>7, <1>8, <1>9, <1>10,
     <1>11, <1>12, <1>13, <1>14, <1>15, <1>16, <1>17, <1>18, <1>19, <1>20
  DEF Next, UIStep

(* The intent to resume survives: whatever crashes, policies and           *)
(* acknowledgements come, a network that an update stopped is remembered   *)
(* on disk until someone turns it on again, unless it lapses as            *)
(* StoppedCanResume says.                                                  *)
THEOREM IntentSurvives == Spec => []StoppedCanResume
<1>1. Init => GateInv /\ IntentInv
  <2> SUFFICES ASSUME Init PROVE GateInv /\ IntentInv  OBVIOUS
  <2>1. ~Required(disk)
    BY DEF Init, Required, NoPolicy
  <2> QED
    BY <2>1, TypeInit DEF Init, GateInv, MemMatches, Gate, IntentInv, UserWant,
      StoppingInv, SavedIntent, AckInv, StoppedCanResume
<1>2. GateInv /\ IntentInv => StoppedCanResume  BY DEF IntentInv
<1> QED  BY <1>1, <1>2, GateStep, IntentStep, PTL DEF Spec

=============================================================================
