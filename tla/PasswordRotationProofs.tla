----------------------- MODULE PasswordRotationProofs -----------------------
(***************************************************************************)
(* Proofs about PasswordRotation for every bound and every set of crash    *)
(* points: types, the absence of a lockout, committed successes, and the   *)
(* two action properties.  LateDelivery is assumed FALSE where it must be: *)
(* TLC shows the lockout that a late change request causes.                *)
(***************************************************************************)
EXTENDS PasswordRotation, TLAPS

(* What each program point of a run knows about the two files, the run's   *)
(* local variables and the account.  NoLockout is not inductive: it needs  *)
(* that a run that has opened the ".next" file still holds the account's   *)
(* password, and that a run that is about to promote or remove the ".next" *)
(* file has learnt what the file is.                                       *)
PointInv ==
    /\ pc \notin {"idle"} => cur = file.pw
    /\ pc \in {"openStage", "writeStage", "syncStage", "sendChange"}
         => cur = server
    /\ pc \in {"syncStage", "sendChange", "awaitChange", "authNext", "promote"}
         => staged.kind = "full" /\ staged.pw = next
    /\ pc \in {"recoverOk", "recoverExpired"}
         => staged.kind = "full" /\ staged.pw = server
    /\ pc = "discard" => staged.kind # "full" \/ staged.pw # server
    /\ pc \in {"authNext", "promote"} => server = next
    /\ pc = "authCurrent" => staged.kind = "absent" /\ file.pw = server

(* The change request belongs to the run that awaits its answer.           *)
WireInv ==
    /\ wire.on => pc = "awaitChange" /\ wire.old = cur /\ wire.new = next
    /\ reply # "none" => pc = "awaitChange" /\ ~wire.on
    /\ reply = "ok" => server = next

IInv == TypeOK /\ NoLockout /\ PointInv /\ WireInv /\ SuccessIsCommitted

(* Every variable keeps its type in every behaviour, for every bound and   *)
(* with or without late deliveries.                                        *)
THEOREM TypeCorrect == Spec => []TypeOK
<1>1. Init => TypeOK
  BY RotationAssumption
  DEF Init, TypeOK, ProgramPoints, StagedKinds, Absent, NoRequest
<1>2. TypeOK /\ [Next]_vars => TypeOK'
  <2> SUFFICES ASSUME TypeOK, [Next]_vars PROVE TypeOK'
    OBVIOUS
  <2> USE RotationAssumption DEF TypeOK, ProgramPoints, StagedKinds,
          diskVars, srvVars, runVars
  <2>1. CASE Start
    BY <2>1 DEF Start
  <2>2. CASE CheckStaged
    BY <2>2 DEF CheckStaged, End, Goto
  <2>3. CASE AuthStaged
    BY <2>3 DEF AuthStaged, Authenticate, Answers, ServerAnswer, End, Goto
  <2>4. CASE RecoverOk
    BY <2>4 DEF RecoverOk, PromoteFiles, Absent, End
  <2>5. CASE RecoverExpired
    BY <2>5 DEF RecoverExpired, PromoteFiles, Absent
  <2>6. CASE Discard
    BY <2>6 DEF Discard, Absent, Goto
  <2>7. CASE AuthCurrent
    BY <2>7 DEF AuthCurrent, Authenticate, Answers, ServerAnswer, End, Goto
  <2>8. CASE OpenStage
    BY <2>8 DEF OpenStage, Empty
  <2>9. CASE WriteStage
    <3>1. staged' = Full(next) \/ staged' = Absent
      BY <2>9 DEF WriteStage
    <3>2. staged' \in [kind : StagedKinds, pw : Nat, old : BOOLEAN]
      <4>1. {Full(next), Absent} \subseteq
               [kind : StagedKinds, pw : Nat, old : BOOLEAN]
        BY DEF Full, Absent
      <4> QED
        BY <3>1, <4>1
    <3> QED
      BY <2>9, <3>2 DEF WriteStage, End, Goto
  <2>10. CASE SyncStage
    <3>1. staged' = staged \/ staged' = Absent
      BY <2>10 DEF SyncStage
    <3>2. staged' \in [kind : StagedKinds, pw : Nat, old : BOOLEAN]
      <4>1. Absent \in [kind : StagedKinds, pw : Nat, old : BOOLEAN]
        BY DEF Absent
      <4> QED
        BY <3>1, <4>1
    <3> QED
      BY <2>10, <3>2 DEF SyncStage, End, Goto
  <2>11. CASE SendChange
    BY <2>11 DEF SendChange, Goto
  <2>12. CASE ChangeAnswered
    BY <2>12 DEF ChangeAnswered, End
  <2>13. CASE AuthNext
    BY <2>13 DEF AuthNext, Authenticate, Answers, ServerAnswer, End, Goto
  <2>14. CASE Promote
    BY <2>14 DEF Promote, PromoteFiles, Absent, End
  <2>15. CASE ServerChange
    BY <2>15 DEF ServerChange, NoRequest
  <2>16. CASE Expire
    BY <2>16 DEF Expire
  <2>17. CASE Age
    <3>1. (staged.kind = "full") \in BOOLEAN
      OBVIOUS
    <3>2. file' \in [pw : Nat, old : BOOLEAN]
      BY <2>17 DEF Age
    <3>3. staged' \in [kind : StagedKinds, pw : Nat, old : BOOLEAN]
      BY <2>17, <3>1 DEF Age
    <3> QED
      BY <2>17, <3>2, <3>3 DEF Age
  <2>18. CASE ServerRefuse
    BY <2>18 DEF ServerRefuse, NoRequest
  <2>19. CASE ChangeFailed
    <3>1. wire' = wire \/ wire' = NoRequest
      BY <2>19 DEF ChangeFailed
    <3>2. wire' \in [on : BOOLEAN, old : Nat, new : Nat]
      <4>1. NoRequest \in [on : BOOLEAN, old : Nat, new : Nat]
        BY DEF NoRequest
      <4> QED
        BY <3>1, <4>1
    <3> QED
      BY <2>19, <3>2 DEF ChangeFailed, End
  <2>20. CASE Interrupt
    <3>1. /\ wire' = wire \/ wire' = NoRequest
          /\ staged' = staged \/ staged' = Torn
      BY <2>20 DEF Interrupt
    <3>2. wire' \in [on : BOOLEAN, old : Nat, new : Nat]
      <4>1. NoRequest \in [on : BOOLEAN, old : Nat, new : Nat]
        BY DEF NoRequest
      <4> QED
        BY <3>1, <4>1
    <3>3. staged' \in [kind : StagedKinds, pw : Nat, old : BOOLEAN]
      <4>1. Torn \in [kind : StagedKinds, pw : Nat, old : BOOLEAN]
        BY DEF Torn
      <4> QED
        BY <3>1, <4>1
    <3> QED
      BY <2>20, <3>2, <3>3 DEF Interrupt, End
  <2>21. CASE UNCHANGED vars
    BY <2>21 DEF vars
  <2> QED
    BY <2>1, <2>2, <2>3, <2>4, <2>5, <2>6, <2>7, <2>8, <2>9, <2>10, <2>11,
       <2>12, <2>13, <2>14, <2>15, <2>16, <2>17, <2>18, <2>19, <2>20, <2>21
       DEF Next, Run, Environment
<1> QED
  BY <1>1, <1>2, PTL DEF Spec

(* The inductive step: what the program points know is preserved by every  *)
(* step of the run, of the server and of the environment.                  *)
LEMMA InductiveStep ==
    ASSUME ~LateDelivery, IInv, TypeOK', [Next]_vars
    PROVE  IInv'
<1> USE DEF IInv, TypeOK, NoLockout, PointInv, WireInv, SuccessIsCommitted,
        diskVars, srvVars, runVars
<1>1. CASE Start
  BY <1>1 DEF Start
<1>2. CASE CheckStaged
  BY <1>2 DEF CheckStaged, End, Goto
<1>3. CASE AuthStaged
  BY <1>3 DEF AuthStaged, Authenticate, Answers, ServerAnswer, End, Goto
<1>4. CASE RecoverOk
  BY <1>4 DEF RecoverOk, PromoteFiles, Absent, End
<1>5. CASE RecoverExpired
  BY <1>5 DEF RecoverExpired, PromoteFiles, Absent
<1>6. CASE Discard
  BY <1>6 DEF Discard, Absent, Goto
<1>7. CASE AuthCurrent
  BY <1>7 DEF AuthCurrent, Authenticate, Answers, ServerAnswer, End, Goto
<1>8. CASE OpenStage
  BY <1>8 DEF OpenStage, Empty
<1>9. CASE WriteStage
  BY <1>9 DEF WriteStage, Full, Absent, End, Goto
<1>10. CASE SyncStage
  BY <1>10 DEF SyncStage, Absent, End, Goto
<1>11. CASE SendChange
  BY <1>11 DEF SendChange, Goto
<1>12. CASE ChangeAnswered
  <2>1. CASE reply = "ok"
    <3>1. /\ pc' = "authNext" /\ reply' = "none" /\ server = next /\ ~wire.on
          /\ UNCHANGED <<file, staged, cur, next, outcome, server, wire>>
      BY <1>12, <2>1 DEF ChangeAnswered, End
    <3> QED
      BY <1>12, <3>1 DEF ChangeAnswered
  <2>2. CASE reply = "refused"
    BY <1>12, <2>2 DEF ChangeAnswered, End
  <2> QED
    BY <1>12, <2>1, <2>2 DEF ChangeAnswered
<1>13. CASE AuthNext
  BY <1>13 DEF AuthNext, Authenticate, Answers, ServerAnswer, End, Goto
<1>14. CASE Promote
  BY <1>14 DEF Promote, PromoteFiles, Absent, End
<1>15. CASE ServerChange
  BY <1>15 DEF ServerChange, NoRequest
<1>16. CASE Expire
  BY <1>16 DEF Expire
<1>17. CASE Age
  BY <1>17 DEF Age
<1>18. CASE ServerRefuse
  BY <1>18 DEF ServerRefuse, NoRequest
<1>19. CASE ChangeFailed
  BY <1>19 DEF ChangeFailed, NoRequest, End
<1>20. CASE Interrupt
  BY <1>20 DEF Interrupt, NoRequest, Torn, End
<1>21. CASE UNCHANGED vars
  BY <1>21 DEF vars
<1> QED
  BY <1>1, <1>2, <1>3, <1>4, <1>5, <1>6, <1>7, <1>8, <1>9, <1>10, <1>11,
     <1>12, <1>13, <1>14, <1>15, <1>16, <1>17, <1>18, <1>19, <1>20, <1>21
     DEF Next, Run, Environment

(* The strengthened invariant holds in every reachable state when no       *)
(* change request outlives its run.                                        *)
THEOREM InvariantHolds ==
    ASSUME ~LateDelivery
    PROVE  Spec => []IInv
<1>1. Init => IInv
  <2>1. Init => TypeOK
    BY RotationAssumption
    DEF Init, TypeOK, ProgramPoints, StagedKinds, Absent, NoRequest
  <2> QED
    BY <2>1
    DEF Init, IInv, NoLockout, PointInv, WireInv, SuccessIsCommitted, Absent,
        NoRequest
<1>2. IInv /\ TypeOK' /\ [Next]_vars => IInv'
  BY InductiveStep
<1> QED
  BY <1>1, <1>2, TypeCorrect, PTL DEF Spec

(* The account's password is always in the password file or, complete, in  *)
(* the ".next" file, wherever runs are interrupted and however often.      *)
THEOREM NeverLockedOut ==
    ASSUME ~LateDelivery
    PROVE  Spec => []NoLockout
<1>1. IInv => NoLockout
  BY DEF IInv
<1> QED
  BY <1>1, InvariantHolds, PTL

(* A run that reports success has committed the account's password to the  *)
(* password file and left no ".next" file.                                 *)
THEOREM SuccessCommits ==
    ASSUME ~LateDelivery
    PROVE  Spec => []SuccessIsCommitted
<1>1. IInv => SuccessIsCommitted
  BY DEF IInv
<1> QED
  BY <1>1, InvariantHolds, PTL

(* The password file is only replaced by the account's password.           *)
THEOREM FileOnlyFollowsServer ==
    ASSUME ~LateDelivery
    PROVE  Spec => FileFollowsServer
<1> DEFINE Step == file'.pw # file.pw => file'.pw = server
<1>1. IInv /\ [Next]_vars => [Step]_vars
  <2> SUFFICES ASSUME IInv, Next PROVE Step
    OBVIOUS
  <2>1. CASE RecoverOk \/ RecoverExpired \/ Promote
    BY <2>1
    DEF IInv, PointInv, RecoverOk, RecoverExpired, Promote, PromoteFiles
  <2>2. CASE Age
    BY <2>2 DEF Age, IInv, TypeOK
  <2>3. CASE file' = file
    BY <2>3
  <2>4. (RecoverOk \/ RecoverExpired \/ Promote) \/ Age \/ file' = file
    BY DEF Next, Run, Environment, diskVars, Start, CheckStaged, AuthStaged,
           Discard, AuthCurrent, OpenStage, WriteStage, SyncStage, SendChange,
           ChangeAnswered, AuthNext, ServerChange, Expire, ServerRefuse,
           ChangeFailed, Interrupt
  <2> QED
    BY <2>1, <2>2, <2>3, <2>4
<1>2. Spec => [][Step]_vars
  BY <1>1, InvariantHolds, PTL DEF Spec
<1> QED
  BY <1>2 DEF FileFollowsServer

(* The server only ever switches to a password the ".next" file holds.     *)
THEOREM ChangeIsStaged ==
    ASSUME ~LateDelivery
    PROVE  Spec => StagedBeforeChange
<1> DEFINE Step ==
      server' # server => staged.kind = "full" /\ staged.pw = server'
<1>1. IInv /\ [Next]_vars => [Step]_vars
  <2> SUFFICES ASSUME IInv, Next PROVE Step
    OBVIOUS
  <2>1. CASE ServerChange
    BY <2>1 DEF IInv, PointInv, WireInv, ServerChange
  <2>2. ServerChange \/ server' = server
    BY DEF Next, Run, Environment, srvVars, Start, CheckStaged, AuthStaged,
           RecoverOk, RecoverExpired, Discard, AuthCurrent, OpenStage,
           WriteStage, SyncStage, SendChange, ChangeAnswered, AuthNext,
           Promote, Expire, Age, ServerRefuse, ChangeFailed, Interrupt
  <2> QED
    BY <2>1, <2>2
<1>2. Spec => [][Step]_vars
  BY <1>1, InvariantHolds, PTL DEF Spec
<1> QED
  BY <1>2 DEF StagedBeforeChange

=============================================================================
