-------------------------- MODULE PasswordRotation --------------------------
(***************************************************************************)
(* Rotation of the managed Linux account password,                         *)
(* cmd/scaletail/cli/account_password_rotation.go: one run of              *)
(* authenticateAccountWithPasswordRotation started by the systemd timer,   *)
(* the password file and its ".next" sibling, and the control server that  *)
(* owns the account.  A run may be interrupted between any two of its      *)
(* system calls (crash, `up --timeout`, TimeoutStartSec); the two files    *)
(* and the server's password are all that survives.                        *)
(*                                                                         *)
(* Passwords are numbers; a generated password is always a new one.  The   *)
(* retries of retryManagedAccountAuthentication and of                     *)
(* authenticateScaleTailAccount collapse into the answer that ends them.   *)
(***************************************************************************)
EXTENDS Naturals

CONSTANTS
    MaxTicks,      \* bound on the ageing and expiry events of the environment
    MaxFaults,     \* bound on interruptions, failed calls and lost answers
    CrashPoints,   \* the program points at which a run may be interrupted
    LateDelivery   \* may a change request be applied after its run is gone?

ProgramPoints ==
    {"idle", "checkStaged", "authStaged", "recoverOk", "recoverExpired",
     "discard", "authCurrent", "openStage", "writeStage", "syncStage",
     "sendChange", "awaitChange", "authNext", "promote"}

ASSUME RotationAssumption ==
    /\ MaxTicks \in Nat
    /\ MaxFaults \in Nat
    /\ CrashPoints \subseteq ProgramPoints \ {"idle"}
    /\ LateDelivery \in BOOLEAN

VARIABLES
    file,     \* the managed password file: its password, and its mtime age
    staged,   \* the ".next" file: absent, empty, torn (partly written), full
    pc,       \* where the current run is; "idle" between two runs
    cur,      \* local variable `password`
    next,     \* local variable `next`
    gen,      \* the last password generated
    reply,    \* the answer to the change request, "none" while it is awaited
    outcome,  \* how the last run ended
    server,   \* the account's password at the control server
    expired,  \* does the server consider that password expired?
    wire,     \* a change request that is still under way
    ticks,    \* environment events so far
    faults    \* faults so far

runVars  == <<pc, cur, next, gen, reply, outcome>>
diskVars == <<file, staged>>
srvVars  == <<server, expired, wire>>
vars     == <<file, staged, pc, cur, next, gen, reply, outcome,
              server, expired, wire, ticks, faults>>

StagedKinds == {"absent", "empty", "torn", "full"}

Absent   == [kind |-> "absent", pw |-> 0, old |-> FALSE]
Empty    == [kind |-> "empty",  pw |-> 0, old |-> FALSE]
Torn     == [kind |-> "torn",   pw |-> 0, old |-> FALSE]
Full(pw) == [kind |-> "full",   pw |-> pw, old |-> FALSE]

NoRequest == [on |-> FALSE, old |-> 0, new |-> 0]

(* The kind of authentication answer the rotation code tells apart:        *)
(* success, password_expired, invalid_credentials, any other error.        *)
Answers == {"ok", "expired", "invalid", "error"}

TypeOK ==
    /\ file \in [pw : Nat, old : BOOLEAN]
    /\ staged \in [kind : StagedKinds, pw : Nat, old : BOOLEAN]
    /\ pc \in ProgramPoints
    /\ cur \in Nat /\ next \in Nat /\ gen \in Nat
    /\ reply \in {"none", "ok", "refused"}
    /\ outcome \in {"none", "ok", "failed"}
    /\ server \in Nat /\ expired \in BOOLEAN
    /\ wire \in [on : BOOLEAN, old : Nat, new : Nat]
    /\ ticks \in 0..MaxTicks /\ faults \in 0..MaxFaults

(* The administrator has provisioned a password that the server accepts;   *)
(* an initial password may already be expired.                             *)
Init ==
    /\ file \in [pw : {1}, old : BOOLEAN]
    /\ staged = Absent
    /\ pc = "idle" /\ cur = 0 /\ next = 0 /\ gen = 1
    /\ reply = "none" /\ outcome = "none"
    /\ server = 1 /\ expired \in BOOLEAN
    /\ wire = NoRequest
    /\ ticks = 0 /\ faults = 0

-----------------------------------------------------------------------------
(* The control server (external).                                          *)

(* The server's answer to an authentication with password pw; a torn file  *)
(* holds a proper prefix of a password and never matches.                  *)
ServerAnswer(pw, whole) ==
    IF ~whole \/ pw # server THEN "invalid"
    ELSE IF expired THEN "expired" ELSE "ok"

(* The possible results of one `authenticate` call: the server's answer,   *)
(* or, when a fault is spent on it, an error that is neither.              *)
Authenticate(pw, whole, answer) ==
    \/ /\ answer = ServerAnswer(pw, whole)
       /\ UNCHANGED faults
    \/ /\ answer = "error"
       /\ faults < MaxFaults
       /\ faults' = faults + 1

(* The server executes the change request: it needs the current password,  *)
(* and a changed password is no longer expired.                            *)
ServerChange ==
    /\ wire.on
    /\ IF wire.old = server
       THEN server' = wire.new /\ expired' = FALSE
       ELSE UNCHANGED <<server, expired>>
    /\ reply' = IF pc # "awaitChange" THEN reply
                ELSE IF wire.old = server THEN "ok" ELSE "refused"
    /\ wire' = NoRequest
    /\ UNCHANGED <<diskVars, pc, cur, next, gen, outcome, ticks, faults>>

(* The server turns the request down, or never receives it.                *)
ServerRefuse ==
    /\ wire.on
    /\ faults < MaxFaults
    /\ faults' = faults + 1
    /\ reply' = IF pc = "awaitChange" THEN "refused" ELSE reply
    /\ wire' = NoRequest
    /\ UNCHANGED <<diskVars, pc, cur, next, gen, outcome, server, expired,
                   ticks>>

(* The account's password passes its maximum age.                          *)
Expire ==
    /\ ticks < MaxTicks
    /\ ~expired
    /\ expired' = TRUE
    /\ ticks' = ticks + 1
    /\ UNCHANGED <<diskVars, runVars, server, wire, faults>>

(* managedPasswordRotationAge passes since the file's mtime, and perhaps   *)
(* since the staged file's, whose mtime the rename will keep.              *)
Age ==
    /\ ticks < MaxTicks
    /\ file' = [file EXCEPT !.old = TRUE]
    /\ staged' \in {staged,
                    [staged EXCEPT !.old = (staged.kind = "full")]}
    /\ file' # file \/ staged' # staged
    /\ ticks' = ticks + 1
    /\ UNCHANGED <<runVars, srvVars, faults>>

-----------------------------------------------------------------------------
(* One run of the command.                                                 *)

End(result) ==
    /\ pc' = "idle"
    /\ outcome' = result
    /\ cur' = 0 /\ next' = 0 /\ reply' = "none"
    /\ UNCHANGED gen

Goto(point) ==
    /\ pc' = point
    /\ UNCHANGED <<cur, next, gen, reply, outcome>>

(* The timer starts the service: `up` reads the password file once.        *)
Start ==
    /\ pc = "idle"
    /\ pc' = "checkStaged"
    /\ cur' = file.pw
    /\ outcome' = "none"
    /\ UNCHANGED <<diskVars, next, gen, reply, srvVars, ticks, faults>>

(* readManagedPasswordFile(stagedPath): a missing file is no error, an     *)
(* empty one is, and ends the run.                                         *)
CheckStaged ==
    /\ pc = "checkStaged"
    /\ \/ staged.kind = "absent" /\ Goto("authCurrent")
       \/ staged.kind = "empty"  /\ End("failed")
       \/ staged.kind \in {"torn", "full"} /\ Goto("authStaged")
    /\ UNCHANGED <<diskVars, srvVars, ticks, faults>>

(* Mutant: every failed authentication counts as invalid credentials.      *)
AuthStagedDiscardsOnError ==
    /\ pc = "authStaged"
    /\ \E answer \in Answers :
         /\ Authenticate(staged.pw, staged.kind = "full", answer)
         /\ \/ answer = "ok"      /\ Goto("recoverOk")
            \/ answer = "expired" /\ Goto("recoverExpired")
            \/ answer \in {"invalid", "error"} /\ Goto("discard")
    /\ UNCHANGED <<diskVars, srvVars, ticks>>

(* Mutant: a staged file is promoted without asking the server.            *)
AuthStagedTrusted ==
    /\ pc = "authStaged"
    /\ staged.kind = "full"
    /\ Goto("recoverOk")
    /\ UNCHANGED <<diskVars, srvVars, ticks, faults>>

(* Mutant: an invalid staged password ends the run like any other error.   *)
AuthStagedKeepsInvalid ==
    /\ pc = "authStaged"
    /\ \E answer \in Answers :
         /\ Authenticate(staged.pw, staged.kind = "full", answer)
         /\ \/ answer = "ok"      /\ Goto("recoverOk")
            \/ answer = "expired" /\ Goto("recoverExpired")
            \/ answer \in {"invalid", "error"} /\ End("failed")
    /\ UNCHANGED <<diskVars, srvVars, ticks>>

(* Authentication with the staged password decides what the interrupted    *)
(* run had achieved.                                                       *)
AuthStaged ==
    /\ pc = "authStaged"
    /\ \E answer \in Answers :
         /\ Authenticate(staged.pw, staged.kind = "full", answer)
         /\ \/ answer = "ok"      /\ Goto("recoverOk")
            \/ answer = "expired" /\ Goto("recoverExpired")
            \/ answer = "invalid" /\ Goto("discard")
            \/ answer = "error"   /\ End("failed")
    /\ UNCHANGED <<diskVars, srvVars, ticks>>

(* promoteManagedPassword: the atomic rename.  An error of the chmod or of *)
(* the directory sync that follow ends the run as an interruption would.   *)
PromoteFiles ==
    /\ file' = [pw |-> staged.pw, old |-> staged.old]
    /\ staged' = Absent

(* The staged password is the account's: the earlier run had changed it.   *)
RecoverOk ==
    /\ pc = "recoverOk"
    /\ PromoteFiles
    /\ End("ok")
    /\ UNCHANGED <<srvVars, ticks, faults>>

(* It is, and has expired since: promote it, then rotate away from it.     *)
RecoverExpired ==
    /\ pc = "recoverExpired"
    /\ PromoteFiles
    /\ cur' = staged.pw
    /\ pc' = "authCurrent"
    /\ UNCHANGED <<next, gen, reply, outcome, srvVars, ticks, faults>>

(* Mutant: the wrong one of the two files is removed.                      *)
DiscardPasswordFile ==
    /\ pc = "discard"
    /\ file' = Absent
    /\ Goto("authCurrent")
    /\ UNCHANGED <<staged, srvVars, ticks, faults>>

(* The staged password was never accepted: remove it.                      *)
Discard ==
    /\ pc = "discard"
    /\ staged' = Absent
    /\ Goto("authCurrent")
    /\ UNCHANGED <<file, srvVars, ticks, faults>>

(* Authentication with the file's password, and its age.                   *)
AuthCurrent ==
    /\ pc = "authCurrent"
    /\ \E answer \in Answers :
         /\ Authenticate(cur, TRUE, answer)
         /\ \/ answer = "ok" /\ ~file.old /\ End("ok")
            \/ answer = "ok" /\ file.old  /\ Goto("openStage")
            \/ answer = "expired"         /\ Goto("openStage")
            \/ answer \in {"invalid", "error"} /\ End("failed")
    /\ UNCHANGED <<diskVars, srvVars, ticks>>

(* Mutant: the request leaves before the staged file is written.           *)
OpenStageSendsFirst ==
    /\ pc = "openStage"
    /\ gen' = gen + 1
    /\ next' = gen + 1
    /\ staged' = Empty
    /\ wire' = [on |-> TRUE, old |-> cur, new |-> gen + 1]
    /\ pc' = "awaitChange"
    /\ UNCHANGED <<file, cur, reply, outcome, server, expired, ticks, faults>>

(* generateManagedAccountPassword, then OpenFile with O_CREATE|O_TRUNC:    *)
(* from here until the write the ".next" file exists and is empty.         *)
OpenStage ==
    /\ pc = "openStage"
    /\ gen' = gen + 1
    /\ next' = gen + 1
    /\ staged' = Empty
    /\ pc' = "writeStage"
    /\ UNCHANGED <<file, cur, reply, outcome, srvVars, ticks, faults>>

(* file.Write: all of the password, or an error, which removes the file.   *)
WriteStage ==
    /\ pc = "writeStage"
    /\ \/ /\ staged' = Full(next)
          /\ Goto("syncStage")
          /\ UNCHANGED faults
       \/ /\ faults < MaxFaults
          /\ faults' = faults + 1
          /\ staged' = Absent
          /\ End("failed")
    /\ UNCHANGED <<file, srvVars, ticks>>

(* file.Sync and file.Close, with the same error path.                     *)
SyncStage ==
    /\ pc = "syncStage"
    /\ \/ /\ Goto("sendChange")
          /\ UNCHANGED <<staged, faults>>
       \/ /\ faults < MaxFaults
          /\ faults' = faults + 1
          /\ staged' = Absent
          /\ End("failed")
    /\ UNCHANGED <<file, srvVars, ticks>>

(* changePassword: the request leaves for the server.                      *)
SendChange ==
    /\ pc = "sendChange"
    /\ wire' = [on |-> TRUE, old |-> cur, new |-> next]
    /\ Goto("awaitChange")
    /\ UNCHANGED <<diskVars, server, expired, ticks, faults>>

(* The answer arrives.  On an error the staged file stays: the change may  *)
(* or may not have happened.                                               *)
ChangeAnswered ==
    /\ pc = "awaitChange"
    /\ \/ reply = "ok" /\ pc' = "authNext" /\ reply' = "none"
                       /\ UNCHANGED <<cur, next, gen, outcome>>
       \/ reply = "refused" /\ End("failed")
    /\ UNCHANGED <<diskVars, srvVars, ticks, faults>>

(* The request or its answer is lost and the call returns an error.  With  *)
(* LateDelivery the request itself may still be on its way.                *)
ChangeFailed ==
    /\ pc = "awaitChange"
    /\ faults < MaxFaults
    /\ faults' = faults + 1
    /\ wire' \in IF LateDelivery THEN {wire, NoRequest} ELSE {NoRequest}
    /\ End("failed")
    /\ UNCHANGED <<diskVars, server, expired, ticks>>

(* Authentication with the new password.  Any error ends the run and       *)
(* leaves the staged file for the next one.                                *)
AuthNext ==
    /\ pc = "authNext"
    /\ \E answer \in Answers :
         /\ Authenticate(next, TRUE, answer)
         /\ \/ answer = "ok" /\ Goto("promote")
            \/ answer # "ok" /\ End("failed")
    /\ UNCHANGED <<diskVars, srvVars, ticks>>

(* Mutant: the new password is reported as committed, the rename skipped.  *)
PromoteKeepsOldFile ==
    /\ pc = "promote"
    /\ End("ok")
    /\ UNCHANGED <<diskVars, srvVars, ticks, faults>>

(* The new password replaces the old one.                                  *)
Promote ==
    /\ pc = "promote"
    /\ PromoteFiles
    /\ End("ok")
    /\ UNCHANGED <<srvVars, ticks, faults>>

(* The process is gone: crash, `up --timeout`, TimeoutStartSec.  A file    *)
(* that was written and not yet synced may be torn.                        *)
Interrupt ==
    /\ pc \in CrashPoints
    /\ faults < MaxFaults
    /\ faults' = faults + 1
    /\ staged' \in IF pc = "syncStage" THEN {staged, Torn} ELSE {staged}
    /\ wire' \in IF LateDelivery THEN {wire, NoRequest} ELSE {NoRequest}
    /\ End("failed")
    /\ UNCHANGED <<file, server, expired, ticks>>

Run ==
    \/ Start \/ CheckStaged \/ AuthStaged \/ RecoverOk \/ RecoverExpired
    \/ Discard \/ AuthCurrent \/ OpenStage \/ WriteStage \/ SyncStage
    \/ SendChange \/ ChangeAnswered \/ AuthNext \/ Promote

Environment == Expire \/ Age \/ ServerRefuse \/ ChangeFailed \/ Interrupt

Next == Run \/ ServerChange \/ Environment

Spec == Init /\ [][Next]_vars

(* The timer fires every six hours (OnUnitActiveSec) and a started run     *)
(* takes its steps; the server handles the requests it receives.           *)
FairSpec == Spec /\ WF_vars(Run) /\ WF_vars(ServerChange)

-----------------------------------------------------------------------------
(* Properties.                                                             *)

(* No interruption, refusal or lost answer ever leaves the account with a  *)
(* password that neither the password file nor a complete ".next" file     *)
(* holds: staging before changing, and removing the staged file only on    *)
(* invalid_credentials, must between them never lose the only copy.        *)
NoLockout ==
    \/ file.pw = server
    \/ staged.kind = "full" /\ staged.pw = server

(* A run that reports success leaves the password file with the account's  *)
(* password and no ".next" file behind, whichever of the three ways        *)
(* (recovered, not due, rotated) it took.                                  *)
SuccessIsCommitted ==
    pc = "idle" /\ outcome = "ok" =>
        file.pw = server /\ staged.kind = "absent"

(* The password file is only ever replaced by the password the server has  *)
(* accepted: a stale or refused ".next" file is never renamed over it.     *)
FileFollowsServer ==
    [][file'.pw # file.pw => file'.pw = server]_vars

(* When the server switches to a new password, that password is already    *)
(* complete in the ".next" file, whatever happened to the run.             *)
StagedBeforeChange ==
    [][server' # server => staged.kind = "full" /\ staged.pw = server']_vars

(* Once the interruptions, refusals and expiries stop, the timer's runs    *)
(* bring the password file back to the account's password and leave no     *)
(* ".next" file: the recovery the README promises.                         *)
EventuallyRecovered ==
    <>[](file.pw = server /\ (pc = "idle" => staged.kind = "absent"))

(* They do, unless a run was interrupted between the creation of the       *)
(* ".next" file and the write to it.                                       *)
RecoveredUnlessEmpty ==
    EventuallyRecovered \/ <>(pc = "idle" /\ staged.kind = "empty")

=============================================================================
