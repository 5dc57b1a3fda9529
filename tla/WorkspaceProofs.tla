--------------------------- MODULE WorkspaceProofs ---------------------------
(***************************************************************************)
(* Proofs about the parts of the workspace, each from an invariant of its  *)
(* own part: what a suspension shuts out, which locks stay and how many    *)
(* passwords they allow, who owns a vehicle, whose documents a request     *)
(* holds, and what overlapping changes of a list leave alone; then the     *)
(* types of logins, sessions, staff and services.                          *)
(***************************************************************************)
EXTENDS MCWorkspace, Sequences, FiniteSetTheorems, WellFoundedInduction, TLAPS

(* A step of the workspace is a step of a part, or leaves it alone.        *)
LEMMA PartsStep ==
  ASSUME [Next]_vars
  PROVE  /\ V!Next \/ UNCHANGED vehiclesVars
         /\ L!Next \/ UNCHANGED loginsVars
         /\ S!Next \/ UNCHANGED sessionsVars
         /\ A!Next \/ UNCHANGED accessVars
         /\ C!Next \/ UNCHANGED servicesVars
         /\ P!Next \/ UNCHANGED permissionsVars
         /\ T!Next \/ UNCHANGED intakeVars
         /\ X!Next \/ UNCHANGED tenantsVars
<1>1. CASE Next
  BY <1>1 DEF Next
<1>2. CASE UNCHANGED vars
  BY <1>2 DEF vars
<1>3. QED BY <1>1, <1>2

-----------------------------------------------------------------------------
(* Sessions.  A suspendUser() that is alone has the status and nobody at   *)
(* it with it; once it is through, nobody is at the status.                *)
MarkingAlone(q) == sessionReq[q].pc = "mark" /\ sessionReq[q].alone

ShutTypes ==
  /\ user \in S!Account /\ sessionReq \in [Requests -> S!Request]
  /\ marker \in BOOLEAN /\ shut \in BOOLEAN

ShutInv ==
  /\ ShutTypes
  /\ \A q \in Requests :
       MarkingAlone(q) => user.status = "suspended" /\ S!Administering = {q}
  /\ shut => /\ user.status = "suspended" /\ S!Administering = {}
             /\ marker \/ "before" \notin access

LEMMA ShutInit == Init => ShutInv
<1> SUFFICES ASSUME Init PROVE ShutInv
  OBVIOUS
<1>1. S!Init
  BY DEF Init
<1>2. QED BY <1>1 DEF S!Init, ShutInv, ShutTypes, S!Account, S!Request, S!Idle, MarkingAlone

(* Nobody new comes to the status, and a token of before stays marked.     *)
LEMMA ShutKeep ==
  ASSUME ShutInv, ShutTypes', user'.status = user.status, shut' = shut,
         \A q \in Requests : \/ sessionReq'[q].pc \notin {"mark", "activate", "clear"}
                             \/ /\ sessionReq'[q].pc = sessionReq[q].pc
                                /\ sessionReq'[q].alone = sessionReq[q].alone,
         shut /\ S!Administering = {} => marker' \/ "before" \notin access'
  PROVE  ShutInv'
<1>1. S!Administering' \subseteq S!Administering
  BY DEF S!Administering
<1>2. \A q \in Requests : MarkingAlone(q)' => MarkingAlone(q) /\ q \in S!Administering'
  BY DEF MarkingAlone, S!Administering
<1>3. QED BY <1>1, <1>2 DEF ShutInv

(* A request stops, or begins with something else than the status.         *)
LEMMA ShutReplace ==
  ASSUME ShutInv, NEW q \in Requests, NEW v \in S!Request,
         v.pc \notin {"mark", "activate", "clear"},
         sessionReq' = [sessionReq EXCEPT ![q] = v],
         user' \in S!Account, user'.status = user.status,
         marker' \in BOOLEAN, shut' = shut,
         shut /\ S!Administering = {} => marker' \/ "before" \notin access'
  PROVE  ShutInv'
<1>1. ShutTypes' /\ sessionReq \in [Requests -> S!Request]
  BY DEF ShutInv, ShutTypes
<1>2. \A p \in Requests : IF p = q THEN sessionReq'[p] = v ELSE sessionReq'[p] = sessionReq[p]
  BY <1>1
<1>3. QED BY <1>1, <1>2, ShutKeep

(* Who is at the status when another comes to it is not alone.             *)
LEMMA DisturbedTypes ==
  ASSUME ShutInv
  PROVE  /\ S!Disturb(sessionReq) \in [Requests -> S!Request]
         /\ \A q \in Requests :
              LET r == S!Disturb(sessionReq)[q]
              IN  r.pc = sessionReq[q].pc /\ ~(r.pc = "mark" /\ r.alone)
  BY DEF ShutInv, ShutTypes, S!Disturb, S!Administering, S!Request

LEMMA OutdatedTypes ==
  ASSUME NEW r \in [Requests -> S!Request]
  PROVE  /\ S!Outdated(r) \in [Requests -> S!Request]
         /\ \A q \in Requests : /\ S!Outdated(r)[q].pc = r[q].pc
                                /\ S!Outdated(r)[q].alone = r[q].alone
  BY DEF S!Outdated, S!Request

LEMMA ShutTokens ==
  ASSUME ShutInv, NEW q \in Requests,
         \/ S!Login(q) \/ S!Refresh(q) \/ S!VerifyMfa(q) \/ S!IssueTokens(q)
         \/ S!Abort(q)
  PROVE  ShutInv'
<1>0. ShutTypes
  BY DEF ShutInv
<1>1. PICK v : v = [S!Idle EXCEPT !.pc = "issue"]
  OBVIOUS
<1>2. v \in S!Request /\ v.pc = "issue" /\ S!Idle \in S!Request /\ S!Idle.pc = "idle"
  BY <1>1 DEF S!Idle, S!Request
<1>3. CASE S!Login(q)
  <2>7. PICK r : r = [sessionReq EXCEPT ![q] = v]
    OBVIOUS
  <2>1. /\ r \in [Requests -> S!Request]
        /\ \A p \in Requests \ {q} : r[p] = sessionReq[p]
        /\ r[q].pc = "issue"
    BY <1>0, <1>2, <2>7 DEF ShutTypes
  <2>2. sessionReq' = sessionReq \/ sessionReq' = S!Outdated(r)
    BY <1>1, <1>3, <2>7 DEF S!Login
  <2>3. UNCHANGED <<user, marker, access, shut>>
    BY <1>3 DEF S!Login
  <2>4. \A p \in Requests : \/ sessionReq'[p].pc = "issue"
                           \/ /\ sessionReq'[p].pc = sessionReq[p].pc
                              /\ sessionReq'[p].alone = sessionReq[p].alone
    BY <2>1, <2>2, OutdatedTypes
  <2>5. ShutTypes'
    BY <1>0, <2>1, <2>2, <2>3, OutdatedTypes DEF ShutTypes
  <2>6. QED BY <2>3, <2>4, <2>5, ShutKeep DEF ShutInv
<1>4. CASE S!Refresh(q) \/ S!VerifyMfa(q)
  BY <1>0, <1>1, <1>2, <1>4, ShutReplace
     DEF S!Refresh, S!VerifyMfa, S!Start, ShutInv, ShutTypes
<1>5. CASE S!IssueTokens(q)
  <2>1. shut => marker' \/ "before" \notin access'
    BY <1>5 DEF S!IssueTokens, ShutInv
  <2>2. QED BY <1>0, <1>2, <1>5, <2>1, ShutReplace DEF S!IssueTokens, S!Answer, ShutTypes
<1>6. CASE S!Abort(q)
  BY <1>0, <1>2, <1>6, ShutReplace DEF S!Abort, S!Answer, ShutInv, ShutTypes
<1>7. QED BY <1>3, <1>4, <1>5, <1>6

(* Tokens are given up or expire, and so do markers.                       *)
LEMMA ShutTime ==
  ASSUME ShutInv, S!Logout \/ S!Expires \/ S!MarkerExpires
  PROVE  ShutInv'
<1>1. UNCHANGED <<user, sessionReq, shut>> /\ marker' \in BOOLEAN
  BY DEF S!Logout, S!Expires, S!MarkerExpires, ShutInv, ShutTypes
<1>2. shut => marker' \/ "before" \notin access'
  BY DEF S!Logout, S!Expires, S!MarkerExpires, ShutInv
<1>3. QED BY <1>1, <1>2, ShutKeep DEF ShutInv, ShutTypes

LEMMA ShutStatus ==
  ASSUME ShutInv, NEW q \in Requests,
         \/ S!Suspend(q) \/ S!MarkSuspended(q) \/ S!Activate(q) \/ S!SaveActive(q)
         \/ S!ClearSuspended(q)
  PROVE  ShutInv'
<1>0. ShutTypes
  BY DEF ShutInv
<1>1. PICK r \in [Requests -> S!Request] :
        /\ r = S!Disturb(sessionReq)
        /\ \A p \in Requests : r[p].pc = sessionReq[p].pc /\ ~(r[p].pc = "mark" /\ r[p].alone)
  BY DisturbedTypes
<1>2. CASE S!Suspend(q)
  <2>1. PICK alone \in BOOLEAN :
          alone = (S!Administering = {})
    OBVIOUS
  <2>7. PICK v : v = [S!Idle EXCEPT !.pc = "mark", !.alone = alone]
    OBVIOUS
  <2>8. v \in S!Request /\ v.pc = "mark" /\ v.alone = alone
    BY <2>7 DEF S!Idle, S!Request
  <2>9. sessionReq' = [r EXCEPT ![q] = v]
    BY <1>1, <1>2, <2>1, <2>7 DEF S!Suspend
  <2>2. ShutTypes' /\ user'.status = "suspended" /\ ~shut'
    BY <1>0, <1>2, <2>8, <2>9 DEF S!Suspend, S!Account, ShutTypes
  <2>3. /\ sessionReq'[q].pc = "mark" /\ sessionReq'[q].alone = alone
        /\ \A p \in Requests \ {q} : sessionReq'[p] = r[p]
    BY <2>8, <2>9
  <2>4. \A p \in Requests : MarkingAlone(p)' => p = q /\ alone
    BY <1>1, <2>3 DEF MarkingAlone
  <2>5. alone => S!Administering' = {q}
    BY <1>1, <2>1, <2>3 DEF S!Administering
  <2>6. QED BY <2>2, <2>4, <2>5 DEF ShutInv
<1>3. CASE S!MarkSuspended(q)
  <2>1. ShutTypes' /\ marker' /\ user' = user /\ shut' = sessionReq[q].alone
    BY <1>0, <1>3 DEF S!MarkSuspended, S!Answer, S!Idle, S!Request, ShutTypes
  <2>2. /\ sessionReq'[q].pc = "idle" /\ sessionReq[q].pc = "mark"
        /\ \A p \in Requests \ {q} : sessionReq'[p] = sessionReq[p]
    BY <1>0, <1>3 DEF S!MarkSuspended, S!Answer, S!Idle, ShutTypes
  <2>3. S!Administering' = S!Administering \ {q}
    BY <2>2 DEF S!Administering
  <2>4. \A p \in Requests : MarkingAlone(p)' => MarkingAlone(p) /\ p # q
    BY <2>2 DEF MarkingAlone
  <2>5. q \in S!Administering
    BY <2>2 DEF S!Administering
  <2>6. shut' => user.status = "suspended" /\ S!Administering = {q}
    BY <2>1, <2>2 DEF ShutInv, MarkingAlone
  <2>7. QED BY <2>1, <2>3, <2>4, <2>5, <2>6 DEF ShutInv
<1>4. CASE S!Activate(q)
  <2>1. PICK v : v = [S!Idle EXCEPT !.pc = "activate"]
    OBVIOUS
  <2>2. v \in S!Request /\ v.pc = "activate"
    BY <2>1 DEF S!Idle, S!Request
  <2>3. sessionReq' = [r EXCEPT ![q] = v]
    BY <1>1, <1>4, <2>1 DEF S!Activate
  <2>4. ShutTypes' /\ ~shut'
    BY <1>0, <1>4, <2>2, <2>3 DEF S!Activate, ShutTypes
  <2>5. QED BY <1>1, <2>2, <2>3, <2>4 DEF ShutInv, MarkingAlone
<1>6. CASE S!SaveActive(q)
  <2>1. sessionReq' = [r EXCEPT ![q].pc = "clear"]
    BY <1>1, <1>6 DEF S!SaveActive
  <2>5. sessionReq' \in [Requests -> S!Request] /\ user' \in S!Account
    BY <1>0, <1>1, <1>6, <2>1 DEF S!SaveActive, S!Account, S!Request, ShutTypes
  <2>2. ShutTypes' /\ ~shut'
    BY <1>0, <1>6, <2>5 DEF S!SaveActive, ShutTypes
  <2>3. \A p \in Requests : ~MarkingAlone(p)'
    BY <1>1, <2>1 DEF S!Request, MarkingAlone
  <2>4. QED BY <2>2, <2>3 DEF ShutInv
<1>5. CASE S!ClearSuspended(q)
  <2>1. q \in S!Administering
    BY <1>5 DEF S!ClearSuspended, S!Administering
  <2>2. S!Idle \in S!Request /\ S!Idle.pc = "idle"
    BY DEF S!Idle, S!Request
  <2>3. QED BY <1>0, <1>5, <2>1, <2>2, ShutReplace DEF S!ClearSuspended, S!Answer, ShutTypes
<1>7. QED BY <1>2, <1>3, <1>4, <1>5, <1>6

(* A status written alone leaves nobody alone with it.                     *)
LEMMA ShutUpdate ==
  ASSUME ShutInv, S!UpdateStatus
  PROVE  ShutInv'
<1>1. ShutTypes' /\ ~shut'
  BY DisturbedTypes DEF S!UpdateStatus, S!Account, ShutInv, ShutTypes
<1>2. \A p \in Requests : ~MarkingAlone(p)'
  BY DisturbedTypes DEF S!UpdateStatus, MarkingAlone
<1>3. QED BY <1>1, <1>2 DEF ShutInv

LEMMA ShutCodes ==
  ASSUME ShutInv, S!SetupMfa \/ S!GenerateBackupCodes
  PROVE  ShutInv'
<1>1. sessionReq' \in {sessionReq, S!Outdated(sessionReq)}
  BY DEF S!SetupMfa, S!GenerateBackupCodes
<1>2. ShutTypes' /\ user'.status = user.status /\ UNCHANGED <<marker, access, shut>>
  BY <1>1, OutdatedTypes
     DEF S!SetupMfa, S!GenerateBackupCodes, S!Account, ShutInv, ShutTypes
<1>3. \A p \in Requests : /\ sessionReq'[p].pc = sessionReq[p].pc
                          /\ sessionReq'[p].alone = sessionReq[p].alone
  BY <1>1, OutdatedTypes DEF ShutInv, ShutTypes
<1>4. QED BY <1>2, <1>3, ShutKeep DEF ShutInv

LEMMA ShutFactor ==
  ASSUME ShutInv, NEW q \in Requests,
         \/ S!EnableMfa(q) \/ S!SaveEnabled(q) \/ S!DisableMfa(q) \/ S!SaveDisabled(q)
  PROVE  ShutInv'
<1>0. ShutTypes
  BY DEF ShutInv
<1>1. CASE S!EnableMfa(q) \/ S!DisableMfa(q)
  <2>1. PICK v : /\ v \in {[S!Idle EXCEPT !.pc = "enable", !.mfaEnabled = user.mfaEnabled],
                          [S!Idle EXCEPT !.pc = "disable", !.mfaEnabled = user.mfaEnabled,
                                         !.mfaSecret = user.mfaSecret]}
                 /\ sessionReq' = [sessionReq EXCEPT ![q] = v]
    BY <1>1 DEF S!EnableMfa, S!DisableMfa, S!Start
  <2>2. v \in S!Request /\ v.pc \in {"enable", "disable"}
    BY <1>0, <2>1 DEF S!Idle, S!Request, S!Account, ShutTypes
  <2>3. QED BY <1>0, <1>1, <2>1, <2>2, ShutReplace
               DEF S!EnableMfa, S!DisableMfa, ShutInv, ShutTypes
<1>2. CASE S!SaveEnabled(q)
  <2>1. S!Idle \in S!Request /\ S!Idle.pc = "idle"
    BY DEF S!Idle, S!Request
  <2>2. user' \in S!Account /\ user'.status = user.status
    BY <1>0, <1>2 DEF S!SaveEnabled, S!Account, ShutTypes
  <2>3. QED BY <1>0, <1>2, <2>1, <2>2, ShutReplace
               DEF S!SaveEnabled, S!Answer, ShutInv, ShutTypes
<1>3. CASE S!SaveDisabled(q)
  <2>1. PICK r \in [Requests -> S!Request] :
          /\ sessionReq' = [r EXCEPT ![q] = S!Idle]
          /\ \A p \in Requests : r[p].pc = sessionReq[p].pc /\ r[p].alone = sessionReq[p].alone
    <3>1. sessionReq' = [sessionReq EXCEPT ![q] = S!Idle]
            \/ sessionReq' = [S!Outdated(sessionReq) EXCEPT ![q] = S!Idle]
      BY <1>3 DEF S!SaveDisabled, S!Answer
    <3>2. QED BY <1>0, <3>1, OutdatedTypes DEF ShutTypes
  <2>2. sessionReq' \in [Requests -> S!Request]
    BY <2>1 DEF S!Idle, S!Request
  <2>3. user' \in S!Account /\ user'.status = user.status
    BY <1>0, <1>3 DEF S!SaveDisabled, S!Account, ShutTypes
  <2>4. QED BY <1>0, <1>3, <2>1, <2>2, <2>3, ShutKeep DEF S!SaveDisabled, S!Idle, ShutInv, ShutTypes
<1>4. QED BY <1>1, <1>2, <1>3

LEMMA ShutNext ==
  ASSUME ShutInv, S!Next \/ UNCHANGED sessionsVars
  PROVE  ShutInv'
<1>1. CASE S!Next
  BY <1>1, ShutTokens, ShutTime, ShutStatus, ShutUpdate, ShutCodes, ShutFactor DEF S!Next
<1>2. CASE UNCHANGED sessionsVars
  BY <1>2 DEF sessionsVars, ShutInv, ShutTypes, MarkingAlone, S!Administering
<1>3. QED BY <1>1, <1>2

(* Once suspendUser() has gone through, alone, no token of before it is    *)
(* admitted, for any number of requests and however their logins, saves    *)
(* and changes of the status interleave.                                   *)
THEOREM SuspensionHolds == Spec => []SuspendedShutOut
<1>1. ShutInv /\ [Next]_vars => ShutInv'
  BY PartsStep, ShutNext
<1>2. ShutInv => SuspendedShutOut
  BY DEF ShutInv, SuspendedShutOut, S!SuspendedShutOut
<1>3. QED BY ShutInit, <1>1, <1>2, PTL DEF Spec

-----------------------------------------------------------------------------
(* Logins.  Before an account is registered nothing is locked and nobody   *)
(* is at it, so that a registration ends no lock.                          *)
LockInv ==
  /\ account \in L!Account /\ loginReq \in [Requests -> L!Request]
  /\ account.status = "absent" =>
       account.lockedUntil = "never" /\ \A q \in Requests : loginReq[q].pc = "idle"

LEMMA LockConstants == 0 \in 0..MaxFailures
  BY WorkspaceConstants DEF L!SignInConstants

LEMMA LoginIdle == L!Idle \in L!Request /\ L!Idle.pc = "idle"
  BY LockConstants DEF L!Idle, L!Request

LEMMA LockInit == Init => LockInv
<1> SUFFICES ASSUME Init PROVE LockInv
  OBVIOUS
<1>1. L!Init
  BY DEF Init
<1>2. QED BY <1>1, LockConstants, LoginIdle DEF L!Init, LockInv, L!NoAccount, L!Account

(* A request that stops or begins leaves the others in their place.        *)
LEMMA LoginAnswered ==
  ASSUME LockInv, NEW q \in Requests, L!Answer(q) \/ L!AnswerOutdating(q)
  PROVE  /\ loginReq' \in [Requests -> L!Request]
         /\ loginReq'[q].pc = "idle"
         /\ \A p \in Requests : loginReq[p].pc = "idle" => loginReq'[p].pc = "idle"
<1>1. \A p \in Requests : L!Outdated(p) \in L!Request /\ L!Outdated(p).pc = loginReq[p].pc
  BY DEF L!Outdated, L!Request, LockInv
<1>2. QED BY <1>1, LoginIdle DEF L!Answer, L!AnswerOutdating, LockInv

(* What the steps of a login, of its links and of its status do to a lock. *)
LockStep ==
  /\ LockInv'
  /\ account.lockedUntil = "ahead" /\ account'.lockedUntil # "ahead" =>
       \/ account'.lockedUntil = "past"
       \/ \E q \in Requests : loginReq[q].pc = "reset" /\ loginReq'[q].pc = "idle"

LEMMA LockStarts ==
  ASSUME LockInv, NEW q \in Requests,
         \/ L!Register(q) \/ L!ResetPassword(q) \/ L!VerifyEmail(q)
         \/ \E right \in BOOLEAN : L!Login(q, right)
  PROVE  LockStep
<1>1. CASE L!Register(q)
  <2>1. PICK v : v = [L!Idle EXCEPT !.pc = "register"] /\ loginReq' = [loginReq EXCEPT ![q] = v]
    BY <1>1 DEF L!Register, L!Start
  <2>2. v \in L!Request
    BY <2>1, LockConstants DEF L!Idle, L!Request
  <2>3. account' \in L!Account /\ account'.status = "pending_verification"
    BY <1>1, LockConstants DEF L!Register, L!NoAccount, L!Account
  <2>4. account.lockedUntil = "never"
    BY <1>1 DEF L!Register, LockInv
  <2>5. QED BY <2>1, <2>2, <2>3, <2>4 DEF LockInv, LockStep
<1>2. CASE \E right \in BOOLEAN : L!Login(q, right)
  <2>5. PICK right \in BOOLEAN :
          loginReq' = [loginReq EXCEPT ![q] =
            [L!Idle EXCEPT !.pc = "login", !.right = right,
               !.failures = account.failedLoginAttempts, !.full = account.full]]
    BY <1>2 DEF L!Login, L!Start
  <2>1. PICK v :
          /\ v = [L!Idle EXCEPT !.pc = "login", !.right = right,
                   !.failures = account.failedLoginAttempts, !.full = account.full]
          /\ loginReq' = [loginReq EXCEPT ![q] = v]
    BY <2>5
  <2>2. v \in L!Request
    BY <2>1, LockConstants DEF L!Idle, L!Request, L!Account, LockInv
  <2>3. account' = account /\ account.status # "absent"
    BY <1>2 DEF L!Login, L!Kept
  <2>4. QED BY <2>1, <2>2, <2>3 DEF LockInv, LockStep
<1>3. CASE L!ResetPassword(q)
  <2>1. PICK v :
          /\ v = [L!Idle EXCEPT !.pc = "reset", !.pending = L!Pending,
                   !.failures = account.failedLoginAttempts,
                   !.lock = account.lockedUntil # "never"]
          /\ loginReq' = [loginReq EXCEPT ![q] = v]
    BY <1>3 DEF L!ResetPassword, L!Start
  <2>2. v \in L!Request
    BY <2>1, LockConstants DEF L!Idle, L!Request, L!Account, L!Pending, LockInv
  <2>3. account' = account /\ account.status # "absent"
    BY <1>3 DEF L!ResetPassword, L!Kept
  <2>4. QED BY <2>1, <2>2, <2>3 DEF LockInv, LockStep
<1>4. CASE L!VerifyEmail(q)
  <2>1. PICK v : /\ v = [L!Idle EXCEPT !.pc = "verify", !.pending = L!Pending]
                 /\ loginReq' = [loginReq EXCEPT ![q] = v]
    BY <1>4 DEF L!VerifyEmail, L!Start
  <2>2. v \in L!Request
    BY <2>1, LockConstants DEF L!Idle, L!Request, L!Pending
  <2>3. account' = account /\ account.status # "absent"
    BY <1>4 DEF L!VerifyEmail, L!Kept
  <2>4. QED BY <2>1, <2>2, <2>3 DEF LockInv, LockStep
<1>5. QED BY <1>1, <1>2, <1>3, <1>4

LEMMA LockSaves ==
  ASSUME LockInv, NEW q \in Requests,
         \/ L!RegisterProfile(q) \/ L!LoginFails(q) \/ L!LoginSucceeds(q)
         \/ L!SaveReset(q) \/ L!SaveVerified(q)
  PROVE  LockStep
<1>0. /\ loginReq[q] \in L!Request /\ account \in L!Account /\ account.status # "absent"
      /\ L!Answer(q) \/ L!AnswerOutdating(q)
  BY DEF LockInv, L!RegisterProfile, L!LoginFails, L!WrongPassword, L!LoginSucceeds,
         L!SaveReset, L!SaveVerified
<1>1. account' \in L!Account /\ account'.status # "absent"
  <2>1. CASE L!LoginFails(q)
    <3>1. MaxFailures \in Nat
      BY WorkspaceConstants DEF L!SignInConstants
    <3>2. CASE account' = account
      BY <1>0, <3>2
    <3>3. CASE account' # account
      <4>1. PICK full \in BOOLEAN, n \in 0..MaxFailures, l \in {"never", "ahead", "past"} :
              account' = [account EXCEPT !.full = full, !.failedLoginAttempts = n, !.lockedUntil = l]
        <5>1. PICK n : n = loginReq[q].failures + 1
          OBVIOUS
        <5>7. loginReq[q].failures < MaxFailures /\ loginReq[q].failures \in 0..MaxFailures
          BY <1>0, <2>1 DEF L!LoginFails, L!WrongPassword, L!Request
        <5>2. n \in 0..MaxFailures
          BY <3>1, <5>1, <5>7
        <5>3. PICK full \in L!FullAfter :
                account' = [account EXCEPT !.full = full, !.failedLoginAttempts = n,
                              !.lockedUntil = IF n >= LockAfter THEN "ahead" ELSE @]
          BY <2>1, <3>3, <5>1 DEF L!LoginFails, L!WrongPassword
        <5>4. full \in BOOLEAN
          BY <1>0 DEF L!FullAfter, L!Account
        <5>5. PICK l \in {"never", "ahead", "past"} :
                l = IF n >= LockAfter THEN "ahead" ELSE account.lockedUntil
          BY <1>0 DEF L!Account
        <5>6. QED BY <5>2, <5>3, <5>4, <5>5
      <4>2. QED BY <1>0, <4>1 DEF L!Account
    <3>4. QED BY <3>2, <3>3
  <2>2. CASE L!LoginSucceeds(q)
    <3>1. CASE account' = account
      BY <1>0, <3>1
    <3>2. CASE account' # account
      <4>1. PICK full \in L!FullAfter :
              account' = [account EXCEPT !.full = full,
                !.failedLoginAttempts = IF loginReq[q].failures > 0 THEN 0 ELSE @]
        BY <2>2, <3>2 DEF L!LoginSucceeds
      <4>2. full \in BOOLEAN
        BY <1>0 DEF L!FullAfter, L!Account
      <4>3. QED BY <1>0, <4>1, <4>2, LockConstants DEF L!Account
    <3>3. QED BY <3>1, <3>2
  <2>3. CASE L!SaveReset(q) \/ L!SaveVerified(q)
    BY <1>0, <2>3, LockConstants DEF L!SaveReset, L!SaveVerified, L!Activated, L!Account, L!Request
  <2>4. CASE L!RegisterProfile(q)
    BY <1>0, <2>4 DEF L!RegisterProfile
  <2>5. QED BY <2>1, <2>2, <2>3, <2>4
<1>2. LockInv'
  BY <1>0, <1>1, LoginAnswered DEF LockInv
<1>3. account.lockedUntil = "ahead" => account'.lockedUntil = "ahead" \/ L!SaveReset(q)
  BY <1>0 DEF L!Account, L!RegisterProfile, L!LoginFails, L!WrongPassword, L!LoginSucceeds,
              L!SaveVerified
<1>4. L!SaveReset(q) => loginReq[q].pc = "reset" /\ loginReq'[q].pc = "idle"
  BY <1>0, LoginAnswered DEF L!SaveReset
<1>5. QED BY <1>2, <1>3, <1>4 DEF LockStep

LEMMA LockOther ==
  ASSUME LockInv,
         \/ L!ForgotPassword \/ L!ResendVerification
         \/ L!SetStatus \/ L!LockLapses \/ L!LinkExpires
  PROVE  LockStep
<1>1. account \in L!Account /\ loginReq' = loginReq
  BY DEF LockInv, L!ForgotPassword, L!ResendVerification, L!SetStatus, L!LockLapses, L!LinkExpires
<1>2. account' \in L!Account
  BY <1>1 DEF L!Account, L!ForgotPassword, L!ResendVerification, L!SetStatus, L!LockLapses,
              L!LinkExpires
<1>3. /\ account'.status = "absent" => account.status = "absent"
      /\ account'.lockedUntil = account.lockedUntil \/ L!LockLapses
  BY <1>1 DEF L!Account, L!ForgotPassword, L!ResendVerification, L!SetStatus, L!LockLapses,
              L!LinkExpires
<1>4. L!LockLapses => account.lockedUntil = "ahead" /\ account'.lockedUntil = "past"
  BY <1>1 DEF L!LockLapses, L!Locked, L!Account
<1>5. QED BY <1>1, <1>2, <1>3, <1>4 DEF LockInv, LockStep

LEMMA LockNext ==
  ASSUME LockInv, L!Next \/ UNCHANGED loginsVars
  PROVE  LockInv' /\ (LockStep \/ UNCHANGED loginsVars)
<1>1. CASE L!Next
  <2>1. LockStep
    BY <1>1, LockStarts, LockSaves, LockOther DEF L!Next
  <2>2. QED BY <2>1 DEF LockStep
<1>2. CASE UNCHANGED loginsVars
  BY <1>2 DEF loginsVars, LockInv
<1>3. QED BY <1>1, <1>2

(* A lock ends by time or by a reset of the password and by nothing else,  *)
(* for any number of logins, saves and links that overlap.                 *)
THEOREM LocksHold == Spec => LockKept
<1>1. LockInv /\ [Next]_vars => LockInv' /\ (LockStep \/ UNCHANGED loginsVars)
  BY PartsStep, LockNext
<1>2. LockStep \/ UNCHANGED loginsVars =>
        [L!Locked /\ ~L!Locked' =>
           account'.lockedUntil = "past"
             \/ \E q \in Requests : loginReq[q].pc = "reset" /\ loginReq'[q].pc = "idle"]_(L!vars)
  BY DEF LockStep, L!Locked, L!vars, loginsVars
<1>3. QED BY LockInit, <1>1, <1>2, PTL DEF Spec, LockKept, L!LockKept

-----------------------------------------------------------------------------
(* Passwords tried.  A login with a wrong password that will be answered   *)
(* as one costs what is left between the failures it has loaded and the    *)
(* lock; an idle slot costs what is left of those stored.                  *)
Guessing(q) == loginReq[q].pc = "login" /\ ~loginReq[q].right /\ ~L!Refused(q)
Going(q) == IF Guessing(q) THEN 1 ELSE 0

Left(f) == IF f < LockAfter THEN LockAfter - f ELSE 1
Cost(q) ==
  IF Guessing(q) THEN Left(loginReq[q].failures) ELSE Left(account.failedLoginAttempts)

(* Loaded when there were no failures, it will forget none.                *)
Mute(q) ==
  \/ loginReq[q].pc = "register"
  \/ /\ loginReq[q].failures = 0
     /\ loginReq[q].pc = "reset" \/ (loginReq[q].pc = "login" /\ loginReq[q].right)

Tight(g, x, y) == 2 * g + 2 * x + y * (y - 1) <= LockAfter * (LockAfter + 1)

(* What guesses are since all failures were forgotten, if one is mute.     *)
Few(c, f, going, locked, g) ==
  IF going THEN g <= f /\ g <= c /\ g < LockAfter
           ELSE g <= c /\ g <= LockAfter /\ (~locked => g < LockAfter)

Share(p, q) ==
  /\ ~L!Locked => Tight(guesses, Cost(p), Cost(q))
  /\ L!Locked => 2 * (guesses + Going(p) + Going(q)) <= LockAfter * (LockAfter + 1) + 2
  /\ Mute(p) => Few(account.failedLoginAttempts, loginReq[q].failures, Guessing(q), L!Locked, guesses)
  /\ Mute(p) /\ Mute(q) => guesses = 0

TriesInv ==
  /\ LockInv /\ guesses \in Nat
  /\ account.status = "absent" => account.failedLoginAttempts = 0
  /\ account.failedLoginAttempts = 0 => guesses = 0
  /\ \A p, q \in Requests : p # q => Share(p, q)

LEMMA TriesConstants ==
  /\ LockAfter \in Nat /\ LockAfter > 0 /\ MaxFailures \in Nat
  /\ \A f \in 0..MaxFailures : f \in Nat
  BY WorkspaceConstants DEF L!SignInConstants

(* Facts about the costs.                                                  *)
LEMMA LeftBounds ==
  ASSUME NEW f \in Nat
  PROVE  /\ Left(f) \in 1..LockAfter
         /\ f < LockAfter => Left(f) + f = LockAfter
         /\ f >= LockAfter => Left(f) = 1
  BY TriesConstants DEF Left

LEMMA Pairs ==
  ASSUME NEW x \in Nat, NEW y \in Nat, 0 < x, x <= y
  PROVE  0 <= x * (x - 1) /\ x * (x - 1) <= y * (y - 1)
<1>1. PICK d \in Nat : y = x + d
  <2>1. y - x \in Nat /\ y = x + (y - x)
    OBVIOUS
  <2>2. QED BY <2>1
<1>2. PICK e \in Nat : x = e + 1
  <2>1. x - 1 \in Nat /\ x = (x - 1) + 1
    OBVIOUS
  <2>2. QED BY <2>1
<1>3. x * (x - 1) = x * e /\ y * (y - 1) = (x + d) * (e + d)
  BY <1>1, <1>2
<1>4. (x + d) * (e + d) = x * e + x * d + d * e + d * d
  BY <1>1, <1>2
<1>5. x * e \in Nat /\ x * d \in Nat /\ d * e \in Nat /\ d * d \in Nat
  BY <1>1, <1>2
<1>6. QED BY <1>3, <1>4, <1>5

LEMMA CostsFit ==
  ASSUME NEW x \in 1..LockAfter
  PROVE  /\ 0 <= x * (x - 1)
         /\ x * (x - 1) <= LockAfter * (LockAfter - 1)
         /\ LockAfter * (LockAfter + 1) = LockAfter * (LockAfter - 1) + 2 * LockAfter
  BY TriesConstants, Pairs

(* With nothing forgotten the budget is whole.                             *)
LEMMA TightWhole ==
  ASSUME NEW x \in 1..LockAfter, NEW y \in 1..LockAfter
  PROVE  Tight(0, x, y)
  BY TriesConstants, CostsFit DEF Tight

LEMMA TightFew ==
  ASSUME NEW c \in Nat, NEW f \in Nat, NEW g \in Nat, g <= c, g <= LockAfter,
         LockAfter > 1, g <= f \/ g = LockAfter,
         g = LockAfter => f >= LockAfter
  PROVE  Tight(g, Left(c), Left(f))
<1>1. /\ Left(c) \in 1..LockAfter /\ Left(f) \in 1..LockAfter
      /\ c < LockAfter => Left(c) + c = LockAfter
      /\ c >= LockAfter => Left(c) = 1
      /\ f >= LockAfter => Left(f) = 1
  BY LeftBounds
<1>2. PICK s : s = Left(f) * (Left(f) - 1)
  OBVIOUS
<1>3. PICK t : t = LockAfter * (LockAfter - 1)
  OBVIOUS
<1>4. s \in Int /\ t \in Int /\ s <= t /\ LockAfter * (LockAfter + 1) = t + 2 * LockAfter
  BY <1>1, <1>2, <1>3, CostsFit, TriesConstants
<1>5. CASE g < LockAfter
  <2>1. g + Left(c) <= LockAfter
    BY <1>1, <1>5, TriesConstants
  <2>2. QED BY <2>1, <1>1, <1>2, <1>4, TriesConstants DEF Tight
<1>6. CASE g = LockAfter
  <2>1. Left(c) = 1 /\ Left(f) = 1
    BY <1>1, <1>6, TriesConstants
  <2>2. s = 0
    BY <1>2, <2>1
  <2>3. PICK k \in Nat : LockAfter = k + 2
    <3>1. LockAfter - 2 \in Nat /\ LockAfter = (LockAfter - 2) + 2
      BY TriesConstants
    <3>2. QED BY <3>1
  <2>4. t = (k + 2) * (k + 1) /\ (k + 2) * (k + 1) = k * k + 3 * k + 2 /\ k * k \in Nat
    BY <1>3, <2>3
  <2>5. t >= 2
    BY <2>3, <2>4
  <2>6. QED BY <1>2, <1>4, <1>6, <2>1, <2>2, <2>5, TriesConstants DEF Tight
<1>7. QED BY <1>5, <1>6, TriesConstants

TwoSlots == \E p, q : p # q /\ Requests = {p, q}

LEMMA SharesTwo ==
  ASSUME TwoSlots, NEW p \in Requests,
         \A q \in Requests : q # p => Share(p, q)' /\ Share(q, p)'
  PROVE  \A x, y \in Requests : x # y => Share(x, y)'
BY DEF TwoSlots

(* What of a slot the costs depend on.                                     *)
LEMMA SlotTypes ==
  ASSUME LockInv, NEW q \in Requests
  PROVE  /\ loginReq[q].failures \in Nat /\ account.failedLoginAttempts \in Nat
         /\ Cost(q) \in 1..LockAfter /\ Going(q) \in {0, 1}
         /\ Guessing(q) => ~Mute(q) /\ Going(q) = 1
         /\ ~Guessing(q) => Going(q) = 0
<1>1. loginReq[q].failures \in Nat /\ account.failedLoginAttempts \in Nat
  BY TriesConstants DEF LockInv, L!Request, L!Account
<1>2. QED BY <1>1, LeftBounds DEF Cost, Going, Guessing, Mute

(* A request that stops leaves the others, at most refused from now on.    *)
LEMMA TriesAnswered ==
  ASSUME LockInv, NEW p \in Requests, NEW q \in Requests, p # q,
         L!Answer(p) \/ L!AnswerOutdating(p)
  PROVE  /\ ~Guessing(p)' /\ ~Mute(p)'
         /\ Guessing(q)' => Guessing(q)
         /\ Mute(q)' <=> Mute(q)
         /\ loginReq'[q].failures = loginReq[q].failures
         /\ L!Answer(p) => (Guessing(q)' <=> Guessing(q))
<1>1. loginReq'[p] = L!Idle
  BY DEF L!Answer, L!AnswerOutdating, LockInv
<1>2. \/ loginReq'[q] = loginReq[q]
      \/ ~L!Answer(p) /\ loginReq'[q] = [loginReq[q] EXCEPT !.fresh = FALSE]
  BY DEF L!Answer, L!AnswerOutdating, L!Outdated, LockInv
<1>3. loginReq[q] \in L!Request
  BY DEF LockInv
<1>4. /\ loginReq'[q].pc = loginReq[q].pc /\ loginReq'[q].right = loginReq[q].right
      /\ loginReq'[q].failures = loginReq[q].failures
      /\ loginReq'[q].full = loginReq[q].full
      /\ loginReq'[q].fresh => loginReq[q].fresh
      /\ L!Answer(p) => loginReq'[q].fresh = loginReq[q].fresh
  BY <1>2, <1>3 DEF L!Request
<1>5. ~Guessing(p)' /\ ~Mute(p)'
  BY <1>1 DEF L!Idle, Guessing, Mute
<1>6. Mute(q)' <=> Mute(q)
  BY <1>4 DEF Mute
<1>7. (Guessing(q)' => Guessing(q)) /\ (L!Answer(p) => (Guessing(q)' <=> Guessing(q)))
  BY <1>4 DEF Guessing, L!Refused
<1>8. QED BY <1>4, <1>5, <1>6, <1>7

LEMMA TriesStarted ==
  ASSUME LockInv, NEW p \in Requests, NEW q \in Requests, p # q, NEW v, L!Start(p, v)
  PROVE  /\ ~Guessing(p) /\ ~Mute(p)
         /\ loginReq'[p] = v /\ loginReq'[q] = loginReq[q]
         /\ Mute(q)' <=> Mute(q)
         /\ Guessing(q)' <=> Guessing(q)
BY DEF LockInv, L!Start, Guessing, Mute, L!Refused

(* A request that was at no password stops, and only one that is mute can  *)
(* make a login stale without changing what is stored.                     *)
LEMMA ShareStops ==
  ASSUME TriesInv, LockInv', LockAfter > 1,
         NEW p \in Requests, NEW q \in Requests, p # q,
         L!Answer(p) \/ L!AnswerOutdating(p), ~Guessing(p),
         L!Answer(p) \/ Mute(p),
         account'.failedLoginAttempts = account.failedLoginAttempts,
         guesses' = guesses, L!Locked' => L!Locked, (L!Locked => L!Locked') \/ Mute(p)
  PROVE  Share(p, q)' /\ Share(q, p)'
<1>1. LockInv /\ guesses \in Nat /\ Share(p, q) /\ Share(q, p)
  BY DEF TriesInv
<1>2. /\ loginReq[q].failures \in Nat /\ account.failedLoginAttempts \in Nat
      /\ Going(p) = 0 /\ Going(q) \in {0, 1}
  BY <1>1, SlotTypes
<1>3. /\ ~Guessing(p)' /\ ~Mute(p)'
      /\ Guessing(q)' => Guessing(q)
      /\ Mute(q)' <=> Mute(q)
      /\ loginReq'[q].failures = loginReq[q].failures
      /\ L!Answer(p) => (Guessing(q)' <=> Guessing(q))
  BY <1>1, TriesAnswered
<1>4. Going(p)' = 0 /\ Going(q)' <= Going(q) /\ Going(q)' \in {0, 1}
  BY <1>2, <1>3 DEF Going
<1>5. Cost(p)' = Cost(p) /\ ((Guessing(q)' <=> Guessing(q)) => Cost(q)' = Cost(q))
  BY <1>3 DEF Cost
<1>6. Few(account.failedLoginAttempts, loginReq[p].failures, Guessing(p), L!Locked, guesses)'
        \/ ~Mute(q)'
  <2>1. CASE Mute(q)
    <3>1. guesses = 0 \/ L!Answer(p)
      BY <1>1, <2>1 DEF Share
    <3>2. Few(account.failedLoginAttempts, loginReq[p].failures, Guessing(p), L!Locked, guesses)
      BY <1>1, <2>1 DEF Share
    <3>3. QED BY <1>2, <1>3, <3>1, <3>2, <2>1, <1>1, TriesConstants DEF Few, Share
  <2>2. QED BY <1>3, <2>1
<1>7. L!Locked' => 2 * (guesses' + Going(p)' + Going(q)') <= LockAfter * (LockAfter + 1) + 2
  <2>1. PICK b \in Int : b = LockAfter * (LockAfter + 1)
    BY TriesConstants
  <2>2. L!Locked => 2 * (guesses + Going(p) + Going(q)) <= b + 2
    BY <1>1, <2>1 DEF Share
  <2>5. PICK g \in Nat : g = guesses /\ g = guesses'
    BY <1>1
  <2>6. PICK i \in {0, 1}, j \in {0, 1} :
          Going(p) = 0 /\ Going(p)' = 0 /\ Going(q) = i /\ Going(q)' = j /\ j <= i
    BY <1>2, <1>4
  <2>3. guesses' + Going(p)' + Going(q)' <= guesses + Going(p) + Going(q)
    BY <2>5, <2>6
  <2>4. guesses' + Going(p)' + Going(q)' \in Int /\ guesses + Going(p) + Going(q) \in Int
    BY <2>5, <2>6
  <2>7. QED BY <2>1, <2>2, <2>3, <2>4
<1>8. ~L!Locked' => Tight(guesses, Cost(p), Cost(q))' /\ Tight(guesses, Cost(q), Cost(p))'
  <2>1. CASE L!Answer(p) /\ (L!Locked => L!Locked')
    <3>1. Cost(p)' = Cost(p) /\ Cost(q)' = Cost(q)
      BY <1>3, <1>5, <2>1
    <3>2. QED BY <1>1, <2>1, <3>1 DEF Share, Tight
  <2>2. CASE Mute(p)
    <3>1. Few(account.failedLoginAttempts, loginReq[q].failures, Guessing(q), L!Locked, guesses)
      BY <1>1, <2>2 DEF Share
    <3>2. PICK f \in Nat : f = IF Guessing(q)' THEN loginReq[q].failures
                                             ELSE account.failedLoginAttempts
      BY <1>2
    <3>3. PICK c \in Nat : c = account.failedLoginAttempts
      BY <1>2
    <3>4. Cost(p)' = Left(c) /\ Cost(q)' = Left(f)
      BY <1>3, <3>2, <3>3 DEF Cost
    <3>5. /\ guesses <= c /\ guesses <= f /\ guesses <= LockAfter
          /\ guesses = LockAfter => c >= LockAfter /\ f >= LockAfter
      BY <1>1, <1>2, <1>3, <3>1, <3>2, <3>3, TriesConstants DEF Few
    <3>6. Tight(guesses, Left(c), Left(f)) /\ Tight(guesses, Left(f), Left(c))
      BY <1>1, <3>5, TightFew
    <3>7. QED BY <3>4, <3>6 DEF Tight
  <2>3. QED BY <2>1, <2>2
<1>9. Share(p, q)'
  BY <1>3, <1>7, <1>8 DEF Share
<1>10. Share(q, p)'
  <2>1. Going(q)' \in Int /\ Going(p)' \in Int /\ guesses' \in Int
    BY <1>1, <1>4
  <2>2. Going(q)' + Going(p)' = Going(p)' + Going(q)'
    BY <2>1
  <2>3. guesses' + Going(q)' + Going(p)' = guesses' + Going(p)' + Going(q)'
    BY <2>1
  <2>4. QED BY <1>3, <1>6, <1>7, <1>8, <2>3 DEF Share
<1>11. QED BY <1>9, <1>10

LEMMA SlotTypesNext ==
  ASSUME LockInv', NEW q \in Requests
  PROVE  /\ loginReq'[q].failures \in Nat /\ account'.failedLoginAttempts \in Nat
         /\ Cost(q)' \in 1..LockAfter /\ Going(q)' \in {0, 1}
         /\ Guessing(q)' => ~Mute(q)'
<1>1. loginReq'[q].failures \in Nat /\ account'.failedLoginAttempts \in Nat
  BY TriesConstants DEF LockInv, L!Request, L!Account
<1>2. Cost(q)' \in 1..LockAfter
  BY <1>1, LeftBounds DEF Cost
<1>3. QED BY <1>1, <1>2 DEF Going, Guessing, Mute

(* Once all is forgotten the whole budget is there again.                  *)
LEMMA ShareForgets ==
  ASSUME LockInv', NEW p \in Requests, NEW q \in Requests, p # q,
         guesses' = 0, ~Guessing(p)' \/ ~Guessing(q)', LockAfter > 1
  PROVE  Share(p, q)' /\ Share(q, p)'
<1>1. /\ Cost(p)' \in 1..LockAfter /\ Cost(q)' \in 1..LockAfter
      /\ account'.failedLoginAttempts \in Nat
      /\ loginReq'[p].failures \in Nat /\ loginReq'[q].failures \in Nat
  BY SlotTypesNext
<1>2. Going(p)' + Going(q)' \in {0, 1} /\ Going(q)' + Going(p)' = Going(p)' + Going(q)'
  BY DEF Going
<1>3. Tight(guesses, Cost(p), Cost(q))' /\ Tight(guesses, Cost(q), Cost(p))'
  BY <1>1, TightWhole DEF Tight
<1>4. LockAfter * (LockAfter + 1) \in Nat
  BY TriesConstants
<1>5. /\ 2 * (guesses' + Going(p)' + Going(q)') <= LockAfter * (LockAfter + 1) + 2
      /\ 2 * (guesses' + Going(q)' + Going(p)') <= LockAfter * (LockAfter + 1) + 2
  <2>1. Going(p)' \in {0, 1} /\ Going(q)' \in {0, 1}
    BY DEF Going
  <2>2. QED BY <1>2, <1>4, <2>1
<1>6. /\ Few(account.failedLoginAttempts, loginReq[p].failures, Guessing(p), L!Locked, guesses)'
      /\ Few(account.failedLoginAttempts, loginReq[q].failures, Guessing(q), L!Locked, guesses)'
  BY <1>1, TriesConstants DEF Few
<1>7. QED BY <1>3, <1>5, <1>6 DEF Share

(* A request that begins with what is stored costs what its slot did.      *)
LEMMA ShareStarts ==
  ASSUME TriesInv, NEW p \in Requests, NEW q \in Requests, p # q, NEW v, L!Start(p, v),
         account'.failedLoginAttempts = account.failedLoginAttempts, L!Locked' <=> L!Locked,
         guesses' = guesses, v.failures \in Nat,
         Mute(p)' => account.failedLoginAttempts = 0,
         Guessing(p)' => ~L!Locked /\ v.failures = account.failedLoginAttempts
  PROVE  Share(p, q)' /\ Share(q, p)'
<1>1. LockInv /\ guesses \in Nat /\ Share(p, q) /\ Share(q, p)
  BY DEF TriesInv
<1>2. /\ loginReq[q].failures \in Nat /\ account.failedLoginAttempts \in Nat
      /\ Going(p) = 0 /\ Going(q) \in {0, 1}
  <2>1. ~Guessing(p)
    BY <1>1, TriesStarted
  <2>2. QED BY <1>1, <2>1, SlotTypes
<1>3. /\ ~Guessing(p) /\ ~Mute(p)
      /\ loginReq'[p] = v /\ loginReq'[q] = loginReq[q]
      /\ Mute(q)' <=> Mute(q)
      /\ Guessing(q)' <=> Guessing(q)
  BY <1>1, TriesStarted
<1>4. L!Locked' <=> L!Locked
  OBVIOUS
<1>5. Cost(p)' = Cost(p) /\ Cost(q)' = Cost(q)
  BY <1>3 DEF Cost
<1>6. Going(q)' = Going(q) /\ (L!Locked => Going(p)' = Going(p))
  BY <1>2, <1>3 DEF Going
<1>7. ~L!Locked' => Tight(guesses, Cost(p), Cost(q))' /\ Tight(guesses, Cost(q), Cost(p))'
  BY <1>1, <1>4, <1>5 DEF Share, Tight
<1>8. L!Locked' => /\ 2 * (guesses' + Going(p)' + Going(q)') <= LockAfter * (LockAfter + 1) + 2
                   /\ 2 * (guesses' + Going(q)' + Going(p)') <= LockAfter * (LockAfter + 1) + 2
  BY <1>1, <1>4, <1>6 DEF Share
<1>9. Mute(p)' => guesses = 0
  BY DEF TriesInv
<1>10. Mute(p)' =>
         Few(account.failedLoginAttempts, loginReq[q].failures, Guessing(q), L!Locked, guesses)'
  BY <1>2, <1>3, <1>9, TriesConstants DEF Few
<1>11. Mute(q)' =>
         Few(account.failedLoginAttempts, loginReq[p].failures, Guessing(p), L!Locked, guesses)'
  <2>1. SUFFICES ASSUME Mute(q)
                 PROVE  Few(account.failedLoginAttempts, loginReq[p].failures, Guessing(p),
                            L!Locked, guesses)'
    BY <1>3
  <2>2. Few(account.failedLoginAttempts, loginReq[p].failures, Guessing(p), L!Locked, guesses)
    BY <1>1, <2>1 DEF Share
  <2>3. /\ guesses <= account.failedLoginAttempts /\ guesses <= LockAfter
        /\ ~L!Locked => guesses < LockAfter
    BY <1>3, <2>2 DEF Few
  <2>4. QED BY <1>3, <1>4, <2>3 DEF Few
<1>12. QED BY <1>3, <1>7, <1>8, <1>9, <1>10, <1>11 DEF Share

(* A wrong password: its slot costs one less and there is one guess more.  *)
LEMMA ShareFails ==
  ASSUME TriesInv, LockInv', LockAfter > 1,
         NEW p \in Requests, NEW q \in Requests, p # q,
         L!LoginFails(p), ~L!Refused(p)
  PROVE  Share(p, q)' /\ Share(q, p)'
<1>1. LockInv /\ guesses \in Nat /\ Share(p, q) /\ Share(q, p)
  BY DEF TriesInv
<1>2. PICK f \in Nat : f = loginReq[p].failures
  BY <1>1, SlotTypes
<1>3. /\ Guessing(p) /\ guesses' = guesses + 1 /\ L!AnswerOutdating(p)
      /\ account'.failedLoginAttempts = f + 1
      /\ L!Locked' <=> L!Locked \/ f + 1 >= LockAfter
  <2>1. PICK full : account' = [account EXCEPT
                 !.full = full,
                 !.failedLoginAttempts = f + 1,
                 !.lockedUntil = IF f + 1 >= LockAfter THEN "ahead" ELSE @]
    BY <1>2 DEF L!LoginFails, L!WrongPassword
  <2>2. account \in L!Account
    BY <1>1 DEF LockInv
  <2>3. account'.failedLoginAttempts = f + 1 /\ (L!Locked' <=> L!Locked \/ f + 1 >= LockAfter)
    BY <2>1, <2>2 DEF L!Account, L!Locked
  <2>4. QED BY <2>3 DEF L!LoginFails, L!WrongPassword, Guessing
<1>4. /\ ~Guessing(p)' /\ ~Mute(p)' /\ ~Mute(p)
      /\ Guessing(q)' => Guessing(q)
      /\ Mute(q)' <=> Mute(q)
      /\ loginReq'[q].failures = loginReq[q].failures
  BY <1>1, <1>3, TriesAnswered, SlotTypes
<1>5. /\ loginReq[q].failures \in Nat /\ account.failedLoginAttempts \in Nat
      /\ Going(p) = 1 /\ Going(q) \in {0, 1}
      /\ Going(p)' = 0 /\ Going(q)' \in {0, 1} /\ Going(q)' <= Going(q)
      /\ Cost(p) \in 1..LockAfter /\ Cost(q) \in 1..LockAfter
  <2>1. Going(p)' = 0 /\ Going(q)' \in {0, 1} /\ Going(q)' <= Going(q)
    BY <1>4 DEF Going
  <2>2. QED BY <1>1, <1>3, <2>1, SlotTypes
<1>6. PICK b \in Int : b = LockAfter * (LockAfter + 1)
  BY TriesConstants
<1>7. Mute(q) => guesses <= f /\ guesses <= account.failedLoginAttempts /\ guesses < LockAfter
  BY <1>1, <1>2, <1>3 DEF Share, Few
<1>8. Mute(q)' =>
         Few(account.failedLoginAttempts, loginReq[p].failures, Guessing(p), L!Locked, guesses)'
  <2>1. SUFFICES ASSUME Mute(q)
                 PROVE  /\ guesses' <= account'.failedLoginAttempts /\ guesses' <= LockAfter
                        /\ ~L!Locked' => guesses' < LockAfter
    BY <1>4 DEF Few
  <2>2. QED BY <1>1, <1>3, <1>7, <2>1, TriesConstants
<1>9. PICK x \in 1..LockAfter, y \in 1..LockAfter, s \in Int, t \in Int :
        x = Cost(p) /\ y = Cost(q) /\ s = x * (x - 1) /\ t = y * (y - 1)
  <2>1. Cost(p) * (Cost(p) - 1) \in Int /\ Cost(q) * (Cost(q) - 1) \in Int
    BY <1>5, TriesConstants
  <2>2. QED BY <1>5, <2>1
<1>10. s >= 0 /\ t >= 0 /\ (x - 1) * (x - 2) = s - 2 * (x - 1)
  BY <1>9, CostsFit, TriesConstants
<1>11. ~L!Locked => 2 * guesses + 2 * x + t <= b /\ 2 * guesses + 2 * y + s <= b
  BY <1>1, <1>6, <1>9 DEF Share, Tight
<1>12. L!Locked' => 2 * (guesses' + Going(p)' + Going(q)') <= b + 2
  <2>1. CASE L!Locked
    <3>1. 2 * (guesses + Going(p) + Going(q)) <= b + 2
      BY <1>1, <1>6, <2>1 DEF Share
    <3>2. guesses' + Going(p)' + Going(q)' <= guesses + Going(p) + Going(q)
      BY <1>1, <1>3, <1>5
    <3>3. guesses' + Going(p)' + Going(q)' \in Int /\ guesses + Going(p) + Going(q) \in Int
      BY <1>1, <1>3, <1>5
    <3>4. QED BY <1>6, <3>1, <3>2, <3>3
  <2>2. CASE ~L!Locked
    <3>1. guesses' = guesses + 1 /\ Going(p)' + Going(q)' <= 1
      BY <1>3, <1>5
    <3>2. 2 * guesses + 2 <= b
      BY <1>1, <1>9, <1>10, <1>11, <2>2, TriesConstants
    <3>3. QED BY <1>1, <1>5, <1>6, <3>1, <3>2
  <2>3. QED BY <2>1, <2>2
<1>13. ~L!Locked' => /\ x >= 2 /\ Cost(p)' = x - 1
                     /\ Cost(q)' = y \/ Cost(q)' = x - 1
  <2>1. SUFFICES ASSUME ~L!Locked'
                 PROVE  x >= 2 /\ Cost(p)' = x - 1 /\ (Cost(q)' = y \/ Cost(q)' = x - 1)
    OBVIOUS
  <2>2. f + 1 < LockAfter /\ ~L!Locked
    BY <1>2, <1>3, <2>1, TriesConstants
  <2>3. x = LockAfter - f /\ Left(f + 1) = x - 1
    BY <1>2, <1>3, <1>9, <2>2, TriesConstants DEF Cost, Left
  <2>4. Cost(p)' = x - 1
    BY <1>3, <1>4, <2>3 DEF Cost
  <2>5. CASE Guessing(q)'
    BY <1>4, <1>9, <2>4, <2>5, <2>3, <2>2, TriesConstants DEF Cost
  <2>6. CASE ~Guessing(q)'
    BY <1>3, <2>3, <2>6, <2>4, <2>2, TriesConstants DEF Cost
  <2>7. QED BY <2>5, <2>6
<1>14. ~L!Locked' => Tight(guesses, Cost(p), Cost(q))' /\ Tight(guesses, Cost(q), Cost(p))'
  <2>1. SUFFICES ASSUME ~L!Locked'
                 PROVE  Tight(guesses, Cost(p), Cost(q))' /\ Tight(guesses, Cost(q), Cost(p))'
    OBVIOUS
  <2>2. 2 * guesses + 2 * x + t <= b /\ 2 * guesses + 2 * y + s <= b
    BY <1>3, <1>11, <2>1
  <2>3. PICK u \in Nat : x = u + 2 /\ s = (u + 2) * (u + 1)
    <3>1. x - 2 \in Nat /\ x = (x - 2) + 2
      BY <1>13, <2>1, TriesConstants
    <3>2. QED BY <1>9, <3>1
  <2>4. PICK w \in Int : w = (u + 1) * u /\ s = w + 2 * (u + 1)
    <3>1. (u + 1) * u \in Int /\ (u + 2) * (u + 1) = (u + 1) * u + 2 * (u + 1)
      BY <2>3
    <3>2. QED BY <2>3, <3>1
  <2>5. Cost(p)' = u + 1 /\ Cost(p)' * (Cost(p)' - 1) = w
    BY <1>13, <2>1, <2>3, <2>4
  <2>6. CASE Cost(q)' = y
    <3>1. Cost(q)' * (Cost(q)' - 1) = t
      BY <1>9, <2>6
    <3>2. 2 * (guesses + 1) + 2 * (u + 1) + t <= b /\ 2 * (guesses + 1) + 2 * y + w <= b
      BY <1>1, <1>6, <1>9, <2>2, <2>3, <2>4, TriesConstants
    <3>3. QED BY <1>3, <1>6, <2>5, <2>6, <3>1, <3>2 DEF Tight
  <2>7. CASE Cost(q)' = x - 1
    <3>1. Cost(q)' = u + 1 /\ Cost(q)' * (Cost(q)' - 1) = w
      BY <2>3, <2>4, <2>7
    <3>2. 2 * (guesses + 1) + 2 * (u + 1) + w <= b
      BY <1>1, <1>6, <1>9, <2>2, <2>3, <2>4, TriesConstants
    <3>3. QED BY <1>3, <1>6, <2>5, <3>1, <3>2 DEF Tight
  <2>8. QED BY <1>13, <2>1, <2>6, <2>7
<1>15. L!Locked' => 2 * (guesses' + Going(q)' + Going(p)') <= b + 2
  <2>1. guesses' + Going(q)' + Going(p)' = guesses' + Going(p)' + Going(q)'
    BY <1>1, <1>3, <1>5
  <2>2. QED BY <1>12, <2>1
<1>16. QED BY <1>4, <1>6, <1>8, <1>12, <1>14, <1>15 DEF Share

LEMMA TriesInit ==
  ASSUME Init
  PROVE  TriesInv
<1>1. L!Init /\ LockInv
  BY LockInit DEF Init
<1>2. /\ account = L!NoAccount /\ guesses = 0 /\ loginReq = [q \in Requests |-> L!Idle]
  BY <1>1 DEF L!Init
<1>3. \A p \in Requests : ~Guessing(p) /\ ~Mute(p)
  BY <1>2 DEF Guessing, Mute, L!Idle
<1>4. account.failedLoginAttempts = 0 /\ ~L!Locked
  BY <1>2 DEF L!NoAccount, L!Locked
<1>5. ASSUME NEW p \in Requests, NEW q \in Requests, p # q
      PROVE  Share(p, q)
  <2>1. Tight(0, Cost(p), Cost(q))
    BY <1>1, SlotTypes, TightWhole
  <2>2. QED BY <1>2, <1>3, <1>4, <2>1 DEF Share
<1>6. QED BY <1>1, <1>2, <1>4, <1>5 DEF TriesInv

(* What every step of a login, of its links and of its status preserves.   *)
LEMMA TriesStarts ==
  ASSUME TriesInv, LockInv', TwoSlots, NEW p \in Requests,
         \/ L!Register(p) \/ L!ResetPassword(p) \/ L!VerifyEmail(p)
         \/ \E right \in BOOLEAN : L!Login(p, right)
  PROVE  TriesInv'
<1>1. LockInv /\ account.failedLoginAttempts \in Nat /\ guesses \in Nat
  BY TriesConstants DEF TriesInv, LockInv, L!Account
<1>2. /\ account' = account \/ account' = [L!NoAccount EXCEPT !.status = "pending_verification",
                                                            !.verification = "live"]
      /\ guesses' = guesses
      /\ account' # account => L!Register(p)
  BY DEF L!Register, L!ResetPassword, L!VerifyEmail, L!Login
<1>3. /\ account'.failedLoginAttempts = account.failedLoginAttempts
      /\ account'.status = "absent" => account.status = "absent"
      /\ L!Locked' <=> L!Locked
  <2>1. CASE account' = account
    BY <2>1 DEF L!Locked
  <2>2. CASE account' # account
    <3>1. /\ account.status = "absent" /\ account.lockedUntil = "never"
          /\ account.failedLoginAttempts = 0
      BY <1>1, <1>2, <2>2 DEF L!Register, TriesInv, LockInv
    <3>2. /\ account'.failedLoginAttempts = 0 /\ account'.lockedUntil = "never"
          /\ account'.status = "pending_verification"
      BY <1>2, <2>2 DEF L!NoAccount
    <3>3. QED BY <3>1, <3>2 DEF L!Locked
  <2>3. QED BY <2>1, <2>2
<1>4. PICK v : /\ L!Start(p, v) /\ v.failures \in Nat
               /\ v.pc \in {"register", "reset"} => v.failures = account.failedLoginAttempts
               /\ v.pc = "register" => account.failedLoginAttempts = 0
               /\ v.pc = "login" => ~L!Locked /\ v.failures = account.failedLoginAttempts
  <2>1. CASE L!Register(p)
    <3>1. PICK v : v = [L!Idle EXCEPT !.pc = "register"] /\ L!Start(p, v)
      BY <2>1 DEF L!Register
    <3>2. account.failedLoginAttempts = 0
      BY <2>1 DEF TriesInv, L!Register
    <3>3. v.pc = "register" /\ v.failures = 0
      BY <3>1 DEF L!Idle
    <3>4. QED BY <1>1, <3>1, <3>2, <3>3
  <2>2. CASE \E right \in BOOLEAN : L!Login(p, right)
    <3>1. PICK right \in BOOLEAN : L!Login(p, right)
      BY <2>2
    <3>2. PICK v :
            /\ v = [L!Idle EXCEPT !.pc = "login", !.right = right,
                     !.failures = account.failedLoginAttempts, !.full = account.full]
            /\ L!Start(p, v)
      BY <3>1 DEF L!Login
    <3>3. v.pc = "login" /\ v.failures = account.failedLoginAttempts
      BY <3>2 DEF L!Idle
    <3>4. ~L!Locked
      BY <3>1 DEF L!Login
    <3>5. QED BY <1>1, <3>2, <3>3, <3>4
  <2>3. CASE L!ResetPassword(p)
    <3>1. PICK v :
            /\ v = [L!Idle EXCEPT !.pc = "reset", !.pending = L!Pending,
                     !.failures = account.failedLoginAttempts,
                     !.lock = account.lockedUntil # "never"]
            /\ L!Start(p, v)
      BY <2>3 DEF L!ResetPassword
    <3>2. v.pc = "reset" /\ v.failures = account.failedLoginAttempts
      BY <3>1 DEF L!Idle
    <3>3. QED BY <1>1, <3>1, <3>2
  <2>4. CASE L!VerifyEmail(p)
    <3>1. PICK v : v = [L!Idle EXCEPT !.pc = "verify", !.pending = L!Pending] /\ L!Start(p, v)
      BY <2>4 DEF L!VerifyEmail
    <3>2. v.pc = "verify" /\ v.failures = 0 /\ 0 \in Nat
      BY <3>1 DEF L!Idle
    <3>3. QED BY <3>1, <3>2
  <2>5. QED BY <2>1, <2>2, <2>3, <2>4
<1>5. loginReq'[p] = v
  BY <1>1, <1>4 DEF L!Start, LockInv
<1>6. /\ Mute(p)' => account.failedLoginAttempts = 0
      /\ Guessing(p)' => ~L!Locked /\ v.failures = account.failedLoginAttempts
  BY <1>4, <1>5 DEF Mute, Guessing
<1>7. ASSUME NEW q \in Requests, q # p
      PROVE  Share(p, q)' /\ Share(q, p)'
  BY <1>2, <1>3, <1>4, <1>6, <1>7, ShareStarts
<1>8. QED BY <1>1, <1>2, <1>3, <1>7, SharesTwo DEF TriesInv

LEMMA TriesAnswers ==
  ASSUME TriesInv, LockInv', TwoSlots, LockAfter > 1, NEW p \in Requests,
         L!LoginFails(p) \/ L!LoginSucceeds(p)
  PROVE  TriesInv'
<1>1. LockInv /\ account \in L!Account /\ guesses \in Nat /\ loginReq[p].failures \in Nat
      /\ account.status # "absent" /\ loginReq[p].pc = "login"
  BY SlotTypes DEF TriesInv, LockInv, L!LoginFails, L!WrongPassword, L!LoginSucceeds
<1>2. CASE L!Refused(p)
  <2>1. L!Answer(p) /\ account' = account /\ guesses' = guesses /\ ~Guessing(p)
    BY <1>2 DEF L!LoginFails, L!WrongPassword, L!LoginSucceeds, Guessing
  <2>2. account'.failedLoginAttempts = account.failedLoginAttempts /\ (L!Locked' <=> L!Locked)
    BY <2>1 DEF L!Locked
  <2>3. ASSUME NEW q \in Requests, q # p
        PROVE  Share(p, q)' /\ Share(q, p)'
    BY <2>1, <2>2, <2>3, ShareStops
  <2>4. QED BY <2>1, <2>3, SharesTwo DEF TriesInv
<1>3. CASE L!LoginFails(p) /\ ~L!Refused(p)
  <2>1. ASSUME NEW q \in Requests, q # p
        PROVE  Share(p, q)' /\ Share(q, p)'
    BY <1>3, <2>1, ShareFails
  <2>2. guesses' = guesses + 1
    BY <1>3 DEF L!LoginFails, L!WrongPassword
  <2>3. account'.failedLoginAttempts = loginReq[p].failures + 1 /\ account'.status = account.status
    <3>1. PICK full, l : account' = [account EXCEPT
                 !.full = full,
                 !.failedLoginAttempts = loginReq[p].failures + 1,
                 !.lockedUntil = l]
      BY <1>3 DEF L!LoginFails, L!WrongPassword
    <3>2. QED BY <1>1, <3>1 DEF L!Account
  <2>4. account'.failedLoginAttempts # 0
    BY <1>1, <2>3
  <2>5. QED BY <1>1, <2>1, <2>2, <2>3, <2>4, SharesTwo DEF TriesInv
<1>4. CASE L!LoginSucceeds(p) /\ ~L!Refused(p)
  <2>1. PICK full : account' = [account EXCEPT
                 !.full = full,
                 !.failedLoginAttempts = IF loginReq[p].failures > 0 THEN 0 ELSE @]
    BY <1>4 DEF L!LoginSucceeds
  <2>2. /\ account'.lockedUntil = account.lockedUntil /\ account'.status = account.status
        /\ account'.failedLoginAttempts =
             IF loginReq[p].failures > 0 THEN 0 ELSE account.failedLoginAttempts
    BY <1>1, <2>1 DEF L!Account
  <2>3. /\ L!AnswerOutdating(p) /\ ~Guessing(p) /\ (L!Locked' <=> L!Locked)
        /\ loginReq[p].right
    BY <1>4, <2>2 DEF L!LoginSucceeds, Guessing, L!Locked
  <2>4. guesses' = IF loginReq[p].failures > 0 THEN 0 ELSE guesses
    BY <1>4 DEF L!LoginSucceeds
  <2>5. ASSUME NEW q \in Requests, q # p
        PROVE  Share(p, q)' /\ Share(q, p)'
    <3>1. ~Guessing(p)'
      BY <1>1, <2>3, <2>5, TriesAnswered
    <3>2. CASE loginReq[p].failures > 0
      BY <2>4, <2>5, <3>1, <3>2, ShareForgets
    <3>3. CASE ~(loginReq[p].failures > 0)
      <4>1. Mute(p) /\ guesses' = guesses
            /\ account'.failedLoginAttempts = account.failedLoginAttempts
        BY <1>1, <2>2, <2>3, <2>4, <3>3 DEF Mute
      <4>2. QED BY <2>3, <2>5, <4>1, ShareStops
    <3>4. QED BY <3>2, <3>3
  <2>6. QED BY <1>1, <2>2, <2>4, <2>5, SharesTwo DEF TriesInv
<1>5. QED BY <1>2, <1>3, <1>4

LEMMA TriesSaves ==
  ASSUME TriesInv, LockInv', TwoSlots, LockAfter > 1, NEW p \in Requests,
         L!RegisterProfile(p) \/ L!SaveReset(p) \/ L!SaveVerified(p)
  PROVE  TriesInv'
<1>1. LockInv /\ account \in L!Account /\ guesses \in Nat /\ loginReq[p].failures \in Nat
      /\ account.status # "absent" /\ ~Guessing(p)
  BY SlotTypes DEF TriesInv, LockInv, L!RegisterProfile, L!SaveReset, L!SaveVerified, Guessing
<1>2. CASE L!RegisterProfile(p) \/ L!SaveVerified(p)
  <2>1. /\ account'.failedLoginAttempts = account.failedLoginAttempts
        /\ account'.lockedUntil = account.lockedUntil /\ account'.status # "absent"
    BY <1>1, <1>2 DEF L!RegisterProfile, L!SaveVerified, L!Account, L!Activated
  <2>2. guesses' = guesses /\ (L!Locked' <=> L!Locked)
    BY <1>2, <2>1 DEF L!RegisterProfile, L!SaveVerified, L!Locked
  <2>3. (L!Answer(p) \/ L!AnswerOutdating(p)) /\ (L!Answer(p) \/ loginReq[p].pc = "register")
    BY <1>2 DEF L!RegisterProfile, L!SaveVerified
  <2>4. ASSUME NEW q \in Requests, q # p
        PROVE  Share(p, q)' /\ Share(q, p)'
    <3>1. L!Answer(p) \/ Mute(p)
      BY <2>3 DEF Mute
    <3>2. QED BY <1>1, <2>1, <2>2, <2>3, <2>4, <3>1, ShareStops
  <2>5. QED BY <1>1, <2>1, <2>2, <2>4, SharesTwo DEF TriesInv
<1>3. CASE L!SaveReset(p)
  <2>1. /\ account'.failedLoginAttempts =
             IF loginReq[p].failures > 0 THEN 0 ELSE account.failedLoginAttempts
        /\ L!Locked' => L!Locked
        /\ account'.status # "absent"
    BY <1>1, <1>3 DEF L!SaveReset, L!Account, L!Activated, L!Locked
  <2>2. /\ guesses' = IF loginReq[p].failures > 0 THEN 0 ELSE guesses
        /\ L!Answer(p) /\ loginReq[p].pc = "reset"
    BY <1>3 DEF L!SaveReset
  <2>3. ASSUME NEW q \in Requests, q # p
        PROVE  Share(p, q)' /\ Share(q, p)'
    <3>1. ~Guessing(p)'
      BY <1>1, <2>2, <2>3, TriesAnswered
    <3>2. CASE loginReq[p].failures > 0
      BY <2>2, <2>3, <3>1, <3>2, ShareForgets
    <3>3. CASE ~(loginReq[p].failures > 0)
      <4>1. Mute(p) /\ guesses' = guesses
            /\ account'.failedLoginAttempts = account.failedLoginAttempts
        BY <1>1, <2>1, <2>2, <3>3 DEF Mute
      <4>2. QED BY <1>1, <2>1, <2>2, <2>3, <4>1, ShareStops
    <3>4. QED BY <3>2, <3>3
  <2>4. QED BY <1>1, <2>1, <2>2, <2>3, SharesTwo DEF TriesInv
<1>4. QED BY <1>2, <1>3

LEMMA TriesOther ==
  ASSUME TriesInv, LockInv', LockAfter > 1,
         \/ L!ForgotPassword \/ L!ResendVerification
         \/ L!SetStatus \/ L!LockLapses \/ L!LinkExpires
  PROVE  TriesInv'
<1>1. LockInv /\ account \in L!Account /\ loginReq' = loginReq /\ guesses \in Nat
  BY DEF TriesInv, LockInv, L!ForgotPassword, L!ResendVerification, L!SetStatus, L!LockLapses,
         L!LinkExpires
<1>2. /\ account'.failedLoginAttempts = account.failedLoginAttempts
      /\ account'.status = "absent" => account.status = "absent"
  BY <1>1 DEF L!Account, L!ForgotPassword, L!ResendVerification, L!SetStatus, L!LockLapses,
              L!LinkExpires, L!Kept
<1>3. guesses' \in {0, guesses}
  BY DEF L!ForgotPassword, L!ResendVerification, L!SetStatus, L!LockLapses, L!LinkExpires
<1>4. ASSUME NEW q \in Requests
      PROVE  /\ Guessing(q)' <=> Guessing(q)
             /\ Mute(q)' <=> Mute(q)
             /\ Cost(q)' = Cost(q) /\ Going(q)' = Going(q)
  BY <1>1, <1>2 DEF Guessing, Mute, Cost, Going, L!Refused
<1>5. CASE L!LockLapses
  <2>1. guesses' = 0 /\ ~L!Locked'
    BY <1>1, <1>5 DEF L!LockLapses, L!Locked, L!Account
  <2>2. ASSUME NEW p \in Requests, NEW q \in Requests, p # q
        PROVE  Share(p, q)'
    <3>1. /\ Tight(0, Cost(p), Cost(q))
          /\ account.failedLoginAttempts \in Nat /\ loginReq[q].failures \in Nat
      BY <1>1, SlotTypes, TightWhole
    <3>2. Few(account.failedLoginAttempts, loginReq[q].failures, Guessing(q), L!Locked, guesses)'
      BY <1>1, <1>2, <2>1, <3>1, TriesConstants DEF Few
    <3>3. Tight(guesses, Cost(p), Cost(q))'
      <4>1. Cost(p)' = Cost(p) /\ Cost(q)' = Cost(q)
        BY <1>4
      <4>2. QED BY <2>1, <3>1, <4>1 DEF Tight
    <3>4. QED BY <2>1, <3>2, <3>3 DEF Share
  <2>3. QED BY <1>1, <1>2, <2>1, <2>2 DEF TriesInv
<1>6. CASE ~L!LockLapses
  <2>1. account'.lockedUntil = account.lockedUntil /\ guesses' = guesses
    BY <1>1, <1>6 DEF L!Account, L!ForgotPassword, L!ResendVerification, L!SetStatus, L!LinkExpires
  <2>2. L!Locked' <=> L!Locked
    BY <2>1 DEF L!Locked
  <2>3. ASSUME NEW p \in Requests, NEW q \in Requests, p # q, Share(p, q)
        PROVE  Share(p, q)'
    <3>1. /\ Cost(p)' = Cost(p) /\ Cost(q)' = Cost(q)
          /\ Going(p)' = Going(p) /\ Going(q)' = Going(q)
          /\ Guessing(q)' <=> Guessing(q)
      BY <1>4
    <3>2. (Mute(p)' <=> Mute(p)) /\ (Mute(q)' <=> Mute(q))
      BY <1>4
    <3>3. Tight(guesses, Cost(p), Cost(q))' <=> Tight(guesses, Cost(p), Cost(q))
      BY <2>1, <3>1 DEF Tight
    <3>4. Few(account.failedLoginAttempts, loginReq[q].failures, Guessing(q), L!Locked, guesses)'
            <=> Few(account.failedLoginAttempts, loginReq[q].failures, Guessing(q), L!Locked, guesses)
      BY <1>1, <1>2, <2>1, <2>2, <3>1 DEF Few
    <3>5. QED BY <2>1, <2>2, <2>3, <3>1, <3>2, <3>3, <3>4 DEF Share
  <2>4. QED BY <1>1, <1>2, <2>1, <2>3 DEF TriesInv
<1>7. QED BY <1>5, <1>6

LEMMA TriesBounded ==
  ASSUME TriesInv, TwoSlots, LockAfter > 1
  PROVE  GuessesBounded
<1>1. PICK p \in Requests, q \in Requests : p # q
  BY DEF TwoSlots
<1>2. LockInv /\ guesses \in Nat /\ Share(p, q)
  BY <1>1 DEF TriesInv
<1>3. PICK b \in Int : b = LockAfter * (LockAfter + 1)
  BY TriesConstants
<1>4. Going(p) \in {0, 1} /\ Going(q) \in {0, 1} /\ Cost(p) \in 1..LockAfter
  BY <1>2, SlotTypes
<1>5. PICK t \in Int : t = Cost(q) * (Cost(q) - 1) /\ 0 <= t
  <2>1. Cost(q) \in 1..LockAfter
    BY <1>2, SlotTypes
  <2>2. Cost(q) * (Cost(q) - 1) \in Int
    BY <2>1, TriesConstants
  <2>3. QED BY <2>1, <2>2, CostsFit
<1>6. CASE L!Locked
  <2>1. 2 * (guesses + Going(p) + Going(q)) <= b + 2
    BY <1>2, <1>3, <1>6 DEF Share
  <2>2. 2 * guesses <= b + 2
    BY <1>2, <1>3, <1>4, <2>1
  <2>3. QED BY <1>3, <2>2 DEF GuessesBounded, L!GuessesBounded
<1>7. CASE ~L!Locked
  <2>1. 2 * guesses + 2 * Cost(p) + t <= b
    BY <1>2, <1>3, <1>5, <1>7 DEF Share, Tight
  <2>2. 2 * guesses <= b + 2
    BY <1>2, <1>3, <1>4, <1>5, <2>1, TriesConstants
  <2>3. QED BY <1>3, <2>2 DEF GuessesBounded, L!GuessesBounded
<1>8. QED BY <1>6, <1>7

(* Two logins at a time have at most L (L + 1) / 2 + 1 wrong passwords     *)
(* answered before the account locks, for every number L > 1 of attempts   *)
(* and however they overlap with each other and with what else is saved.   *)
(* The budget is spent by the two slots together: while the account is     *)
(* open, guesses, what one login has left and the sum of 1 to what the     *)
(* other has left stay within it.                                          *)
THEOREM TriesAreBounded ==
  ASSUME TwoSlots, LockAfter > 1
  PROVE  Spec => []GuessesBounded
<1>1. TriesInv /\ [Next]_vars => TriesInv'
  <2> SUFFICES ASSUME TriesInv, [Next]_vars
               PROVE  TriesInv'
    OBVIOUS
  <2>0. LockInv
    BY DEF TriesInv
  <2>1. CASE L!Next
    <3>1. LockInv'
      BY <2>0, <2>1, LockStarts, LockSaves, LockOther DEF L!Next, LockStep
    <3>2. QED BY <2>1, <3>1, TriesStarts, TriesAnswers, TriesSaves, TriesOther DEF L!Next
  <2>2. CASE UNCHANGED loginsVars
    <3>1. account' = account /\ loginReq' = loginReq /\ guesses' = guesses
      BY <2>2 DEF loginsVars
    <3>2. \A p, q \in Requests : Share(p, q)' <=> Share(p, q)
      BY <3>1 DEF Share, Cost, Going, Guessing, Mute, L!Locked, L!Refused, Tight, Few
    <3>3. LockInv'
      BY <2>0, <3>1 DEF LockInv
    <3>4. QED BY <3>1, <3>2, <3>3 DEF TriesInv
  <2>3. QED BY <2>1, <2>2, PartsStep
<1>2. Init => TriesInv
  BY TriesInit
<1>3. TriesInv => GuessesBounded
  BY TriesBounded
<1>4. QED BY <1>1, <1>2, <1>3, PTL DEF Spec

-----------------------------------------------------------------------------
(* Vehicles.  A transfer has loaded which entry to close; while no save    *)
(* has changed the version since, that is the last one and the owner it    *)
(* has loaded is still the owner, so that what it saves keeps the two      *)
(* together.  After one the version check refuses it, for it has an entry  *)
(* to close.                                                               *)
Whole(r) ==
  r \in [pc : {r.pc}, on : {r.on}, to : {r.to}, from : {r.from}, closes : {r.closes},
         listed : {r.listed}, length : {r.length}, primary : {r.primary}, fresh : {r.fresh},
         due : {r.due}, held : {r.held}]

Transfers(r) ==
  r.pc \in {"owner", "save"} =>
    /\ r.on \in Vehicles /\ V!Exists(r.on) /\ r.to \in Things
    /\ r.closes \in Nat /\ r.closes > 0
    /\ r.fresh => /\ r.closes = Len(vehicle[r.on].history)
                  /\ r.from = vehicle[r.on].owner

OwnerInv ==
  /\ vehicle \in [Vehicles -> V!Vehicle]
  /\ vehicleReq = [q \in Requests |-> vehicleReq[q]]
  /\ \A q \in Requests : Whole(vehicleReq[q]) /\ Transfers(vehicleReq[q])
  /\ V!HistoryMatchesOwner

LEMMA OwnerInit == Init => OwnerInv
<1> SUFFICES ASSUME Init PROVE OwnerInv
  OBVIOUS
<1>1. V!Init
  BY DEF Init
<1>2. vehicle \in [Vehicles -> V!Vehicle] /\ \A v \in Vehicles : ~V!Exists(v)
  BY <1>1 DEF V!Init, V!NoVehicle, V!Vehicle, V!Exists
<1>3. vehicleReq = [q \in Requests |-> V!Idle]
  BY <1>1 DEF V!Init
<1>4. Whole(V!Idle) /\ Transfers(V!Idle)
  BY DEF Whole, Transfers, V!Idle
<1>5. QED BY <1>2, <1>3, <1>4 DEF OwnerInv, V!HistoryMatchesOwner

(* Closing the last entry and pushing the new owner's leaves one open.     *)
LEMMA HandOver ==
  ASSUME NEW h \in Seq(V!Entry), Len(h) > 0, V!Open(h) = {Len(h)}, NEW o \in Things
  PROVE  LET g == Append(V!Close(h, Len(h)), [owner |-> o, open |-> TRUE])
         IN  g \in Seq(V!Entry) /\ V!Open(g) = {Len(g)} /\ g[Len(g)].owner = o
<1>1. PICK n \in Nat \ {0} : n = Len(h)
  OBVIOUS
<1>2. PICK c : c = V!Close(h, n)
  OBVIOUS
<1>3. PICK e : e = [owner |-> o, open |-> TRUE]
  OBVIOUS
<1>4. e \in V!Entry /\ e.open /\ e.owner = o
  BY <1>3 DEF V!Entry
<1>5. /\ c \in Seq(V!Entry) /\ Len(c) = n
      /\ \A i \in 1..n : ~c[i].open
  <2>1. \A i \in 1..n : h[i] \in V!Entry /\ (h[i].open => i = n)
    BY <1>1 DEF V!Open
  <2>2. c = [h EXCEPT ![n].open = FALSE]
    BY <1>2 DEF V!Close
  <2>3. h[n] \in V!Entry
    BY <1>1, <2>1
  <2>7. PICK x \in V!Entry : x = [h[n] EXCEPT !.open = FALSE]
    BY <2>3 DEF V!Entry
  <2>8. c = [h EXCEPT ![n] = x]
    BY <2>2, <2>7
  <2>4. c \in Seq(V!Entry) /\ Len(c) = n
    BY <1>1, <2>8
  <2>5. \A i \in 1..n : ~c[i].open
    BY <1>1, <2>1, <2>3, <2>7, <2>8 DEF V!Entry
  <2>6. QED BY <2>4, <2>5
<1>6. PICK g : g = Append(c, e)
  OBVIOUS
<1>7. g \in Seq(V!Entry) /\ Len(g) = n + 1 /\ g[n + 1] = e /\ \A i \in 1..n : g[i] = c[i]
  BY <1>4, <1>5, <1>6
<1>8. V!Open(g) = {n + 1}
  BY <1>4, <1>5, <1>7 DEF V!Open
<1>9. QED BY <1>1, <1>2, <1>3, <1>4, <1>6, <1>7, <1>8

(* The vehicles there were keep owner and history, and who is still at a   *)
(* transfer goes on with what it has loaded.                               *)
Follows(q) ==
  /\ vehicleReq[q].pc \in {"owner", "save"}
  /\ vehicleReq'[q].on = vehicleReq[q].on /\ vehicleReq'[q].to = vehicleReq[q].to
  /\ vehicleReq'[q].from = vehicleReq[q].from
  /\ vehicleReq'[q].closes = vehicleReq[q].closes
  /\ vehicleReq'[q].fresh => vehicleReq[q].fresh

Kept(v) ==
  V!Exists(v)' /\ vehicle'[v].owner = vehicle[v].owner /\ vehicle'[v].history = vehicle[v].history

LEMMA OwnerKeep ==
  ASSUME OwnerInv,
         vehicle' \in [Vehicles -> V!Vehicle], \A v \in Vehicles : V!Exists(v) => Kept(v),
         V!HistoryMatchesOwner',
         vehicleReq' = [q \in Requests |-> vehicleReq'[q]],
         \A q \in Requests : /\ Whole(vehicleReq'[q])
                             /\ vehicleReq'[q].pc \in {"owner", "save"} => Follows(q)
  PROVE  OwnerInv'
<1>1. ASSUME NEW q \in Requests PROVE Transfers(vehicleReq[q])'
  <2>1. CASE vehicleReq'[q].pc \in {"owner", "save"}
    <3>1. Follows(q) /\ Transfers(vehicleReq[q])
      BY <2>1 DEF OwnerInv
    <3>2. vehicleReq[q].on \in Vehicles /\ Kept(vehicleReq[q].on)
      BY <3>1 DEF Transfers, Follows
    <3>3. QED BY <3>1, <3>2 DEF Transfers, Follows, Kept
  <2>2. CASE vehicleReq'[q].pc \notin {"owner", "save"}
    BY <2>2 DEF Transfers
  <2>3. QED BY <2>1, <2>2
<1>2. QED BY <1>1 DEF OwnerInv

(* Nothing happens to the vehicles.                                        *)
LEMMA OwnerStill ==
  ASSUME OwnerInv, vehicle' = vehicle,
         vehicleReq' = [q \in Requests |-> vehicleReq'[q]],
         \A q \in Requests : /\ Whole(vehicleReq'[q])
                             /\ vehicleReq'[q].pc \in {"owner", "save"} => Follows(q)
  PROVE  OwnerInv'
<1>1. \A v \in Vehicles : V!Exists(v) => Kept(v)
  BY DEF Kept, V!Exists
<1>2. V!HistoryMatchesOwner'
  BY DEF OwnerInv, V!HistoryMatchesOwner, V!Exists, V!Open
<1>3. QED BY <1>1, <1>2, OwnerKeep DEF OwnerInv

LEMMA OwnerReplace ==
  ASSUME OwnerInv, vehicle' = vehicle, NEW q \in Requests, NEW v,
         Whole(v), v.pc \notin {"owner", "save"}, vehicleReq' = [vehicleReq EXCEPT ![q] = v]
  PROVE  OwnerInv'
<1>1. /\ vehicleReq' = [p \in Requests |-> vehicleReq'[p]]
      /\ \A p \in Requests : vehicleReq'[p] = IF p = q THEN v ELSE vehicleReq[p]
  BY DEF OwnerInv
<1>2. \A p \in Requests : /\ Whole(vehicleReq'[p])
                          /\ vehicleReq'[p].pc \in {"owner", "save"} => Follows(p)
  BY <1>1 DEF Follows, OwnerInv
<1>3. QED BY <1>1, <1>2, OwnerStill

LEMMA RecountingWhole ==
  ASSUME NEW due PROVE Whole(V!Recounting(due)) /\ V!Recounting(due).pc = "recount"
<1>1. PICK n : n = [V!Idle EXCEPT !.pc = "recount", !.due = due]
  OBVIOUS
<1>2. Whole(n) /\ n.pc = "recount"
  BY <1>1 DEF Whole, V!Idle
<1>3. QED BY <1>1, <1>2 DEF V!Recounting

LEMMA OutdatedFollows ==
  ASSUME OwnerInv, NEW U, NEW q
  PROVE  LET r == V!Outdated(U, q)
         IN  /\ r = [p \in Requests |-> r[p]]
             /\ \A p \in Requests :
                  /\ Whole(r[p]) /\ r[p].pc = vehicleReq[p].pc /\ r[p].on = vehicleReq[p].on
                  /\ r[p].to = vehicleReq[p].to /\ r[p].from = vehicleReq[p].from
                  /\ r[p].closes = vehicleReq[p].closes
                  /\ r[p].fresh => vehicleReq[p].fresh /\ p \notin U \ {q}
<1>1. \A p \in Requests : Whole(vehicleReq[p])
  BY DEF OwnerInv
<1>2. ASSUME NEW p \in Requests
      PROVE  LET n == [vehicleReq[p] EXCEPT !.fresh = FALSE]
             IN  /\ Whole(n) /\ n.pc = vehicleReq[p].pc /\ n.on = vehicleReq[p].on
                 /\ n.to = vehicleReq[p].to /\ n.from = vehicleReq[p].from
                 /\ n.closes = vehicleReq[p].closes /\ ~n.fresh
  <2>1. PICK x : x = vehicleReq[p]
    OBVIOUS
  <2>2. PICK n : n = [x EXCEPT !.fresh = FALSE]
    OBVIOUS
  <2>3. /\ Whole(n) /\ n.pc = x.pc /\ n.on = x.on /\ n.to = x.to /\ n.from = x.from
        /\ n.closes = x.closes /\ ~n.fresh
    BY <1>1, <2>1, <2>2 DEF Whole
  <2>4. QED BY <2>1, <2>2, <2>3
<1>3. QED BY <1>1, <1>2 DEF V!Outdated

LEMMA OwnerProfiles ==
  ASSUME OwnerInv, NEW q \in Requests,
         \/ \E v \in Vehicles, o \in Things : V!LoadProfile(q, v, o)
         \/ V!SaveProfile(q) \/ V!SaveGarage(q)
         \/ \E o \in Things : V!Count(q, o) \/ V!Store(q, o) \/ V!RecountFails(q, o)
         \/ V!Finish(q) \/ V!Abort(q)
  PROVE  OwnerInv'
<1>1. Whole(V!Idle) /\ V!Idle.pc = "idle"
  BY DEF Whole, V!Idle
<1>2. ASSUME NEW v \in Vehicles, NEW o \in Things, V!LoadProfile(q, v, o)
      PROVE  OwnerInv'
  <2>1. PICK primary \in BOOLEAN :
          vehicleReq' = [vehicleReq EXCEPT ![q] =
            [V!Idle EXCEPT !.pc = "list", !.on = v, !.to = o, !.length = V!Length(o),
                           !.primary = primary]]
    BY <1>2 DEF V!LoadProfile
  <2>2. PICK n : n = [V!Idle EXCEPT !.pc = "list", !.on = v, !.to = o, !.length = V!Length(o),
                                    !.primary = primary]
    OBVIOUS
  <2>3. Whole(n) /\ n.pc = "list"
    BY <2>2 DEF Whole, V!Idle
  <2>4. QED BY <1>2, <2>1, <2>2, <2>3, OwnerReplace DEF V!LoadProfile
<1>3. CASE V!SaveProfile(q) \/ V!SaveGarage(q)
  <2>1. CASE vehicleReq' = [vehicleReq EXCEPT ![q] = V!Idle]
    BY <1>1, <1>3, <2>1, OwnerReplace DEF V!SaveProfile, V!SaveGarage
  <2>2. CASE vehicleReq' # [vehicleReq EXCEPT ![q] = V!Idle]
    <3>1. PICK x, n : vehicleReq' = [V!Outdated(V!OnOwner(x), q) EXCEPT ![q] = n]
                      /\ Whole(n) /\ n.pc \in {"idle", "recount"}
      BY <1>1, <1>3, <2>2, RecountingWhole DEF V!SaveProfile, V!SaveGarage, V!Answer
    <3>2. PICK r : r = V!Outdated(V!OnOwner(x), q)
      OBVIOUS
    <3>3. /\ r = [p \in Requests |-> r[p]]
          /\ \A p \in Requests :
               /\ Whole(r[p]) /\ r[p].pc = vehicleReq[p].pc /\ r[p].on = vehicleReq[p].on
               /\ r[p].to = vehicleReq[p].to /\ r[p].from = vehicleReq[p].from
               /\ r[p].closes = vehicleReq[p].closes /\ (r[p].fresh => vehicleReq[p].fresh)
      BY <3>2, OutdatedFollows
    <3>4. /\ vehicleReq' = [p \in Requests |-> vehicleReq'[p]]
          /\ \A p \in Requests : vehicleReq'[p] = IF p = q THEN n ELSE r[p]
      BY <3>1, <3>2, <3>3
    <3>5. vehicle' = vehicle
      BY <1>3 DEF V!SaveProfile, V!SaveGarage
    <3>6. QED BY <3>1, <3>3, <3>4, <3>5, OwnerStill DEF Follows
  <2>3. QED BY <2>1, <2>2
<1>4. ASSUME NEW o \in Things, V!Count(q, o) \/ V!Store(q, o) \/ V!RecountFails(q, o)
      PROVE  OwnerInv'
  <2>1. PICK r : r = vehicleReq[q]
    OBVIOUS
  <2>2. PICK due, held : vehicleReq' = [vehicleReq EXCEPT ![q] = [r EXCEPT !.due = due, !.held = held]]
                         /\ r.pc = "recount"
    <3>0. vehicleReq = [p \in Requests |-> vehicleReq[p]] /\ Whole(r)
      BY <2>1 DEF OwnerInv
    <3>1. CASE V!Count(q, o)
      <4>1. PICK c : vehicleReq' = [vehicleReq EXCEPT ![q].due = @ \ {o}, ![q].held[o] = c]
        BY <3>1 DEF V!Count
      <4>2. vehicleReq' = [vehicleReq EXCEPT ![q] = [r EXCEPT !.due = @ \ {o}, !.held = [@ EXCEPT ![o] = c]]]
        BY <2>1, <3>0, <4>1 DEF Whole
      <4>3. QED BY <2>1, <3>1, <4>2 DEF V!Count
    <3>2. CASE V!Store(q, o)
      <4>1. vehicleReq' = [vehicleReq EXCEPT ![q] = [r EXCEPT !.due = @, !.held = [@ EXCEPT ![o] = None]]]
        BY <2>1, <3>0, <3>2 DEF V!Store, Whole
      <4>2. QED BY <2>1, <3>2, <4>1 DEF V!Store
    <3>3. CASE V!RecountFails(q, o)
      <4>1. vehicleReq' = [vehicleReq EXCEPT ![q] = [r EXCEPT !.due = @ \ {o}, !.held = [@ EXCEPT ![o] = None]]]
        BY <2>1, <3>0, <3>3 DEF V!RecountFails, Whole
      <4>2. QED BY <2>1, <3>3, <4>1 DEF V!RecountFails
    <3>4. QED BY <1>4, <3>1, <3>2, <3>3
  <2>3. PICK n : n = [r EXCEPT !.due = due, !.held = held]
    OBVIOUS
  <2>4. Whole(r) /\ r.pc = "recount"
    BY <2>1, <2>2 DEF OwnerInv
  <2>5. Whole(n) /\ n.pc = "recount"
    BY <2>3, <2>4 DEF Whole
  <2>6. QED BY <1>4, <2>2, <2>3, <2>5, OwnerReplace DEF V!Count, V!Store, V!RecountFails
<1>5. CASE V!Finish(q) \/ V!Abort(q)
  BY <1>1, <1>5, OwnerReplace DEF V!Finish, V!Abort, V!Answer
<1>6. QED BY <1>2, <1>3, <1>4, <1>5

LEMMA OwnerElsewhere ==
  ASSUME OwnerInv, NEW v \in Vehicles, V!SaveElsewhere(v)
  PROVE  OwnerInv'
<1>1. vehicleReq' = V!Outdated(V!OnVehicle(v), None) /\ vehicle' = vehicle
  BY DEF V!SaveElsewhere
<1>2. QED BY <1>1, OutdatedFollows, OwnerStill DEF Follows

LEMMA OwnerCreates ==
  ASSUME OwnerInv, NEW q \in Requests, NEW v \in Vehicles,
         V!Delete(q, v) \/ \E o \in Things : V!Create(q, v, o)
  PROVE  OwnerInv'
<1>1. PICK due, n : /\ n = V!Recounting(due) /\ vehicleReq' = [vehicleReq EXCEPT ![q] = n]
                    /\ Whole(n) /\ n.pc = "recount"
  BY RecountingWhole DEF V!Create, V!Delete
<1>2. /\ vehicleReq' = [p \in Requests |-> vehicleReq'[p]]
      /\ \A p \in Requests : /\ Whole(vehicleReq'[p])
                             /\ vehicleReq'[p].pc \in {"owner", "save"} => Follows(p)
  <2>1. \A p \in Requests : vehicleReq'[p] = IF p = q THEN n ELSE vehicleReq[p]
    BY <1>1 DEF OwnerInv
  <2>2. QED BY <1>1, <2>1 DEF Follows, OwnerInv
<1>3. vehicle \in [Vehicles -> V!Vehicle]
  BY DEF OwnerInv
<1>4. ASSUME NEW o \in Things, V!Create(q, v, o) PROVE OwnerInv'
  <2>1. PICK e : e = [owner |-> o, open |-> TRUE]
    OBVIOUS
  <2>2. PICK h : h = <<e>>
    OBVIOUS
  <2>3. h \in Seq(V!Entry) /\ Len(h) = 1 /\ h[1].owner = o /\ V!Open(h) = {1}
    BY <2>1, <2>2 DEF V!Entry, V!Open
  <2>4. PICK x : x = [at |-> "live", owner |-> o, history |-> h]
    OBVIOUS
  <2>5. x \in V!Vehicle /\ vehicle' = [vehicle EXCEPT ![v] = x]
    BY <1>4, <2>1, <2>2, <2>3, <2>4 DEF V!Create, V!Vehicle
  <2>6. \A w \in Vehicles : V!Exists(w) => Kept(w) /\ w # v
    BY <1>3, <1>4, <2>5 DEF V!Create, Kept, V!Exists
  <2>7. V!HistoryMatchesOwner'
    <3>1. ASSUME NEW w \in Vehicles, V!Exists(w)'
          PROVE  V!Open(vehicle'[w].history) = {Len(vehicle'[w].history)}
                   /\ vehicle'[w].history[Len(vehicle'[w].history)].owner = vehicle'[w].owner
      <4>1. CASE w = v
        BY <1>3, <2>3, <2>4, <2>5, <4>1
      <4>2. CASE w # v
        BY <1>3, <2>5, <3>1, <4>2 DEF OwnerInv, V!HistoryMatchesOwner, V!Exists
      <4>3. QED BY <4>1, <4>2
    <3>2. QED BY <3>1 DEF V!HistoryMatchesOwner, V!Open, V!Exists
  <2>8. vehicle' \in [Vehicles -> V!Vehicle]
    BY <1>3, <2>5
  <2>9. QED BY <1>2, <2>6, <2>7, <2>8, OwnerKeep
<1>5. CASE V!Delete(q, v)
  <2>1. /\ vehicle' \in [Vehicles -> V!Vehicle]
        /\ \A w \in Vehicles : /\ vehicle'[w].owner = vehicle[w].owner
                               /\ vehicle'[w].history = vehicle[w].history
                               /\ V!Exists(w)' <=> V!Exists(w)
    BY <1>3, <1>5 DEF V!Delete, V!Vehicle, V!Exists
  <2>2. V!HistoryMatchesOwner'
    BY <2>1 DEF OwnerInv, V!HistoryMatchesOwner, V!Open
  <2>3. QED BY <1>2, <2>1, <2>2, OwnerKeep DEF Kept
<1>6. QED BY <1>4, <1>5

LEMMA OwnerLoads ==
  ASSUME OwnerInv, NEW q \in Requests,
         V!LoadOwner(q) \/ \E v \in Vehicles, o \in Things : V!LoadVehicle(q, v, o)
  PROVE  OwnerInv'
<1>1. ASSUME NEW v \in Vehicles, NEW o \in Things, V!LoadVehicle(q, v, o) PROVE OwnerInv'
  <2>1. PICK h : h = vehicle[v].history
    OBVIOUS
  <2>2. /\ V!Open(h) = {Len(h)} /\ h \in Seq(V!Entry) /\ V!Exists(v)
        /\ vehicle' = vehicle
    BY <1>1, <2>1 DEF V!LoadVehicle, OwnerInv, V!HistoryMatchesOwner, V!Vehicle
  <2>3. Len(h) \in Nat /\ Len(h) > 0
    BY <2>2 DEF V!Open
  <2>4. V!Min({Len(h)}) = Len(h)
    BY <2>3 DEF V!Min
  <2>5. PICK n : n = [V!Idle EXCEPT !.pc = "owner", !.on = v, !.to = o, !.from = vehicle[v].owner,
                                    !.closes = Len(h)]
    OBVIOUS
  <2>6. vehicleReq' = [vehicleReq EXCEPT ![q] = n]
    BY <1>1, <2>1, <2>2, <2>4, <2>5 DEF V!LoadVehicle
  <2>7. /\ Whole(n) /\ n.pc = "owner" /\ n.on = v /\ n.to = o /\ n.from = vehicle[v].owner
        /\ n.closes = Len(h)
    BY <2>5 DEF Whole, V!Idle
  <2>8. Transfers(n)'
    BY <2>1, <2>2, <2>3, <2>7 DEF Transfers, V!Exists
  <2>9. QED BY <2>2, <2>6, <2>7, <2>8
               DEF OwnerInv, Transfers, V!HistoryMatchesOwner, V!Exists, V!Open
<1>2. CASE V!LoadOwner(q)
  <2>1. PICK r : r = vehicleReq[q]
    OBVIOUS
  <2>2. Whole(r) /\ Transfers(r) /\ r.pc = "owner" /\ vehicle' = vehicle
    BY <1>2, <2>1 DEF V!LoadOwner, OwnerInv
  <2>3. PICK listed : vehicleReq' = [vehicleReq EXCEPT ![q] = [r EXCEPT !.pc = "save", !.listed = listed]]
    <3>1. vehicleReq = [p \in Requests |-> vehicleReq[p]]
      BY DEF OwnerInv
    <3>2. PICK listed : vehicleReq' = [vehicleReq EXCEPT ![q].pc = "save", ![q].listed = listed]
      BY <1>2 DEF V!LoadOwner
    <3>3. vehicleReq' = [vehicleReq EXCEPT ![q] = [r EXCEPT !.pc = "save", !.listed = listed]]
      BY <2>1, <2>2, <3>1, <3>2 DEF Whole
    <3>4. QED BY <3>3
  <2>4. PICK n : n = [r EXCEPT !.pc = "save", !.listed = listed]
    OBVIOUS
  <2>5. /\ Whole(n) /\ n.pc = "save" /\ n.on = r.on /\ n.to = r.to /\ n.from = r.from
        /\ n.closes = r.closes /\ n.fresh = r.fresh
    BY <2>2, <2>4 DEF Whole
  <2>6. \A p \in Requests : vehicleReq'[p] = IF p = q THEN n ELSE vehicleReq[p]
    BY <2>3, <2>4 DEF OwnerInv
  <2>7. vehicleReq' = [p \in Requests |-> vehicleReq'[p]]
    BY <2>3, <2>4 DEF OwnerInv
  <2>8. \A p \in Requests : /\ Whole(vehicleReq'[p])
                            /\ vehicleReq'[p].pc \in {"owner", "save"} => Follows(p)
    BY <2>1, <2>2, <2>5, <2>6 DEF Follows, OwnerInv
  <2>9. QED BY <2>2, <2>7, <2>8, OwnerStill
<1>3. QED BY <1>1, <1>2

(* A save that is not refused has loaded the last version: it closes the   *)
(* last entry and pushes the owner it writes.                              *)
LEMMA OwnerSaves ==
  ASSUME OwnerInv, NEW q \in Requests, V!SaveTransfer(q)
  PROVE  OwnerInv'
<1>1. PICK r : r = vehicleReq[q]
  OBVIOUS
<1>2. Whole(r) /\ Transfers(r) /\ r.pc = "save"
  BY <1>1 DEF V!SaveTransfer, OwnerInv
<1>3. PICK v \in Vehicles : v = r.on
  BY <1>2 DEF Transfers
<1>4. vehicle \in [Vehicles -> V!Vehicle] /\ r.closes > 0 /\ r.to \in Things /\ V!Exists(v)
  BY <1>2, <1>3 DEF Transfers, OwnerInv
<1>5. CASE ~r.fresh
  <2>1. Whole(V!Idle) /\ V!Idle.pc = "idle"
    BY DEF Whole, V!Idle
  <2>2. vehicleReq' = [vehicleReq EXCEPT ![q] = V!Idle] /\ vehicle' = vehicle
    BY <1>1, <1>4, <1>5 DEF V!SaveTransfer, V!Answer
  <2>3. QED BY <2>1, <2>2, OwnerReplace
<1>6. CASE r.fresh
  <2>1. PICK h \in Seq(V!Entry) : h = vehicle[v].history
    BY <1>4 DEF V!Vehicle
  <2>2. r.closes = Len(h) /\ Len(h) > 0 /\ r.from = vehicle[v].owner /\ V!Open(h) = {Len(h)}
    BY <1>2, <1>3, <1>4, <1>6, <2>1 DEF Transfers, OwnerInv, V!HistoryMatchesOwner
  <2>3. PICK g \in Seq(V!Entry) :
          /\ g = Append(V!Close(h, Len(h)), [owner |-> r.to, open |-> TRUE])
          /\ V!Open(g) = {Len(g)} /\ g[Len(g)].owner = r.to
    BY <1>4, <2>2, HandOver
  <2>4. vehicle' = [vehicle EXCEPT ![v].owner = IF r.to = r.from THEN @ ELSE r.to,
                                   ![v].history = g]
    BY <1>1, <1>3, <1>4, <1>6, <2>1, <2>2, <2>3 DEF V!SaveTransfer
  <2>5. /\ vehicle' \in [Vehicles -> V!Vehicle]
        /\ vehicle'[v].owner = r.to /\ vehicle'[v].history = g /\ V!Exists(v)'
        /\ \A w \in Vehicles \ {v} : vehicle'[w] = vehicle[w]
    BY <1>4, <2>2, <2>4 DEF V!Vehicle, V!Exists
  <2>6. V!HistoryMatchesOwner'
    <3>1. ASSUME NEW w \in Vehicles, V!Exists(w)'
          PROVE  V!Open(vehicle'[w].history) = {Len(vehicle'[w].history)}
                   /\ vehicle'[w].history[Len(vehicle'[w].history)].owner = vehicle'[w].owner
      <4>1. CASE w = v
        BY <2>3, <2>5, <4>1
      <4>2. CASE w # v
        BY <2>5, <3>1, <4>2 DEF OwnerInv, V!HistoryMatchesOwner, V!Exists
      <4>3. QED BY <4>1, <4>2
    <3>2. QED BY <3>1 DEF V!HistoryMatchesOwner, V!Open, V!Exists
  <2>7. PICK s, n : /\ s = V!Outdated(V!OnVehicle(v), q)
                    /\ vehicleReq' = [s EXCEPT ![q] = n]
                    /\ Whole(n) /\ n.pc \in {"recount", "garage"}
    <3>1. PICK s : s = V!Outdated(V!OnVehicle(v), q)
      OBVIOUS
    <3>2. CASE r.listed
      <4>1. PICK n : n = V!Recounting({r.from, r.to}) /\ Whole(n) /\ n.pc = "recount"
        BY RecountingWhole
      <4>2. vehicleReq' = [s EXCEPT ![q] = n]
        BY <1>1, <1>3, <1>4, <1>6, <3>1, <3>2, <4>1 DEF V!SaveTransfer
      <4>3. QED BY <3>1, <4>1, <4>2
    <3>3. CASE ~r.listed
      <4>1. PICK n : n = [r EXCEPT !.pc = "garage"]
        OBVIOUS
      <4>2. Whole(n) /\ n.pc = "garage"
        BY <1>2, <4>1 DEF Whole
      <4>3. vehicleReq' = [s EXCEPT ![q] = n]
        BY <1>1, <1>3, <1>4, <1>6, <3>1, <3>3, <4>1 DEF V!SaveTransfer
      <4>4. QED BY <3>1, <4>2, <4>3
    <3>4. QED BY <3>2, <3>3
  <2>8. /\ s = [p \in Requests |-> s[p]]
        /\ \A p \in Requests :
             /\ Whole(s[p]) /\ s[p].pc = vehicleReq[p].pc /\ s[p].on = vehicleReq[p].on
             /\ s[p].to = vehicleReq[p].to /\ s[p].from = vehicleReq[p].from
             /\ s[p].closes = vehicleReq[p].closes
             /\ s[p].fresh => vehicleReq[p].fresh /\ p \notin V!OnVehicle(v) \ {q}
    BY <2>7, OutdatedFollows
  <2>9. /\ vehicleReq' = [p \in Requests |-> vehicleReq'[p]]
        /\ \A p \in Requests : vehicleReq'[p] = IF p = q THEN n ELSE s[p]
    BY <2>7, <2>8
  <2>10. ASSUME NEW p \in Requests PROVE Whole(vehicleReq'[p]) /\ Transfers(vehicleReq[p])'
    <3>1. CASE p = q
      BY <2>7, <2>9, <3>1 DEF Transfers
    <3>2. CASE p # q
      <4>1. vehicleReq'[p] = s[p] /\ Transfers(vehicleReq[p])
        BY <2>9, <3>2 DEF OwnerInv
      <4>2. CASE s[p].pc \notin {"owner", "save"}
        BY <2>8, <4>1, <4>2 DEF Transfers
      <4>3. CASE s[p].pc \in {"owner", "save"} /\ s[p].on = v
        <5>1. p \in V!OnVehicle(v)
          BY <2>8, <4>3 DEF V!OnVehicle
        <5>2. ~s[p].fresh
          BY <2>8, <3>2, <5>1
        <5>3. QED BY <2>5, <2>8, <4>1, <4>3, <5>2 DEF Transfers
      <4>4. CASE s[p].pc \in {"owner", "save"} /\ s[p].on # v
        <5>1. s[p].on \in Vehicles /\ vehicle'[s[p].on] = vehicle[s[p].on]
          BY <2>5, <2>8, <4>1, <4>4 DEF Transfers
        <5>2. QED BY <2>8, <4>1, <4>4, <5>1 DEF Transfers, V!Exists
      <4>5. QED BY <4>2, <4>3, <4>4
    <3>3. QED BY <3>1, <3>2
  <2>11. QED BY <2>5, <2>6, <2>9, <2>10 DEF OwnerInv
<1>7. QED BY <1>5, <1>6

LEMMA OwnerNext ==
  ASSUME OwnerInv, V!Next \/ UNCHANGED vehiclesVars
  PROVE  OwnerInv'
<1>1. CASE V!Next
  BY <1>1, OwnerCreates, OwnerLoads, OwnerSaves, OwnerProfiles, OwnerElsewhere DEF V!Next
<1>2. CASE UNCHANGED vehiclesVars
  <2>1. vehicle' = vehicle /\ vehicleReq' = vehicleReq
    BY <1>2 DEF vehiclesVars
  <2>2. QED BY <2>1 DEF OwnerInv, Transfers, Whole, V!HistoryMatchesOwner, V!Exists, V!Open
<1>3. QED BY <1>1, <1>2

(* The history of every vehicle has one open entry, the last, of its       *)
(* current owner, for any number of transfers that overlap each other,     *)
(* other saves of the vehicle and failures.                                *)
THEOREM OwnerIsLastInHistory == Spec => []HistoryMatchesOwner
<1>1. OwnerInv /\ [Next]_vars => OwnerInv'
  BY PartsStep, OwnerNext
<1>2. OwnerInv => HistoryMatchesOwner
  BY DEF OwnerInv, HistoryMatchesOwner
<1>3. QED BY OwnerInit, <1>1, <1>2, PTL DEF Spec

-----------------------------------------------------------------------------
(* Tenants.  A user is recognised only if there is one.                    *)
ScopedCall(r) == r.known => r.user \in X!User

ScopeInv == X!TypeOK /\ \A q \in Requests : ScopedCall(scopeReq[q])

(* A request of a user with a tenant carries the tenant in its context.    *)
(* Its copy of the document it holds has that tenant, or the one it has    *)
(* named; the document has it too, or is deleted, whoever has saved it     *)
(* since.                                                                  *)
AskedBy(r) == IF r.named = None THEN r.user.tenant ELSE r.named

BoundToTenant(r) ==
  /\ ~r.context.admin /\ r.context.filled /\ r.context.tenant = r.user.tenant
  /\ r.held # None => r.copy = AskedBy(r) /\ scoped[r.held] \in {AskedBy(r), "deleted"}

IsScoped(r) == r.known /\ ~r.user.admin /\ r.user.tenant # None

BoundInv == ~torn => \A q \in Requests : IsScoped(scopeReq[q]) => BoundToTenant(scopeReq[q])

LEMMA ScopeIdle == X!Idle \in X!Request /\ ScopedCall(X!Idle)
  BY DEF X!Idle, X!NoContext, X!Request, X!Context, ScopedCall

LEMMA ScopeContext ==
  ASSUME NEW u \in X!User \cup {None}, NEW h \in Things \cup {None}
  PROVE  X!ContextOf(u, h) \in X!Context
<1>1. CASE u = None
  BY <1>1 DEF X!ContextOf, X!NoContext, X!Context
<1>2. CASE u # None
  BY <1>2 DEF X!ContextOf, X!User, X!Context
<1>3. QED BY <1>1, <1>2

LEMMA ScopeStamp ==
  ASSUME NEW c \in X!Context, NEW t \in Things \cup {None}
  PROVE  X!Stamped(c, t) \in Things \cup {None}
  BY DEF X!Stamped, X!Context

LEMMA ScopeInit == Init => ScopeInv
  BY ScopeIdle DEF Init, X!Init, ScopeInv, X!TypeOK

LEMMA ScopeStep ==
  ASSUME ScopeInv, [Next]_vars
  PROVE  ScopeInv'
<1>0. X!TypeOK /\ \A q \in Requests : ScopedCall(scopeReq[q])
  BY DEF ScopeInv
<1>1. CASE UNCHANGED tenantsVars
  BY <1>0, <1>1 DEF ScopeInv, X!TypeOK, tenantsVars
<1>2. ASSUME NEW q \in Requests,
             \/ X!Enter(q) \/ X!Authenticate(q) \/ X!EnterAnonymous(q)
             \/ X!Find(q) \/ X!Save(q) \/ X!Create(q) \/ X!Delete(q) \/ X!Leave(q)
      PROVE  ScopeInv'
  <2>0. scopeReq[q] \in X!Request /\ ScopedCall(scopeReq[q])
    BY <1>0 DEF X!TypeOK
  <2>1. CASE X!Enter(q)
    <3>1. PICK u \in X!User, h \in Things \cup {None}, known \in BOOLEAN :
            scopeReq' = [scopeReq EXCEPT ![q] = [X!Idle EXCEPT
                      !.pc = "route", !.user = u, !.known = known,
                      !.context = X!ContextOf(IF known THEN u ELSE None, h)]]
      BY <2>1 DEF X!Enter
    <3>2. X!ContextOf(IF known THEN u ELSE None, h) \in X!Context
      BY ScopeContext
    <3>3. scopeReq'[q] \in X!Request /\ ScopedCall(scopeReq'[q])
      BY <3>1, <3>2, <1>0 DEF X!TypeOK, X!Idle, X!Request, ScopedCall
    <3>4. QED BY <2>1, <3>1, <3>3, <1>0 DEF ScopeInv, X!TypeOK, X!Enter
  <2>2. CASE X!Authenticate(q)
    BY <2>2, <2>0, <1>0 DEF ScopeInv, X!TypeOK, X!Authenticate, X!Request, ScopedCall
  <2>3. CASE X!EnterAnonymous(q)
    <3>1. PICK h \in Things \cup {None} :
            scopeReq' = [scopeReq EXCEPT ![q] = [X!Idle EXCEPT
                      !.pc = "handler", !.context = X!ContextOf(None, h)]]
      BY <2>3 DEF X!EnterAnonymous
    <3>2. X!ContextOf(None, h) \in X!Context
      BY ScopeContext
    <3>3. scopeReq'[q] \in X!Request /\ ScopedCall(scopeReq'[q])
      BY <3>1, <3>2, <1>0 DEF X!TypeOK, X!Idle, X!Request, ScopedCall
    <3>4. QED BY <2>3, <3>1, <3>3, <1>0 DEF ScopeInv, X!TypeOK, X!EnterAnonymous
  <2>4. CASE X!Find(q)
    <3>1. PICK n \in Things \cup {None} : \E d \in X!InScope(scopeReq[q].context, n) :
            scopeReq' = [scopeReq EXCEPT ![q].held = d, ![q].copy = scoped[d], ![q].named = n]
      BY <2>4 DEF X!Find
    <3>2. PICK d \in X!InScope(scopeReq[q].context, n) :
            scopeReq' = [scopeReq EXCEPT ![q].held = d, ![q].copy = scoped[d], ![q].named = n]
      BY <3>1
    <3>3. d \in Docs /\ scoped[d] \in Things \cup {None}
      BY <3>2, <1>0 DEF X!InScope, X!Exists, X!TypeOK
    <3>4. scopeReq'[q] \in X!Request /\ ScopedCall(scopeReq'[q])
      BY <3>2, <3>3, <2>0, <1>0 DEF X!TypeOK, X!Request, ScopedCall
    <3>5. QED BY <2>4, <3>2, <3>4, <1>0 DEF ScopeInv, X!TypeOK, X!Find
  <2>5. CASE X!Save(q)
    <3> DEFINE d == scopeReq[q].held
               t == X!Stamped(scopeReq[q].context, scopeReq[q].copy)
    <3>1. d \in Docs /\ t \in Things \cup {None}
      BY <2>5, <2>0, ScopeStamp DEF X!Save, X!Request
    <3>2. /\ scoped' = [scoped EXCEPT ![d] = IF scopeReq[q].copy = None /\ t # None THEN t ELSE @]
          /\ torn' = (torn \/ (scoped[d] # None /\ scoped'[d] # scoped[d]))
          /\ scopeReq' = [scopeReq EXCEPT ![q].copy = t]
      BY <2>5 DEF X!Save
    <3>3. scopeReq'[q] \in X!Request /\ ScopedCall(scopeReq'[q])
      BY <3>1, <3>2, <2>0, <1>0 DEF X!TypeOK, X!Request, ScopedCall
    <3>4. scoped' \in [Docs -> Things \cup {None, "absent", "deleted"}]
      BY <3>1, <3>2, <1>0 DEF X!TypeOK
    <3>5. torn' \in BOOLEAN
      BY <3>2
    <3>6. QED BY <3>2, <3>3, <3>4, <3>5, <1>0 DEF ScopeInv, X!TypeOK
  <2>6. CASE X!Create(q)
    <3>1. PICK d \in Docs, t \in Things \cup {None} :
            /\ scoped' = [scoped EXCEPT ![d] = X!Stamped(scopeReq[q].context, t)]
            /\ scopeReq' = [scopeReq EXCEPT ![q].held = d, ![q].named = t,
                                            ![q].copy = X!Stamped(scopeReq[q].context, t)]
      BY <2>6 DEF X!Create
    <3>2. X!Stamped(scopeReq[q].context, t) \in Things \cup {None}
      BY <2>0, ScopeStamp DEF X!Request
    <3>3. scopeReq'[q] \in X!Request /\ ScopedCall(scopeReq'[q])
      BY <3>1, <3>2, <2>0, <1>0 DEF X!TypeOK, X!Request, ScopedCall
    <3>4. scoped' \in [Docs -> Things \cup {None, "absent", "deleted"}]
      BY <3>1, <3>2, <1>0 DEF X!TypeOK
    <3>5. QED BY <2>6, <3>1, <3>3, <3>4, <1>0 DEF ScopeInv, X!TypeOK, X!Create
  <2>7. CASE X!Delete(q)
    BY <2>7, <1>0 DEF ScopeInv, X!TypeOK, X!Delete
  <2>8. CASE X!Leave(q)
    BY <2>8, <1>0, ScopeIdle DEF ScopeInv, X!TypeOK, X!Leave
  <2>9. QED BY <1>2, <2>1, <2>2, <2>3, <2>4, <2>5, <2>6, <2>7, <2>8
<1>3. QED BY <1>1, <1>2, PartsStep DEF X!Next

LEMMA BoundIdle == ~IsScoped(X!Idle)
  BY DEF X!Idle, IsScoped

(* What a step leaves alone stays as it is.                                *)
LEMMA BoundFrame ==
  ASSUME BoundInv, NEW q \in Requests,
         \A p \in Requests \ {q} : scopeReq'[p] = scopeReq[p],
         scoped' = scoped, torn' = torn,
         (~torn /\ IsScoped(scopeReq[q]) => BoundToTenant(scopeReq[q]))'
  PROVE  BoundInv'
  BY DEF BoundInv, BoundToTenant, AskedBy, IsScoped

LEMMA BoundInit == Init => BoundInv
  BY BoundIdle DEF Init, X!Init, BoundInv

LEMMA BoundStep ==
  ASSUME ScopeInv, BoundInv, [Next]_vars
  PROVE  BoundInv'
<1>0. /\ X!TypeOK /\ \A q \in Requests : ScopedCall(scopeReq[q])
      /\ None \notin Things \cup Docs \cup X!User
      /\ "absent" \notin Things \cup {None} /\ "deleted" \notin Things \cup {None}
  BY WorkspaceConstants DEF ScopeInv, X!TenantConstants
<1>1. CASE UNCHANGED tenantsVars
  BY <1>1 DEF BoundInv, BoundToTenant, AskedBy, IsScoped, tenantsVars
<1>2. ASSUME NEW q \in Requests,
             \/ X!Enter(q) \/ X!Authenticate(q) \/ X!EnterAnonymous(q)
             \/ X!Find(q) \/ X!Save(q) \/ X!Create(q) \/ X!Delete(q) \/ X!Leave(q)
      PROVE  BoundInv'
  <2>0. scopeReq[q] \in X!Request /\ ScopedCall(scopeReq[q])
    BY <1>0 DEF X!TypeOK
  <2>1. CASE X!Enter(q)
    <3>1. PICK u \in X!User, h \in Things \cup {None}, known \in BOOLEAN :
            scopeReq' = [scopeReq EXCEPT ![q] = [X!Idle EXCEPT
                      !.pc = "route", !.user = u, !.known = known,
                      !.context = X!ContextOf(IF known THEN u ELSE None, h)]]
      BY <2>1 DEF X!Enter
    <3>2. ASSUME known, ~u.admin, u.tenant # None
          PROVE  BoundToTenant(scopeReq[q])'
      <4>1. X!ContextOf(u, h) = [tenant |-> u.tenant, admin |-> FALSE, filled |-> TRUE]
        BY <3>2, <1>0 DEF X!ContextOf, X!User
      <4>2. scopeReq'[q].user = u /\ scopeReq'[q].held = None /\ scopeReq'[q].context = X!ContextOf(u, h)
        BY <3>1, <3>2, <1>0 DEF X!TypeOK, X!Idle
      <4>3. QED BY <4>1, <4>2 DEF BoundToTenant
    <3>3. QED BY <2>1, <3>1, <3>2, <1>0, BoundFrame DEF X!Enter, X!TypeOK, IsScoped, X!Idle
  <2>2. CASE X!Authenticate(q)
    BY <2>2, <1>0 DEF BoundInv, BoundToTenant, AskedBy, IsScoped, X!TypeOK, X!Authenticate, X!Request
  <2>3. CASE X!EnterAnonymous(q)
    BY <2>3, <1>0, BoundFrame DEF X!EnterAnonymous, X!TypeOK, IsScoped, X!Idle
  <2>4. CASE X!Find(q)
    <3>1. PICK n \in Things \cup {None} : \E d \in X!InScope(scopeReq[q].context, n) :
            scopeReq' = [scopeReq EXCEPT ![q].held = d, ![q].copy = scoped[d], ![q].named = n]
      BY <2>4 DEF X!Find
    <3>2. PICK d \in X!InScope(scopeReq[q].context, n) :
            scopeReq' = [scopeReq EXCEPT ![q].held = d, ![q].copy = scoped[d], ![q].named = n]
      BY <3>1
    <3>3. ASSUME ~torn, IsScoped(scopeReq'[q])
          PROVE  BoundToTenant(scopeReq[q])'
      <4>1. /\ scopeReq'[q].user = scopeReq[q].user /\ scopeReq'[q].known = scopeReq[q].known
            /\ scopeReq'[q].context = scopeReq[q].context
            /\ scopeReq'[q].held = d /\ scopeReq'[q].copy = scoped[d] /\ scopeReq'[q].named = n
        BY <3>2, <2>0, <1>0 DEF X!TypeOK, X!Request
      <4>2. BoundToTenant(scopeReq[q])
        BY <3>3, <4>1 DEF BoundInv, IsScoped
      <4>3. scoped[d] = IF n = None THEN scopeReq[q].user.tenant ELSE n
        BY <3>3, <3>2, <4>1, <4>2 DEF X!InScope, X!Unscoped, BoundToTenant, IsScoped
      <4>4. scoped' = scoped
        BY <2>4 DEF X!Find
      <4>5. QED BY <4>1, <4>2, <4>3, <4>4 DEF BoundToTenant, AskedBy
    <3>4. QED BY <2>4, <3>2, <3>3, <1>0, BoundFrame DEF X!Find, X!TypeOK
  <2>5. CASE X!Save(q)
    <3> DEFINE d == scopeReq[q].held
               t == X!Stamped(scopeReq[q].context, scopeReq[q].copy)
    <3>1. /\ d \in Docs
          /\ scoped' = [scoped EXCEPT ![d] = IF scopeReq[q].copy = None /\ t # None THEN t ELSE @]
          /\ torn' = (torn \/ (scoped[d] # None /\ scoped'[d] # scoped[d]))
          /\ scopeReq' = [scopeReq EXCEPT ![q].copy = t]
      BY <2>5, <2>0 DEF X!Save, X!Request
    <3>2. SUFFICES ASSUME ~torn', NEW p \in Requests, IsScoped(scopeReq'[p])
                   PROVE  BoundToTenant(scopeReq[p])'
      BY DEF BoundInv
    <3>3. /\ scopeReq'[p].user = scopeReq[p].user /\ scopeReq'[p].known = scopeReq[p].known
          /\ scopeReq'[p].context = scopeReq[p].context /\ scopeReq'[p].held = scopeReq[p].held
          /\ scopeReq'[p].named = scopeReq[p].named
          /\ scopeReq'[p].copy = IF p = q THEN t ELSE scopeReq[p].copy
      BY <3>1, <2>0, <1>0 DEF X!TypeOK, X!Request
    <3>4. BoundToTenant(scopeReq[p]) /\ IsScoped(scopeReq[p])
      BY <3>1, <3>2, <3>3 DEF BoundInv, IsScoped
    <3>5. AskedBy(scopeReq[p]) # None
      BY <3>4 DEF AskedBy, IsScoped
    <3>6. d # None
      BY <3>1, <1>0
    <3>7. p = q => t = scopeReq[q].copy
      BY <3>4, <3>5, <3>6 DEF BoundToTenant, X!Stamped
    <3>8. scopeReq[p].held # None => scoped'[scopeReq[p].held] = scoped[scopeReq[p].held]
      <4>1. CASE scopeReq[p].held = d
        <5>1. scoped[d] # None
          BY <4>1, <3>4, <3>5, <3>6, <1>0 DEF BoundToTenant
        <5>2. QED BY <4>1, <5>1, <3>1, <3>2
      <4>2. CASE scopeReq[p].held # d
        BY <4>2, <3>1
      <4>3. QED BY <4>1, <4>2
    <3>9. QED BY <3>3, <3>4, <3>7, <3>8 DEF BoundToTenant, AskedBy
  <2>6. CASE X!Create(q)
    <3>1. PICK d \in Docs, t \in Things \cup {None} :
            /\ scoped[d] = "absent"
            /\ scoped' = [scoped EXCEPT ![d] = X!Stamped(scopeReq[q].context, t)]
            /\ scopeReq' = [scopeReq EXCEPT ![q].held = d, ![q].named = t,
                                            ![q].copy = X!Stamped(scopeReq[q].context, t)]
      BY <2>6 DEF X!Create
    <3>2. SUFFICES ASSUME ~torn, NEW p \in Requests, IsScoped(scopeReq'[p])
                   PROVE  BoundToTenant(scopeReq[p])'
      BY <2>6 DEF BoundInv, X!Create
    <3>3. /\ scopeReq'[p].user = scopeReq[p].user /\ scopeReq'[p].known = scopeReq[p].known
          /\ scopeReq'[p].context = scopeReq[p].context
      BY <3>1, <2>0, <1>0 DEF X!TypeOK, X!Request
    <3>4. BoundToTenant(scopeReq[p]) /\ IsScoped(scopeReq[p])
      BY <3>2, <3>3 DEF BoundInv, IsScoped
    <3>5. CASE p = q
      <4>1. PICK s : /\ s = X!Stamped(scopeReq[q].context, t)
                     /\ s = IF t = None THEN scopeReq[q].user.tenant ELSE t
        BY <3>4, <3>5 DEF BoundToTenant, X!Stamped
      <4>2. scopeReq'[q].held = d /\ scopeReq'[q].copy = s /\ scopeReq'[q].named = t
        BY <3>1, <4>1, <2>0, <1>0 DEF X!TypeOK, X!Request
      <4>3. scoped'[d] = s
        BY <3>1, <4>1, <1>0 DEF X!TypeOK
      <4>4. QED BY <3>3, <3>4, <3>5, <4>1, <4>2, <4>3 DEF BoundToTenant, AskedBy
    <3>6. CASE p # q
      <4>1. scopeReq'[p] = scopeReq[p]
        BY <3>1, <3>6, <1>0 DEF X!TypeOK
      <4>2. AskedBy(scopeReq[p]) \in Things
        <5>1. scopeReq[p].user.tenant \in Things
          BY <3>4, <1>0 DEF IsScoped, ScopedCall, X!User
        <5>2. scopeReq[p].named \in Things \cup {None}
          BY <1>0 DEF X!TypeOK, X!Request
        <5>3. QED BY <5>1, <5>2 DEF AskedBy
      <4>3. scopeReq[p].held # None => scopeReq[p].held # d
        BY <3>1, <3>4, <4>2, <1>0 DEF BoundToTenant
      <4>4. scopeReq[p].held # None => scoped'[scopeReq[p].held] = scoped[scopeReq[p].held]
        BY <3>1, <4>3
      <4>5. QED BY <3>4, <4>1, <4>4 DEF BoundToTenant, AskedBy
    <3>7. QED BY <3>5, <3>6
  <2>7. CASE X!Delete(q)
    <3>1. PICK d \in X!InScope(scopeReq[q].context, None) : scoped' = [scoped EXCEPT ![d] = "deleted"]
      BY <2>7 DEF X!Delete
    <3>2. \A e \in Docs : scoped'[e] = scoped[e] \/ scoped'[e] = "deleted"
      BY <3>1, <1>0 DEF X!TypeOK
    <3>3. \A p \in Requests : scopeReq[p].held \in Docs \cup {None}
      BY <1>0 DEF X!TypeOK, X!Request
    <3>4. QED BY <2>7, <3>2, <3>3 DEF BoundInv, BoundToTenant, AskedBy, IsScoped, X!Delete
  <2>8. CASE X!Leave(q)
    BY <2>8, <1>0, BoundIdle, BoundFrame DEF X!TypeOK, X!Leave
  <2>9. QED BY <1>2, <2>1, <2>2, <2>3, <2>4, <2>5, <2>6, <2>7, <2>8
<1>3. QED BY <1>1, <1>2, PartsStep DEF X!Next

(* A request whose user was recognised, has a tenant and is no admin holds *)
(* documents of that tenant only, unless it has named another one, in its  *)
(* filter or for a new document, and then of the one it has named; for any *)
(* number of requests and however their loads, saves and deletions         *)
(* interleave, while no two saves have given one document without a tenant *)
(* to two.                                                                 *)
THEOREM TenantsKeepApart == Spec => []AskedTenantOnly
<1>1. ScopeInv /\ BoundInv /\ [Next]_vars => ScopeInv' /\ BoundInv'
  BY ScopeStep, BoundStep
<1>2. BoundInv => AskedTenantOnly
  BY DEF BoundInv, AskedTenantOnly, X!AskedTenantOnly, BoundToTenant, AskedBy, X!TenantAsked,
     IsScoped, X!Scoped
<1>3. QED BY ScopeInit, BoundInit, <1>1, <1>2, PTL DEF Spec

-----------------------------------------------------------------------------
(* The centers a vehicle lets in.  What a call wants keeps who has added   *)
(* each entry it has loaded.  While it may still write the whole list, the *)
(* entries added by the owner are among those it has loaded: every save    *)
(* that adds one outdates it.                                              *)
KeepsOrigins(r) ==
  /\ Len(r.wanted) >= Len(r.copy)
  /\ \A k \in 1..Len(r.copy) : r.wanted[k].by = r.copy[k].by

HasLoaded(r) ==
  r.fresh /\ A!Altered(r) =>
    \A k \in 1..Len(entries) :
      entries[k].by = "owner" => k \in 1..Len(r.copy) /\ r.copy[k].by = "owner"

AccessInv ==
  /\ entries \in Seq(A!Entry) /\ accessReq \in [Requests -> A!Request]
  /\ \A q \in Requests : KeepsOrigins(accessReq[q]) /\ HasLoaded(accessReq[q])

AccessStep == AccessInv' /\ A!OwnEntries \subseteq A!OwnEntries'

LEMMA AccessIdle ==
  /\ A!Idle \in A!Request /\ KeepsOrigins(A!Idle) /\ ~A!Altered(A!Idle)
  BY DEF A!Idle, A!Request, KeepsOrigins, A!Altered

LEMMA AccessInit == Init => AccessInv
<1> SUFFICES ASSUME Init PROVE AccessInv
  OBVIOUS
<1>1. A!Init
  BY DEF Init
<1>2. QED BY <1>1, AccessIdle DEF A!Init, AccessInv, HasLoaded

(* Setting a field of an entry, or of all but a center's, changes neither  *)
(* how many there are nor who has added them.                              *)
WithStatus(s, m, x) == [s EXCEPT ![m].status = x]

LEMMA StatusSet ==
  ASSUME NEW s \in Seq(A!Entry), NEW m, NEW x \in {"active", "revoked"}
  PROVE  /\ WithStatus(s, m, x) \in Seq(A!Entry) /\ Len(WithStatus(s, m, x)) = Len(s)
         /\ \A k \in 1..Len(s) : WithStatus(s, m, x)[k].by = s[k].by
<1>1. PICK t : t = [s EXCEPT ![m].status = x] /\ t = WithStatus(s, m, x)
  BY DEF WithStatus
<1>2. CASE m \in 1..Len(s)
  <2>1. PICK e : e = [s[m] EXCEPT !.status = x]
    OBVIOUS
  <2>5. s[m] \in A!Entry
    BY <1>2
  <2>2. e \in A!Entry /\ e.by = s[m].by
    BY <2>1, <2>5 DEF A!Entry
  <2>3. t = [s EXCEPT ![m] = e]
    BY <1>1, <2>1
  <2>4. QED BY <1>1, <1>2, <2>2, <2>3
<1>3. CASE m \notin 1..Len(s)
  <2>1. t = s
    BY <1>1, <1>3
  <2>2. QED BY <1>1, <2>1
<1>4. QED BY <1>2, <1>3

LEMMA PrimarySet ==
  ASSUME NEW s \in Seq(A!Entry), NEW c
  PROVE  LET t == A!OthersNotPrimary(s, c)
         IN  /\ t \in Seq(A!Entry) /\ Len(t) = Len(s)
             /\ \A k \in 1..Len(s) : t[k].by = s[k].by
<1>1. PICK t : t = A!OthersNotPrimary(s, c)
  OBVIOUS
<1>2. PICK n \in Nat : n = Len(s) /\ DOMAIN s = 1..n
  OBVIOUS
<1>3. t = [k \in 1..n |-> IF s[k].center = c THEN s[k] ELSE [s[k] EXCEPT !.isPrimary = FALSE]]
  BY <1>1, <1>2 DEF A!OthersNotPrimary
<1>4. \A k \in 1..n : t[k] \in A!Entry /\ t[k].by = s[k].by
  <2>1. TAKE k \in 1..n
  <2>2. s[k] \in A!Entry
    BY <1>2
  <2>3. PICK e : e = [s[k] EXCEPT !.isPrimary = FALSE]
    OBVIOUS
  <2>4. e \in A!Entry /\ e.by = s[k].by
    BY <2>2, <2>3 DEF A!Entry
  <2>5. QED BY <1>3, <2>2, <2>3, <2>4
<1>7. t \in [1..n -> A!Entry]
  BY <1>3, <1>4
<1>5. t \in Seq(A!Entry) /\ Len(t) = n
  BY <1>2, <1>7
<1>6. QED BY <1>1, <1>2, <1>4, <1>5

(* A call that begins has loaded every entry there is.                     *)
LEMMA AccessChange ==
  ASSUME AccessInv, NEW q \in Requests, NEW wanted \in Seq(A!Entry), A!Change(q, wanted),
         Len(wanted) >= Len(entries),
         \A k \in 1..Len(entries) : wanted[k].by = entries[k].by
  PROVE  AccessStep
<1>1. PICK r : r = [pc |-> "vehicle", copy |-> entries, wanted |-> wanted, fresh |-> TRUE]
  OBVIOUS
<1>2. r \in A!Request /\ KeepsOrigins(r) /\ HasLoaded(r)
  BY <1>1 DEF A!Request, KeepsOrigins, HasLoaded, AccessInv
<1>3. accessReq' = [accessReq EXCEPT ![q] = r] /\ entries' = entries
  BY <1>1 DEF A!Change
<1>4. QED BY <1>2, <1>3 DEF AccessStep, AccessInv, HasLoaded, A!OwnEntries

LEMMA AccessStarts ==
  ASSUME AccessInv, NEW q \in Requests, NEW c \in Things,
         A!SetAccess(q, c) \/ \E p \in BOOLEAN : A!Authorize(q, c, p)
  PROVE  AccessStep
<1>0. entries \in Seq(A!Entry)
  BY DEF AccessInv
<1>1. CASE A!SetAccess(q, c)
  <2>1. PICK m, status :
          status \in {"active", "revoked"} /\ A!Change(q, WithStatus(entries, m, status))
    BY <1>1 DEF A!SetAccess, WithStatus
  <2>2. PICK wanted : wanted = WithStatus(entries, m, status)
    OBVIOUS
  <2>3. /\ wanted \in Seq(A!Entry) /\ Len(wanted) = Len(entries)
        /\ \A k \in 1..Len(entries) : wanted[k].by = entries[k].by
    BY <1>0, <2>1, <2>2, StatusSet
  <2>4. Len(entries) \in Nat /\ A!Change(q, wanted)
    BY <1>0, <2>1, <2>2
  <2>5. QED BY <2>3, <2>4, AccessChange
<1>2. ASSUME NEW p \in BOOLEAN, A!Authorize(q, c, p) PROVE AccessStep
  <2>1. PICK new : new = [center |-> c, status |-> "active", isPrimary |-> p, by |-> "owner"]
    OBVIOUS
  <2>2. new \in A!Entry
    BY <2>1 DEF A!Entry
  <2>3. PICK altered : altered = IF A!Of(c) # {} THEN [entries EXCEPT ![A!Min(A!Of(c))].status = "active"]
                                 ELSE Append(entries, new)
    OBVIOUS
  <2>4. /\ altered \in Seq(A!Entry) /\ Len(altered) >= Len(entries)
        /\ \A k \in 1..Len(entries) : altered[k].by = entries[k].by
    <3>1. CASE A!Of(c) # {}
      <4>1. PICK m : altered = WithStatus(entries, m, "active")
        BY <2>3, <3>1 DEF WithStatus
      <4>2. /\ altered \in Seq(A!Entry) /\ Len(altered) = Len(entries)
            /\ \A k \in 1..Len(entries) : altered[k].by = entries[k].by
        BY <1>0, <4>1, StatusSet
      <4>3. Len(entries) \in Nat
        BY <1>0
      <4>4. QED BY <4>2, <4>3
    <3>2. CASE A!Of(c) = {}
      BY <1>0, <2>2, <2>3, <3>2
    <3>3. QED BY <3>1, <3>2
  <2>5. PICK wanted : /\ wanted = IF p THEN A!OthersNotPrimary(altered, c) ELSE altered
                      /\ A!Change(q, wanted)
    BY <1>2, <2>1, <2>3 DEF A!Authorize
  <2>6. /\ wanted \in Seq(A!Entry) /\ Len(wanted) = Len(altered)
        /\ \A k \in 1..Len(altered) : wanted[k].by = altered[k].by
    BY <2>4, <2>5, PrimarySet
  <2>7. Len(entries) \in Nat /\ Len(altered) \in Nat
    BY <1>0, <2>4
  <2>8. QED BY <2>4, <2>5, <2>6, <2>7, AccessChange
<1>3. QED BY <1>1, <1>2

(* A request stops, and the entries are as they were.                      *)
LEMMA AccessAborts ==
  ASSUME AccessInv, NEW q \in Requests, accessReq' = [accessReq EXCEPT ![q] = A!Idle],
         entries' = entries
  PROVE  AccessStep
  BY AccessIdle DEF AccessStep, AccessInv, HasLoaded, A!OwnEntries

LEMMA AccessGrants ==
  ASSUME AccessInv, NEW c \in Things, A!GrantAccess(c)
  PROVE  AccessStep
<1>1. PICK e : e = [center |-> c, status |-> "active", isPrimary |-> FALSE, by |-> "invitation"]
  OBVIOUS
<1>2. e \in A!Entry /\ e.by # "owner"
  BY <1>1 DEF A!Entry
<1>3. entries' = Append(entries, e) /\ accessReq' = accessReq /\ entries \in Seq(A!Entry)
  BY <1>1 DEF A!GrantAccess, AccessInv
<1>4. /\ entries' \in Seq(A!Entry) /\ Len(entries') = Len(entries) + 1 /\ Len(entries) \in Nat
      /\ \A k \in 1..Len(entries) : entries'[k] = entries[k]
      /\ entries'[Len(entries) + 1] = e
  BY <1>2, <1>3
<1>5. \A q \in Requests : HasLoaded(accessReq[q])'
  BY <1>2, <1>3, <1>4 DEF AccessInv, HasLoaded
<1>6. QED BY <1>3, <1>4, <1>5 DEF AccessStep, AccessInv, A!OwnEntries

(* What a save writes keeps the entries of the owner, if it may write.     *)
LEMMA SavedKeeps ==
  ASSUME AccessInv, NEW q \in Requests, A!Altered(accessReq[q]) => accessReq[q].fresh
  PROVE  LET t == A!Saved(accessReq[q])
         IN  /\ t \in Seq(A!Entry)
             /\ \A k \in 1..Len(entries) :
                  entries[k].by = "owner" => k \in 1..Len(t) /\ t[k].by = "owner"
             /\ ~A!Added(accessReq[q]) =>
                  Len(t) = Len(entries) /\ \A k \in 1..Len(entries) : t[k].by = entries[k].by
<1>1. PICK r, t : r = accessReq[q] /\ t = A!Saved(r)
  OBVIOUS
<1>2. /\ r \in A!Request /\ KeepsOrigins(r) /\ HasLoaded(r)
      /\ A!Altered(r) => r.fresh
      /\ entries \in Seq(A!Entry) /\ r.copy \in Seq(A!Entry) /\ r.wanted \in Seq(A!Entry)
  BY <1>1 DEF AccessInv, A!Request
<1>3. CASE A!Added(r) /\ A!Altered(r)
  <2>1. t = r.wanted
    BY <1>1, <1>3 DEF A!Saved
  <2>2. \A k \in 1..Len(entries) :
          entries[k].by = "owner" => k \in 1..Len(t) /\ t[k].by = "owner"
    BY <1>2, <1>3, <2>1 DEF HasLoaded, KeepsOrigins
  <2>3. QED BY <1>1, <1>2, <1>3, <2>1, <2>2
<1>4. CASE A!Added(r) /\ ~A!Altered(r)
  <2>1. Len(r.wanted) > Len(r.copy) /\ Len(r.copy) \in Nat /\ Len(r.wanted) \in Nat
    BY <1>2, <1>4 DEF A!Added
  <2>2. PICK e \in A!Entry : e = r.wanted[Len(r.wanted)]
    BY <1>2, <2>1
  <2>3. t = Append(entries, e)
    BY <1>1, <1>4, <2>2 DEF A!Saved
  <2>4. QED BY <1>1, <1>2, <1>4, <2>2, <2>3
<1>5. CASE ~A!Added(r)
  <2>1. PICK n \in Nat : n = Len(entries) /\ DOMAIN entries = 1..n
    BY <1>2
  <2>2. DOMAIN r.copy = 1..Len(r.copy) /\ Len(r.copy) \in Nat /\ Len(r.wanted) \in Nat
    BY <1>2
  <2>3. \A k \in 1..n : t[k] \in A!Entry /\ t[k].by = entries[k].by
    <3>1. TAKE k \in 1..n
    <3>2. entries[k] \in A!Entry
      BY <1>2, <2>1
    <3>3. CASE k \notin DOMAIN r.copy
      BY <1>1, <1>5, <2>1, <3>2, <3>3 DEF A!Saved
    <3>4. CASE k \in DOMAIN r.copy
      <4>1. r.wanted[k] \in A!Entry
        BY <1>2, <2>2, <3>4 DEF KeepsOrigins
      <4>2. PICK status, isPrimary :
              /\ status = IF r.wanted[k].status = r.copy[k].status THEN entries[k].status
                          ELSE r.wanted[k].status
              /\ isPrimary = IF r.wanted[k].isPrimary = r.copy[k].isPrimary
                             THEN entries[k].isPrimary ELSE r.wanted[k].isPrimary
        OBVIOUS
      <4>3. status \in {"active", "revoked"} /\ isPrimary \in BOOLEAN
        BY <3>2, <4>1, <4>2 DEF A!Entry
      <4>4. PICK e : e = [entries[k] EXCEPT !.status = status, !.isPrimary = isPrimary]
        OBVIOUS
      <4>5. t[k] = e
        BY <1>1, <1>5, <2>1, <3>4, <4>2, <4>4 DEF A!Saved
      <4>6. e \in A!Entry /\ e.by = entries[k].by
        BY <3>2, <4>3, <4>4 DEF A!Entry
      <4>7. QED BY <4>5, <4>6
    <3>5. QED BY <3>3, <3>4
  <2>4. t = [k \in 1..n |-> t[k]]
    BY <1>1, <1>5, <2>1 DEF A!Saved
  <2>5. t \in [1..n -> A!Entry]
    BY <2>3, <2>4
  <2>6. t \in Seq(A!Entry) /\ Len(t) = n
    BY <2>1, <2>5
  <2>7. QED BY <1>1, <1>2, <2>1, <2>3, <2>6
<1>6. QED BY <1>3, <1>4, <1>5

LEMMA AccessSaves ==
  ASSUME AccessInv, NEW q \in Requests, A!SaveVehicle(q)
  PROVE  AccessStep
<1>1. CASE accessReq' = [accessReq EXCEPT ![q] = A!Idle] /\ entries' = entries
  BY <1>1, AccessAborts
<1>2. CASE A!Written(q, accessReq[q]) /\ (A!Altered(accessReq[q]) => accessReq[q].fresh)
  <2>1. PICK r, t : r = accessReq[q] /\ t = A!Saved(r) /\ entries' = t
    BY <1>2 DEF A!Written
  <2>2. /\ t \in Seq(A!Entry)
        /\ \A k \in 1..Len(entries) :
             entries[k].by = "owner" => k \in 1..Len(t) /\ t[k].by = "owner"
        /\ ~A!Added(r) =>
             Len(t) = Len(entries) /\ \A k \in 1..Len(entries) : t[k].by = entries[k].by
    BY <1>2, <2>1, SavedKeeps
  <2>3. accessReq' = [p \in Requests |->
          IF p = q THEN A!Idle
          ELSE IF A!Added(r) /\ A!Altered(accessReq[p]) THEN [accessReq[p] EXCEPT !.fresh = FALSE]
          ELSE accessReq[p]]
    BY <1>2, <2>1 DEF A!Written
  <2>4. ASSUME NEW p \in Requests
        PROVE  accessReq'[p] \in A!Request /\ KeepsOrigins(accessReq'[p]) /\ HasLoaded(accessReq[p])'
    <3>1. PICK x : x = accessReq[p]
      OBVIOUS
    <3>2. x \in A!Request /\ KeepsOrigins(x) /\ HasLoaded(x)
      BY <3>1 DEF AccessInv
    <3>3. CASE p = q
      BY <2>3, <3>3, AccessIdle DEF HasLoaded
    <3>4. CASE p # q /\ A!Added(r) /\ A!Altered(x)
      <4>1. PICK n : n = [x EXCEPT !.fresh = FALSE]
        OBVIOUS
      <4>2. n \in A!Request /\ n.copy = x.copy /\ n.wanted = x.wanted /\ ~n.fresh
        BY <3>2, <4>1 DEF A!Request
      <4>3. accessReq'[p] = n
        BY <2>3, <3>1, <3>4, <4>1
      <4>4. QED BY <3>2, <4>2, <4>3 DEF KeepsOrigins, HasLoaded
    <3>5. CASE p # q /\ ~(A!Added(r) /\ A!Altered(x))
      <4>1. accessReq'[p] = x
        BY <2>3, <3>1, <3>5
      <4>2. CASE A!Altered(x)
        BY <2>1, <2>2, <3>2, <3>5, <4>1, <4>2 DEF HasLoaded
      <4>3. CASE ~A!Altered(x)
        BY <3>2, <4>1, <4>3 DEF HasLoaded
      <4>4. QED BY <4>2, <4>3
    <3>6. QED BY <3>3, <3>4, <3>5
  <2>5. AccessInv'
    <3>1. accessReq' \in [Requests -> A!Request]
      BY <2>3, <2>4
    <3>2. QED BY <2>1, <2>2, <2>4, <3>1 DEF AccessInv
  <2>6. A!OwnEntries \subseteq A!OwnEntries'
    BY <2>1, <2>2 DEF A!OwnEntries, AccessInv
  <2>7. QED BY <2>5, <2>6 DEF AccessStep
<1>3. QED BY <1>1, <1>2 DEF A!SaveVehicle

LEMMA AccessNext ==
  ASSUME AccessInv, A!Next \/ UNCHANGED accessVars
  PROVE  AccessStep
<1>1. CASE A!Next
  <2>1. ASSUME NEW q \in Requests, A!Abort(q) PROVE AccessStep
    BY <2>1, AccessAborts DEF A!Abort
  <2>2. QED BY <1>1, <2>1, AccessStarts, AccessSaves, AccessGrants DEF A!Next
<1>2. CASE UNCHANGED accessVars
  BY <1>2 DEF accessVars, AccessStep, AccessInv, HasLoaded, A!OwnEntries
<1>3. QED BY <1>1, <1>2

(* No entry that an owner has added is lost to an overlapping save.        *)
THEOREM OwnEntriesStay == Spec => A!OwnEntriesKept
<1>1. AccessInv /\ [Next]_vars => AccessStep
  BY PartsStep, AccessNext
<1>2. AccessInv /\ AccessStep => Cardinality(A!OwnEntries) <= Cardinality(A!OwnEntries')
  <2> SUFFICES ASSUME AccessInv, AccessStep
               PROVE  Cardinality(A!OwnEntries) <= Cardinality(A!OwnEntries')
    OBVIOUS
  <2>1. PICK n \in Nat : n = Len(entries') /\ A!OwnEntries' \subseteq 1..n
    BY DEF AccessStep, AccessInv, A!OwnEntries
  <2>0. IsFiniteSet(1..n)
    BY <2>1, FS_Interval
  <2>2. IsFiniteSet(A!OwnEntries')
    BY <2>0, <2>1, FS_Subset
  <2>3. QED BY <2>2, FS_Subset DEF AccessStep
<1>3. AccessStep => AccessInv'
  BY DEF AccessStep
<1>4. A!Cardinality(A!OwnEntries) = Cardinality(A!OwnEntries) /\ A!Cardinality(A!OwnEntries') = Cardinality(A!OwnEntries')
  BY DEF Cardinality, A!Cardinality
<1>5. AccessInv /\ AccessStep =>
        [A!Cardinality(A!OwnEntries) <= A!Cardinality(A!OwnEntries')]_(A!vars)
  BY <1>2, <1>4 DEF A!vars
<1>6. QED BY AccessInit, <1>1, <1>3, <1>5, PTL DEF Spec, A!OwnEntriesKept
-----------------------------------------------------------------------------
(* Permissions of a staff member.  A request that changes the list has     *)
(* found a profile; one that takes a permission away has loaded a list no  *)
(* newer than the profile's, and the same if the version is the same.      *)
ChangesFound(r) ==
  /\ r.pc \in {"grant", "revoke"} => staff.at # "absent" /\ r.perm \in Things
  /\ r.pc = "revoke" =>
       /\ r.held.v <= staff.v
       /\ r.held.v = staff.v => r.held.custom = staff.custom

GrantInv ==
  /\ staff \in P!StaffProfile /\ staffReq \in [Requests -> P!Request]
  /\ staff.at = "absent" => staff.custom = {} /\ staff.v = 0
  /\ \A q \in Requests : ChangesFound(staffReq[q])

GrantStep ==
  /\ GrantInv'
  /\ \A p \in staff.custom \ staff'.custom :
       \E q \in Requests : staffReq[q].pc = "revoke" /\ staffReq[q].perm = p

LEMMA GrantConstants == MaxSaves \in Nat /\ 0 \in 0..MaxSaves
  BY WorkspaceConstants DEF P!PermissionConstants

LEMMA GrantIdle == P!Idle \in P!Request /\ P!Idle.pc = "idle"
  BY GrantConstants DEF P!Idle, P!Request

LEMMA GrantInit == Init => GrantInv
<1> SUFFICES ASSUME Init PROVE GrantInv
  OBVIOUS
<1>1. P!Init
  BY DEF Init
<1>2. QED BY <1>1, GrantConstants, GrantIdle
     DEF P!Init, GrantInv, ChangesFound, P!NoProfile, P!StaffProfile

(* A step that writes the profile without its list and moves no request    *)
(* but one that it finishes.                                               *)
LEMMA GrantAside ==
  ASSUME GrantInv,
         staffReq' = staffReq \/ \E q \in Requests : staffReq' = [staffReq EXCEPT ![q] = P!Idle],
         staff' \in P!StaffProfile, staff'.custom = staff.custom, staff'.v = staff.v,
         staff.at # "absent" => staff'.at # "absent"
  PROVE  GrantStep
<1>1. \A p \in Requests : staffReq'[p] = staffReq[p] \/ staffReq'[p] = P!Idle
  BY DEF GrantInv
<1>2. staffReq' \in [Requests -> P!Request]
  BY GrantIdle DEF GrantInv
<1>3. QED BY <1>1, <1>2, GrantIdle DEF GrantInv, GrantStep, ChangesFound

(* A step that starts a request. *)
LEMMA GrantStarts ==
  ASSUME GrantInv, NEW q \in Requests, NEW r \in P!Request, staff' = staff,
         staffReq' = [staffReq EXCEPT ![q] = r], ChangesFound(r)
  PROVE  GrantStep
  BY DEF GrantInv, GrantStep, ChangesFound

LEMMA GrantLoads ==
  ASSUME GrantInv, NEW q \in Requests,
         \/ \E r \in Things : P!LoadRole(q, r) \/ P!LoadHolder(q, r)
         \/ \E p \in Things, what \in {"grant", "revoke"} : P!LoadStaff(q, what, p)
  PROVE  GrantStep
<1>1. ASSUME NEW r \in Things, P!LoadRole(q, r) PROVE GrantStep
  <2>1. PICK n : n = [P!Idle EXCEPT !.pc = "assign", !.role = r]
    OBVIOUS
  <2>2. n \in P!Request /\ n.pc = "assign"
    BY <2>1, GrantConstants DEF P!Idle, P!Request
  <2>3. staffReq' = [staffReq EXCEPT ![q] = n] /\ staff' = staff
    BY <1>1, <2>1 DEF P!LoadRole
  <2>4. QED BY <2>2, <2>3, GrantStarts DEF ChangesFound
<1>2. ASSUME NEW r \in Things, P!LoadHolder(q, r) PROVE GrantStep
  <2>1. PICK n : n = [P!Idle EXCEPT !.pc = "remove"]
    OBVIOUS
  <2>2. n \in P!Request /\ n.pc = "remove"
    BY <2>1, GrantConstants DEF P!Idle, P!Request
  <2>3. staffReq' = [staffReq EXCEPT ![q] = n] /\ staff' = staff
    BY <1>2, <2>1 DEF P!LoadHolder
  <2>4. QED BY <2>2, <2>3, GrantStarts DEF ChangesFound
<1>3. ASSUME NEW p \in Things, NEW what \in {"grant", "revoke"}, P!LoadStaff(q, what, p)
      PROVE  GrantStep
  <2>1. PICK held : held = IF what = "revoke" THEN [custom |-> staff.custom, v |-> staff.v]
                           ELSE P!Idle.held
    OBVIOUS
  <2>2. PICK n : n = [P!Idle EXCEPT !.pc = what, !.perm = p, !.held = held]
    OBVIOUS
  <2>3. held \in [custom : SUBSET Things, v : 0..MaxSaves]
    BY <2>1, GrantConstants DEF P!Idle, GrantInv, P!StaffProfile
  <2>4. n \in P!Request /\ n.pc = what /\ n.perm = p /\ n.held = held
    BY <2>2, <2>3, GrantConstants DEF P!Idle, P!Request
  <2>5. staffReq' = [staffReq EXCEPT ![q] = n] /\ staff' = staff /\ staff.at # "absent"
    BY <1>3, <2>1, <2>2 DEF P!LoadStaff, P!Idle
  <2>6. ChangesFound(n)
    BY <2>1, <2>4, <2>5 DEF ChangesFound, GrantInv, P!StaffProfile
  <2>7. QED BY <2>4, <2>5, <2>6, GrantStarts
<1>4. QED BY <1>1, <1>2, <1>3

(* Every save of the list counts the version, which outdates what others   *)
(* have loaded; taking one away also compares it.                          *)
LEMMA GrantSaved ==
  ASSUME GrantInv, NEW q \in Requests, staffReq' = [staffReq EXCEPT ![q] = P!Idle],
         staff' \in P!StaffProfile, staff'.v = staff.v + 1,
         staff.at # "absent", staff'.at = staff.at
  PROVE  GrantInv'
<1>1. staffReq' \in [Requests -> P!Request] /\ staff.v \in Nat
  BY GrantIdle, GrantConstants DEF GrantInv, P!StaffProfile
<1>2. ASSUME NEW p \in Requests PROVE ChangesFound(staffReq[p])'
  <2>1. PICK r \in P!Request : r = staffReq[p] /\ ChangesFound(r)
    BY DEF GrantInv
  <2>2. r.held.v \in Nat
    BY <2>1, GrantConstants DEF P!Request
  <2>3. staffReq'[p] = r \/ staffReq'[p] = P!Idle
    BY <2>1 DEF GrantInv
  <2>4. QED BY <1>1, <2>1, <2>2, <2>3, GrantIdle DEF ChangesFound
<1>3. QED BY <1>1, <1>2 DEF GrantInv

LEMMA GrantSaves ==
  ASSUME GrantInv, NEW q \in Requests, P!AddPermission(q) \/ P!RemovePermission(q)
  PROVE  GrantStep
<1>1. PICK r \in P!Request : r = staffReq[q] /\ ChangesFound(r)
  BY DEF GrantInv
<1>2. /\ staffReq' = [staffReq EXCEPT ![q] = P!Idle]
      /\ staff.v \in Nat /\ staff.v < MaxSaves /\ staff \in P!StaffProfile
  BY GrantConstants DEF P!AddPermission, P!RemovePermission, P!Finish, GrantInv, P!StaffProfile
<1>3. CASE P!AddPermission(q)
  <2>1. PICK custom : /\ custom = staff.custom \cup {r.perm}
                      /\ staff' = [staff EXCEPT !.custom = custom, !.v = @ + 1]
    BY <1>1, <1>3 DEF P!AddPermission
  <2>2. r.perm \in Things /\ staff.at # "absent"
    BY <1>1, <1>3 DEF P!AddPermission, ChangesFound
  <2>3. /\ staff' \in P!StaffProfile /\ staff'.v = staff.v + 1 /\ staff'.at = staff.at
        /\ staff.custom \subseteq staff'.custom
    <3>1. custom \in SUBSET Things /\ staff.custom \subseteq custom
      BY <1>2, <2>1, <2>2 DEF P!StaffProfile
    <3>2. PICK v \in 0..MaxSaves : v = staff.v + 1
      BY <1>2, GrantConstants
    <3>3. staff' = [staff EXCEPT !.custom = custom, !.v = v]
      BY <2>1, <3>2
    <3>4. QED BY <1>2, <3>1, <3>2, <3>3 DEF P!StaffProfile
  <2>4. GrantInv'
    BY <1>2, <2>2, <2>3, GrantSaved
  <2>5. QED BY <2>3, <2>4 DEF GrantStep
<1>4. CASE P!RemovePermission(q) /\ staff.v # r.held.v
  <2>1. staff' = staff
    BY <1>1, <1>4 DEF P!RemovePermission
  <2>2. QED BY <1>2, <2>1, GrantAside
<1>5. CASE P!RemovePermission(q) /\ staff.v = r.held.v
  <2>1. PICK custom : /\ custom = r.held.custom \ {r.perm}
                      /\ staff' = [staff EXCEPT !.custom = custom, !.v = @ + 1]
    BY <1>1, <1>5 DEF P!RemovePermission
  <2>2. r.pc = "revoke" /\ r.held.custom = staff.custom /\ staff.at # "absent"
    BY <1>1, <1>5 DEF P!RemovePermission, ChangesFound
  <2>3. /\ staff' \in P!StaffProfile /\ staff'.v = staff.v + 1 /\ staff'.at = staff.at
        /\ staff.custom \ staff'.custom \subseteq {r.perm}
    <3>1. custom \in SUBSET Things /\ staff.custom \ custom \subseteq {r.perm}
      BY <1>2, <2>1, <2>2 DEF P!StaffProfile
    <3>2. PICK v \in 0..MaxSaves : v = staff.v + 1
      BY <1>2, GrantConstants
    <3>3. staff' = [staff EXCEPT !.custom = custom, !.v = v]
      BY <2>1, <3>2
    <3>4. QED BY <1>2, <3>1, <3>2, <3>3 DEF P!StaffProfile
  <2>4. GrantInv'
    BY <1>2, <2>2, <2>3, GrantSaved
  <2>5. QED BY <1>1, <2>2, <2>3, <2>4 DEF GrantStep
<1>6. QED BY <1>3, <1>4, <1>5

LEMMA GrantProfile ==
  ASSUME GrantInv,
         \/ P!DeleteStaff
         \/ \E r \in Things :
              P!UpdateRole(r) \/ P!DeleteRole(r) \/ P!CreateStaff(r) \/ P!UpdateStaff(r)
         \/ \E q \in Requests : P!AssignToAccount(q) \/ P!RemoveFromAccount(q) \/ P!Abort(q)
  PROVE  GrantStep
<1>1. staff \in P!StaffProfile /\ (staff.at = "absent" => staff.custom = {} /\ staff.v = 0)
  BY DEF GrantInv
<1>0. \A q \in Requests : staffReq[q].role \in Things \cup {None}
  BY DEF GrantInv, P!Request
<1>2. \/ staff' = staff
      \/ staff.at = "there" /\ staff' = [staff EXCEPT !.at = "deleted"]
      \/ \E role \in Things \cup {None} : staff' = [staff EXCEPT !.role = role]
      \/ staff.at = "absent" /\ \E role \in Things :
           staff' = [P!NoProfile EXCEPT !.at = "there", !.role = role]
  BY <1>0
     DEF P!DeleteStaff, P!UpdateRole, P!DeleteRole, P!CreateStaff, P!UpdateStaff,
         P!AssignToAccount, P!RemoveFromAccount, P!Abort
<1>3. /\ staff' \in P!StaffProfile /\ staff'.custom = staff.custom /\ staff'.v = staff.v
      /\ staff.at # "absent" => staff'.at # "absent"
  BY <1>1, <1>2, GrantConstants DEF P!StaffProfile, P!NoProfile
<1>4. staffReq' = staffReq \/ \E q \in Requests : staffReq' = [staffReq EXCEPT ![q] = P!Idle]
  BY DEF P!DeleteStaff, P!UpdateRole, P!DeleteRole, P!CreateStaff, P!UpdateStaff,
         P!AssignToAccount, P!RemoveFromAccount, P!Abort, P!Finish
<1>5. QED BY <1>3, <1>4, GrantAside

LEMMA GrantNext ==
  ASSUME GrantInv, P!Next \/ UNCHANGED permissionsVars
  PROVE  GrantStep
<1>1. CASE P!Next
  BY <1>1, GrantLoads, GrantSaves, GrantProfile DEF P!Next
<1>2. CASE UNCHANGED permissionsVars
  BY <1>2 DEF permissionsVars, GrantInv, GrantStep, ChangesFound
<1>3. QED BY <1>1, <1>2

(* A permission of a staff member is taken away only by a request for it.  *)
THEOREM GrantsStay == Spec => P!GrantsKept
<1>1. GrantInv /\ [Next]_vars => GrantStep
  BY PartsStep, GrantNext
<1>2. GrantStep => GrantInv'
  BY DEF GrantStep
<1>3. GrantStep =>
        [\A p \in staff.custom \ staff'.custom :
           \E q \in Requests : staffReq[q].pc = "revoke" /\ staffReq[q].perm = p]_(P!vars)
  BY DEF GrantStep
<1>4. QED BY GrantInit, <1>1, <1>2, <1>3, PTL DEF Spec, P!GrantsKept

-----------------------------------------------------------------------------
(* Spoken job cards.  A call that confirms has a complete draft, and while *)
(* it runs the draft is not merged into.                                   *)
DraftInv ==
  /\ draft \in [Requests -> T!Draft] /\ jobs \in [Plates -> Nat]
  /\ intakeReq = [q \in Requests |-> intakeReq[q]]
  /\ \A q \in Requests : intakeReq[q] # "idle" => T!EvaluateDraft(draft[q]) = {}

DraftStep ==
  /\ DraftInv'
  /\ \A q \in Requests :
       \/ \A f \in T!Fields : draft[q][f] # None => draft'[q][f] # None
       \/ draft'[q] = T!EmptyDraft /\ jobs' # jobs

LEMMA DraftEmpty == T!EmptyDraft \in T!Draft
<1>1. T!EmptyDraft = [phone |-> None, registrationNumber |-> None, description |-> None]
  BY DEF T!EmptyDraft, T!Fields
<1>2. QED BY <1>1 DEF T!Draft

LEMMA DraftInit == Init => DraftInv
<1> SUFFICES ASSUME Init PROVE DraftInv
  OBVIOUS
<1>1. T!Init
  BY DEF Init
<1>2. QED BY <1>1, DraftEmpty DEF T!Init, DraftInv

(* What is merged keeps every field that was there. *)
LEMMA MergeKeeps ==
  ASSUME NEW base \in T!Draft, NEW patch \in T!Draft
  PROVE  /\ T!MergeDraft(base, patch) \in T!Draft
         /\ \A f \in T!Fields : base[f] # None => T!MergeDraft(base, patch)[f] # None
<1>1. PICK d : d = T!MergeDraft(base, patch)
  OBVIOUS
<1>2. d = [f \in T!Fields |-> IF patch[f] = None THEN base[f] ELSE patch[f]]
  BY <1>1 DEF T!MergeDraft
<1>3. \A f \in T!Fields : d[f] = base[f] \/ (d[f] = patch[f] /\ d[f] # None)
  BY <1>2
<1>4. d = [phone |-> d.phone, registrationNumber |-> d.registrationNumber,
           description |-> d.description]
  BY <1>2 DEF T!Fields
<1>5. d \in T!Draft
  BY <1>3, <1>4 DEF T!Fields, T!Draft
<1>6. QED BY <1>1, <1>3, <1>5

LEMMA DraftParses ==
  ASSUME DraftInv, NEW q \in Requests, T!Parse(q)
  PROVE  DraftStep
<1>1. PICK rules \in T!Draft, llm \in T!Draft :
        draft' = [draft EXCEPT ![q] = T!MergeDraft(T!MergeDraft(draft[q], rules), llm)]
  BY DEF T!Parse, T!ExtractWithRules, T!SanitizeExtraction
<1>2. PICK base \in T!Draft : base = draft[q]
  BY DEF DraftInv
<1>3. PICK heard \in T!Draft : heard = T!MergeDraft(base, rules)
  BY MergeKeeps
<1>4. PICK d \in T!Draft : d = T!MergeDraft(heard, llm)
  BY MergeKeeps
<1>5. \A f \in T!Fields : base[f] # None => d[f] # None
  BY <1>3, <1>4, MergeKeeps
<1>6. draft' = [draft EXCEPT ![q] = d]
  BY <1>1, <1>2, <1>3, <1>4
<1>7. intakeReq' = intakeReq /\ jobs' = jobs /\ intakeReq[q] = "idle"
  BY DEF T!Parse
<1>8. QED BY <1>2, <1>5, <1>6, <1>7 DEF DraftInv, DraftStep

(* The steps of a confirmation: it begins with a complete draft, and only  *)
(* the job card it ends with may take the draft away.                      *)
LEMMA DraftConfirms ==
  ASSUME DraftInv, NEW q \in Requests,
         \/ T!Confirm(q) \/ T!FindAccount(q) \/ T!CreateAccount(q) \/ T!FindProfile(q)
         \/ T!CreateProfile(q) \/ T!LinkProfile(q) \/ T!CreateVehicle(q) \/ T!Abort(q)
  PROVE  DraftStep
<1>1. draft' = draft /\ jobs' = jobs
  BY DEF T!Confirm, T!FindAccount, T!CreateAccount, T!FindProfile, T!CreateProfile,
         T!LinkProfile, T!CreateVehicle, T!Abort
<1>2. T!EvaluateDraft(draft[q]) = {}
  BY DEF T!Confirm, T!FindAccount, T!CreateAccount, T!FindProfile, T!CreateProfile,
         T!LinkProfile, T!CreateVehicle, T!Abort, T!At, DraftInv
<1>3. \E pc : intakeReq' = [intakeReq EXCEPT ![q] = pc]
  BY DEF T!Confirm, T!FindAccount, T!CreateAccount, T!FindProfile, T!CreateProfile,
         T!LinkProfile, T!CreateVehicle, T!Abort, T!Goto
<1>4. QED BY <1>1, <1>2, <1>3 DEF DraftInv, DraftStep

LEMMA DraftRecords ==
  ASSUME DraftInv, NEW q \in Requests, T!CreateRecord(q)
  PROVE  DraftStep
<1>1. PICK v : v = draft[q].registrationNumber
  OBVIOUS
<1>2. T!EvaluateDraft(draft[q]) = {} /\ draft[q] \in T!Draft
  BY DEF T!CreateRecord, T!At, DraftInv
<1>3. v \in Plates
  <2>1. v # None
    BY <1>1, <1>2 DEF T!EvaluateDraft, T!Fields
  <2>2. QED BY <1>1, <1>2, <2>1 DEF T!Draft
<1>4. jobs' = [jobs EXCEPT ![v] = @ + 1] /\ jobs[v] \in Nat
  BY <1>1, <1>3 DEF T!CreateRecord, DraftInv
<1>5. jobs' \in [Plates -> Nat] /\ jobs' # jobs
  BY <1>3, <1>4 DEF DraftInv
<1>6. PICK d \in {draft[q], T!EmptyDraft} : draft' = [draft EXCEPT ![q] = d]
  BY DEF T!CreateRecord
<1>7. d \in T!Draft
  BY <1>2, <1>6, DraftEmpty
<1>8. intakeReq' = [intakeReq EXCEPT ![q] = "idle"]
  BY DEF T!CreateRecord, T!Goto
<1>9. QED BY <1>5, <1>6, <1>7, <1>8 DEF DraftInv, DraftStep

LEMMA DraftNext ==
  ASSUME DraftInv, T!Next \/ UNCHANGED intakeVars
  PROVE  DraftStep
<1>1. CASE T!Next
  <2>1. ASSUME NEW p \in Phones, T!Register(p) \/ T!DeleteProfile(p) PROVE DraftStep
    BY <2>1 DEF T!Register, T!DeleteProfile, DraftInv, DraftStep
  <2>2. QED BY <1>1, <2>1, DraftParses, DraftConfirms, DraftRecords DEF T!Next
<1>2. CASE UNCHANGED intakeVars
  BY <1>2 DEF intakeVars, DraftInv, DraftStep
<1>3. QED BY <1>1, <1>2

(* What was captured of a job card stays until the job card is created.    *)
THEOREM CapturedStays == Spec => T!CapturedIsKept
<1>1. DraftInv /\ [Next]_vars => DraftStep
  BY PartsStep, DraftNext
<1>2. DraftStep => DraftInv'
  BY DEF DraftStep
<1>3. DraftStep =>
        [\A q \in Requests, f \in T!Fields :
           draft[q][f] # None /\ draft'[q][f] = None
             => draft'[q] = T!EmptyDraft /\ jobs' # jobs]_(T!vars)
  BY DEF DraftStep
<1>4. QED BY DraftInit, <1>1, <1>2, <1>3, PTL DEF Spec, T!CapturedIsKept

-----------------------------------------------------------------------------
(* Services of a center.  While no save that adds or removes one and no    *)
(* PUT has come in between, the position that a change has read is still   *)
(* that of its service.                                                    *)
Listed(s) == \E n \in Nat : s = [i \in 1..n |-> [id |-> s[i].id, name |-> s[i].name]]

WholeCall(r) ==
  r = [pc |-> r.pc, id |-> r.id, at |-> r.at, name |-> r.name, copy |-> r.copy,
       fresh |-> r.fresh, replaced |-> r.replaced]

Points(r) ==
  r.pc = "update" =>
    /\ r.at \in Nat \ {0}
    /\ r.fresh /\ ~r.replaced => r.at \in DOMAIN services /\ services[r.at].id = r.id

Call(r) == WholeCall(r) /\ Points(r) /\ (r.pc = "splice" => Listed(r.copy))

ServicesInv ==
  /\ Listed(services)
  /\ serviceReq = [q \in Requests |-> serviceReq[q]]
  /\ \A q \in Requests : Call(serviceReq[q])

ServicesStep ==
  /\ ServicesInv'
  /\ \A q \in Requests :
       serviceReq[q].pc = "update" /\ serviceReq'[q].pc = "idle" /\ ~serviceReq[q].replaced =>
         \A i \in DOMAIN services : services[i].id # serviceReq[q].id =>
           i \in DOMAIN services' /\ services'[i] = services[i]

LEMMA ServicesConstants == MaxServices \in Nat
  BY WorkspaceConstants DEF C!ServiceCenterConstants

LEMMA ServicesIdle == C!Idle.pc = "idle" /\ Call(C!Idle)
  BY DEF C!Idle, Call, WholeCall, Points

LEMMA ServicesInit == Init => ServicesInv
<1> SUFFICES ASSUME Init PROVE ServicesInv
  OBVIOUS
<1>1. services = << >> /\ serviceReq = [q \in Requests |-> C!Idle]
  BY DEF Init, C!Init
<1>2. Listed(services)
  <2>1. 0 \in Nat /\ services = [i \in 1..0 |-> [id |-> services[i].id, name |-> services[i].name]]
    BY <1>1
  <2>2. QED BY <2>1 DEF Listed
<1>3. QED BY <1>1, <1>2, ServicesIdle DEF ServicesInv

(* A step that leaves the services alone and moves one request. *)
LEMMA ServicesMove ==
  ASSUME ServicesInv, NEW q \in Requests, NEW r, Call(r),
         serviceReq' = [serviceReq EXCEPT ![q] = r], services' = services
  PROVE  ServicesStep
<1>1. ASSUME NEW p \in Requests PROVE Call(serviceReq[p])'
  <2>1. PICK x : x = serviceReq'[p] /\ Call(x)
    BY DEF ServicesInv
  <2>2. QED BY <2>1 DEF Call, WholeCall, Points
<1>2. QED BY <1>1 DEF ServicesInv, ServicesStep

LEMMA ServicesStay ==
  ASSUME ServicesInv, serviceReq' = serviceReq, services' = services
  PROVE  ServicesStep
  BY DEF ServicesInv, ServicesStep, Call, WholeCall, Points

(* A save that adds or removes a service outdates every position read.     *)
LEMMA ServicesOutdate ==
  ASSUME ServicesInv, NEW q \in Requests, C!AnswerOutdating(q), Listed(services'),
         serviceReq[q].pc # "update"
  PROVE  ServicesStep
<1>1. ASSUME NEW p \in Requests
      PROVE  /\ Call(serviceReq[p])'
             /\ serviceReq[p].pc = "update" => serviceReq'[p].pc = "update"
  <2>1. PICK x : x = serviceReq[p] /\ Call(x)
    BY DEF ServicesInv
  <2>2. CASE p = q
    <3>1. serviceReq'[p] = C!Idle
      BY <2>2 DEF C!AnswerOutdating
    <3>2. QED BY <2>2, <3>1, ServicesIdle DEF Call, WholeCall, Points
  <2>3. CASE p # q /\ x.pc \in {"update", "splice"}
    <3>1. PICK y : y = [x EXCEPT !.fresh = FALSE]
      OBVIOUS
    <3>2. /\ WholeCall(y) /\ y.pc = x.pc /\ ~y.fresh /\ y.at = x.at /\ y.copy = x.copy
      BY <2>1, <3>1 DEF Call, WholeCall
    <3>3. serviceReq'[p] = y
      BY <2>1, <2>3, <3>1 DEF C!AnswerOutdating
    <3>4. QED BY <2>1, <3>2, <3>3 DEF Call, Points, WholeCall
  <2>4. CASE p # q /\ x.pc \notin {"update", "splice"}
    <3>1. serviceReq'[p] = x
      BY <2>1, <2>4 DEF C!AnswerOutdating
    <3>2. QED BY <2>1, <2>4, <3>1 DEF Call, Points, WholeCall
  <2>5. QED BY <2>2, <2>3, <2>4
<1>2. serviceReq' = [p \in Requests |-> serviceReq'[p]]
  BY DEF C!AnswerOutdating
<1>3. QED BY <1>1, <1>2 DEF ServicesInv, ServicesStep

LEMMA ServicesReplaced ==
  ASSUME ServicesInv, C!Update
  PROVE  ServicesStep
<1>1. Listed(services')
  <2>1. PICK n \in 0..C!Cardinality(C!NewIds) : \E names :
          services' = [i \in 1..n |-> [id |-> C!SetToSeq(C!NewIds)[i], name |-> names[i]]]
    BY DEF C!Update
  <2>2. n \in Nat
    <3>1. IsFiniteSet(1..MaxServices)
      BY ServicesConstants, FS_Interval
    <3>2. IsFiniteSet(C!NewIds)
      BY <3>1, FS_Subset DEF C!NewIds
    <3>3. Cardinality(C!NewIds) \in Nat
      BY <3>2, FS_CardinalityType
    <3>4. C!Cardinality(C!NewIds) = Cardinality(C!NewIds)
      BY DEF C!Cardinality, Cardinality
    <3>5. QED BY <2>1, <3>3, <3>4
  <2>3. PICK names :
          services' = [i \in 1..n |-> [id |-> C!SetToSeq(C!NewIds)[i], name |-> names[i]]]
    BY <2>1
  <2>4. services' = [i \in 1..n |-> [id |-> services'[i].id, name |-> services'[i].name]]
    BY <2>3
  <2>5. QED BY <2>2, <2>4 DEF Listed
<1>2. ASSUME NEW p \in Requests
      PROVE  Call(serviceReq[p])' /\ serviceReq'[p].pc = serviceReq[p].pc
  <2>1. PICK x : x = serviceReq[p] /\ Call(x)
    BY DEF ServicesInv
  <2>2. CASE x.pc \in {"update", "splice"}
    <3>1. PICK y : y = [x EXCEPT !.replaced = TRUE]
      OBVIOUS
    <3>2. WholeCall(y) /\ y.pc = x.pc /\ y.replaced /\ y.at = x.at /\ y.copy = x.copy
      BY <2>1, <3>1 DEF Call, WholeCall
    <3>3. serviceReq'[p] = y
      BY <2>1, <2>2, <3>1 DEF C!Update
    <3>4. QED BY <2>1, <3>2, <3>3 DEF Call, Points, WholeCall
  <2>3. CASE x.pc \notin {"update", "splice"}
    <3>1. serviceReq'[p] = x
      BY <2>1, <2>3 DEF C!Update
    <3>2. QED BY <2>1, <2>3, <3>1 DEF Call, Points, WholeCall
  <2>4. QED BY <2>2, <2>3
<1>3. serviceReq' = [p \in Requests |-> serviceReq'[p]]
  BY DEF C!Update
<1>4. QED BY <1>1, <1>2, <1>3 DEF ServicesInv, ServicesStep

(* What is written to the position of a service keeps the id of all, and   *)
(* changes no other; past the end it makes entries, and keeps those there  *)
(* were.                                                                   *)
LEMMA PutKeeps ==
  ASSUME NEW s, Listed(s), NEW k \in Nat \ {0}, NEW name
  PROVE  LET t == C!Put(s, k, name)
         IN  /\ Listed(t) /\ DOMAIN s \subseteq DOMAIN t
             /\ \A i \in DOMAIN s : t[i].id = s[i].id /\ (i # k => t[i] = s[i])
<1>1. PICK n \in Nat : s = [i \in 1..n |-> [id |-> s[i].id, name |-> s[i].name]]
  BY DEF Listed
<1>2. DOMAIN s = 1..n /\ \A i \in 1..n : s[i] = [id |-> s[i].id, name |-> s[i].name]
  BY <1>1
<1>3. PICK t : t = C!Put(s, k, name)
  OBVIOUS
<1>4. CASE k \in 1..n
  <2>1. PICK x : x = [s[k] EXCEPT !.name = name]
    OBVIOUS
  <2>2. x = [id |-> s[k].id, name |-> name]
    BY <1>2, <1>4, <2>1
  <2>3. t = [s EXCEPT ![k] = x]
    BY <1>2, <1>3, <1>4, <2>1 DEF C!Put
  <2>4. DOMAIN t = 1..n /\ \A i \in 1..n : t[i] = IF i = k THEN x ELSE s[i]
    BY <1>2, <2>3
  <2>5. \A i \in 1..n : t[i] = [id |-> t[i].id, name |-> t[i].name]
    BY <1>2, <2>2, <2>4
  <2>6. t = [i \in 1..n |-> t[i]]
    BY <1>1, <2>3, <2>4
  <2>7. t = [i \in 1..n |-> [id |-> t[i].id, name |-> t[i].name]]
    BY <2>5, <2>6
  <2>8. Listed(t)
    BY <2>7 DEF Listed
  <2>9. QED BY <1>2, <1>3, <2>2, <2>4, <2>8
<1>5. CASE k \notin 1..n
  <2>1. PICK x : x = [C!NoService EXCEPT !.name = name]
    OBVIOUS
  <2>2. x = [id |-> 0, name |-> name] /\ C!NoService = [id |-> 0, name |-> None]
    BY <2>1 DEF C!NoService
  <2>3. t = [i \in 1..k |-> IF i \in 1..n THEN s[i] ELSE IF i = k THEN x ELSE C!NoService]
    BY <1>2, <1>3, <1>5, <2>1 DEF C!Put
  <2>5. \A i \in 1..k : t[i] = [id |-> t[i].id, name |-> t[i].name]
    BY <1>2, <2>2, <2>3
  <2>7. t = [i \in 1..k |-> [id |-> t[i].id, name |-> t[i].name]]
    BY <2>3, <2>5
  <2>8. Listed(t)
    BY <2>7 DEF Listed
  <2>6. k > n
    BY <1>5
  <2>9. QED BY <1>2, <1>3, <1>5, <2>3, <2>6, <2>8
<1>6. QED BY <1>4, <1>5

LEMMA ServicesChanged ==
  ASSUME ServicesInv, NEW q \in Requests, C!SaveService(q)
  PROVE  ServicesStep
<1>1. PICK r : r = serviceReq[q] /\ Call(r)
  BY DEF ServicesInv
<1>2. r.pc = "update" /\ r.at \in Nat \ {0} /\ serviceReq' = [serviceReq EXCEPT ![q] = C!Idle]
  BY <1>1 DEF C!SaveService, C!Answer, Call, Points
<1>3. CASE ~r.fresh
  <2>1. services' = services
    BY <1>1, <1>3 DEF C!SaveService
  <2>2. QED BY <1>2, <2>1, ServicesIdle, ServicesMove
<1>4. CASE r.fresh
  <2>1. services' = C!Put(services, r.at, r.name)
    BY <1>1, <1>4 DEF C!SaveService
  <2>2. /\ Listed(services') /\ DOMAIN services \subseteq DOMAIN services'
        /\ \A i \in DOMAIN services :
             services'[i].id = services[i].id /\ (i # r.at => services'[i] = services[i])
    BY <1>2, <2>1, PutKeeps DEF ServicesInv
  <2>3. ASSUME NEW p \in Requests
        PROVE  /\ Call(serviceReq[p])'
               /\ p # q => serviceReq'[p] = serviceReq[p]
    <3>1. PICK x : x = serviceReq'[p] /\ Call(x)
      BY <1>2, ServicesIdle DEF ServicesInv
    <3>2. Points(x)'
      BY <2>2, <3>1 DEF Call, Points
    <3>3. p # q => serviceReq'[p] = serviceReq[p]
      BY <1>2 DEF ServicesInv
    <3>4. QED BY <3>1, <3>2, <3>3 DEF Call, WholeCall, Points
  <2>4. ~r.replaced => services[r.at].id = r.id
    BY <1>1, <1>2, <1>4 DEF Call, Points
  <2>5. ServicesInv'
    BY <1>2, <2>2, <2>3 DEF ServicesInv
  <2>6. QED BY <1>1, <2>2, <2>3, <2>4, <2>5 DEF ServicesStep
<1>5. QED BY <1>3, <1>4

(* A service is added at the end. *)
LEMMA ListedAppend ==
  ASSUME NEW s, Listed(s), NEW id, NEW name
  PROVE  Listed(Append(s, [id |-> id, name |-> name]))
<1>1. PICK n \in Nat : s = [i \in 1..n |-> [id |-> s[i].id, name |-> s[i].name]]
  BY DEF Listed
<1>2. PICK x : x = [id |-> id, name |-> name]
  OBVIOUS
<1>3. PICK all : all = {s[i] : i \in 1..n} \cup {x}
  OBVIOUS
<1>4. s \in [1..n -> all]
  BY <1>1, <1>3
<1>5. s \in Seq(all) /\ Len(s) = n /\ x \in all
  BY <1>3, <1>4
<1>6. PICK t : t = Append(s, x)
  OBVIOUS
<1>7. t \in Seq(all) /\ Len(t) = n + 1 /\ t[n + 1] = x /\ \A i \in 1..n : t[i] = s[i]
  BY <1>5, <1>6
<1>8. \A i \in 1..(n + 1) : t[i] = [id |-> t[i].id, name |-> t[i].name]
  BY <1>1, <1>2, <1>7
<1>9. t = [i \in 1..(n + 1) |-> [id |-> t[i].id, name |-> t[i].name]]
  BY <1>7, <1>8
<1>10. Listed(t)
  BY <1>9, n + 1 \in Nat DEF Listed
<1>11. QED BY <1>2, <1>6, <1>10

(* Those that are left are services. *)
LEMMA ServicesRemoved ==
  ASSUME ServicesInv, NEW q \in Requests, C!RemoveService(q)
  PROVE  ServicesStep
<1>1. PICK n \in Nat :
        services = [i \in 1..n |-> [id |-> services[i].id, name |-> services[i].name]]
  BY DEF Listed, ServicesInv
<1>2. DOMAIN services = 1..n /\ \A i \in 1..n :
        services[i] = [id |-> services[i].id, name |-> services[i].name]
  BY <1>1
<1>3. PICK kept : kept = {i \in DOMAIN services : services[i].name # serviceReq[q].name}
  OBVIOUS
<1>4. C!Cardinality(kept) \in Nat
  <2>1. IsFiniteSet(1..n)
    BY FS_Interval
  <2>2. IsFiniteSet(kept)
    BY <1>2, <1>3, <2>1, FS_Subset
  <2>3. Cardinality(kept) \in Nat
    BY <2>2, FS_CardinalityType
  <2>4. C!Cardinality(kept) = Cardinality(kept)
    BY DEF C!Cardinality, Cardinality
  <2>5. QED BY <2>3, <2>4
<1>5. PICK m \in Nat : m = C!Cardinality(kept)
  BY <1>4
<1>6. PICK from \in [1..m -> kept] :
        serviceReq' = [serviceReq EXCEPT ![q].pc = "splice",
                                         ![q].copy = [k \in DOMAIN from |-> services[from[k]]]]
  BY <1>3, <1>5 DEF C!RemoveService
<1>7. PICK c : c = [k \in 1..m |-> services[from[k]]]
  OBVIOUS
<1>8. Listed(c)
  <2>1. \A k \in 1..m : c[k] = [id |-> c[k].id, name |-> c[k].name]
    BY <1>2, <1>3, <1>6, <1>7
  <2>2. c = [k \in 1..m |-> [id |-> c[k].id, name |-> c[k].name]]
    BY <1>7, <2>1
  <2>3. QED BY <2>2 DEF Listed
<1>9. PICK r : r = serviceReq[q] /\ Call(r)
  BY DEF ServicesInv
<1>10. PICK x : x = [r EXCEPT !.pc = "splice", !.copy = c]
  OBVIOUS
<1>11. serviceReq' = [serviceReq EXCEPT ![q] = x] /\ services' = services
  BY <1>6, <1>7, <1>9, <1>10 DEF C!RemoveService
<1>12. WholeCall(x) /\ x.pc = "splice" /\ x.copy = c
  BY <1>9, <1>10 DEF Call, WholeCall
<1>13. Call(x)
  BY <1>8, <1>12 DEF Call, Points
<1>14. QED BY <1>11, <1>13, ServicesMove

LEMMA ServicesStarts ==
  ASSUME ServicesInv, NEW q \in Requests, NEW i \in 1..MaxServices,
         C!DeleteService(q, i) \/ \E name \in Things : C!UpdateService(q, i, name)
  PROVE  ServicesStep
<1>1. CASE C!DeleteService(q, i)
  <2>1. PICK x : /\ x = [C!Idle EXCEPT !.pc = "remove", !.name = services[i].name]
                 /\ serviceReq' = [serviceReq EXCEPT ![q] = x] /\ services' = services
    BY <1>1 DEF C!DeleteService, C!Start
  <2>2. Call(x)
    BY <2>1 DEF C!Idle, Call, WholeCall, Points
  <2>3. QED BY <2>1, <2>2, ServicesMove
<1>2. ASSUME NEW name \in Things, C!UpdateService(q, i, name) PROVE ServicesStep
  <2>1. PICK x : /\ x = [C!Idle EXCEPT !.pc = "update", !.id = services[i].id, !.at = i,
                                       !.name = name]
                 /\ serviceReq' = [serviceReq EXCEPT ![q] = x] /\ services' = services
                 /\ i \in DOMAIN services
    BY <1>2 DEF C!UpdateService, C!Start
  <2>2. x = [pc |-> "update", id |-> services[i].id, at |-> i, name |-> name, copy |-> << >>,
             fresh |-> TRUE, replaced |-> FALSE]
    BY <2>1 DEF C!Idle
  <2>3. /\ x.at = i /\ x.id = services[i].id /\ x.pc = "update" /\ WholeCall(x)
        /\ i \in Nat \ {0}
    BY <2>2, ServicesConstants DEF WholeCall
  <2>4. Call(x)
    BY <2>1, <2>3 DEF Call, Points
  <2>5. QED BY <2>1, <2>4, ServicesMove
<1>3. QED BY <1>1, <1>2

LEMMA ServicesSaves ==
  ASSUME ServicesInv, NEW q \in Requests,
         \/ C!SaveRemaining(q) \/ C!Abort(q)
         \/ \E name \in Things : C!AddService(q, name)
  PROVE  ServicesStep
<1>1. CASE serviceReq' = [serviceReq EXCEPT ![q] = C!Idle] /\ services' = services
  BY <1>1, ServicesIdle, ServicesMove
<1>2. CASE C!SaveRemaining(q) /\ services' = serviceReq[q].copy /\ C!AnswerOutdating(q)
  <2>1. PICK r : r = serviceReq[q] /\ r.pc = "splice" /\ Call(r)
    BY <1>2 DEF ServicesInv, C!SaveRemaining
  <2>2. Listed(services')
    BY <1>2, <2>1 DEF Call
  <2>3. QED BY <1>2, <2>1, <2>2, ServicesOutdate
<1>3. ASSUME NEW name \in Things, C!AddService(q, name) PROVE ServicesStep
  <2>1. PICK id : services' = Append(services, [id |-> id, name |-> name])
    BY <1>3 DEF C!AddService
  <2>2. Listed(services')
    BY <2>1, ListedAppend DEF ServicesInv
  <2>3. C!AnswerOutdating(q) /\ serviceReq[q].pc = "idle"
    BY <1>3 DEF C!AddService
  <2>4. QED BY <2>2, <2>3, ServicesOutdate
<1>4. QED BY <1>1, <1>2, <1>3 DEF C!SaveRemaining, C!Abort, C!Answer

LEMMA ServicesNext ==
  ASSUME ServicesInv, C!Next \/ UNCHANGED servicesVars
  PROVE  ServicesStep
<1>1. CASE C!Next
  <2>1. CASE C!Create \/ C!Delete
    <3>1. services' = services /\ serviceReq' = serviceReq
      BY <2>1 DEF C!Create, C!Delete
    <3>2. QED BY <3>1, ServicesStay
  <2>2. QED
    BY <1>1, <2>1, ServicesReplaced, ServicesChanged, ServicesRemoved, ServicesStarts,
       ServicesSaves DEF C!Next
<1>2. CASE UNCHANGED servicesVars
  BY <1>2, ServicesStay DEF servicesVars
<1>3. QED BY <1>1, <1>2

(* A change of one service reaches no other. *)
THEOREM OthersServicesStay == Spec => C!OnlyItsService
<1>1. ServicesInv /\ [Next]_vars => ServicesStep
  BY PartsStep, ServicesNext
<1>2. ServicesStep => ServicesInv'
  BY DEF ServicesStep
<1>3. ServicesStep =>
        [\A q \in Requests :
           serviceReq[q].pc = "update" /\ serviceReq'[q].pc = "idle" /\ ~serviceReq[q].replaced =>
             \A i \in DOMAIN services : services[i].id # serviceReq[q].id =>
               i \in DOMAIN services' /\ services'[i] = services[i]]_(C!vars)
  BY DEF ServicesStep
<1>4. QED BY ServicesInit, <1>1, <1>2, <1>3, PTL DEF Spec, C!OnlyItsService

(* What one request changes leaves alone what others have: all four.       *)
THEOREM OthersStay == Spec => OthersKept
  BY OwnEntriesStay, OthersServicesStay, GrantsStay, CapturedStays DEF OthersKept

-----------------------------------------------------------------------------

(* Types.  The parts whose proofs have no type invariant get one here: what*)
(* is left of TypeOK once their invariants are known.                      *)
LoginTypes == LockInv /\ L!TypeOK

LEMMA GuessesFit == L!MaxGuesses \in Nat
<1>1. LockAfter \in Nat
  BY WorkspaceConstants DEF L!SignInConstants
<1>2. PICK n \in Nat : n = LockAfter * (LockAfter + 1)
  BY <1>1
<1>3. n \div 2 + 2 \in Nat
  BY <1>2
<1>4. QED BY <1>2, <1>3 DEF L!MaxGuesses

LEMMA LoginTypesInit == Init => LoginTypes
<1>1. Init => LockInv
  BY LockInit
<1>2. Init => profile = FALSE /\ guesses = 0
  BY DEF Init, L!Init
<1>4. 0 \in 0..L!MaxGuesses /\ FALSE \in BOOLEAN
  BY GuessesFit
<1>3. QED BY <1>1, <1>2, <1>4 DEF LoginTypes, LockInv, L!TypeOK

LEMMA LoginTypesNext ==
  ASSUME LoginTypes, L!Next \/ UNCHANGED loginsVars
  PROVE  LoginTypes'
<1>1. LockInv'
  BY LockNext DEF LoginTypes
<1>2. guesses \in 0..L!MaxGuesses /\ profile \in BOOLEAN /\ L!MaxGuesses \in Nat
  BY GuessesFit DEF LoginTypes, L!TypeOK
<1>3. guesses' \in 0..L!MaxGuesses /\ profile' \in BOOLEAN
  <2>1. CASE UNCHANGED loginsVars
    BY <1>2, <2>1 DEF loginsVars
  <2>2. ASSUME NEW q \in Requests, L!LoginFails(q) PROVE guesses' \in 0..L!MaxGuesses /\ profile' \in BOOLEAN
    <3>1. guesses < L!MaxGuesses /\ (guesses' = guesses \/ guesses' = guesses + 1) /\ profile' = profile
      BY <2>2 DEF L!LoginFails, L!WrongPassword
    <3>2. QED BY <1>2, <3>1
  <2>3. CASE L!Next /\ ~(\E q \in Requests : L!LoginFails(q))
    <3>1. /\ guesses' = guesses \/ guesses' = 0
          /\ profile' = profile \/ profile' = TRUE \/ profile' = FALSE
      BY <2>3 DEF L!Next, L!Register, L!RegisterProfile, L!Login, L!LoginSucceeds, L!ResetPassword,
         L!SaveReset, L!VerifyEmail, L!SaveVerified, L!ForgotPassword, L!ResendVerification,
         L!SetStatus, L!LockLapses, L!LinkExpires
    <3>2. guesses' \in 0..L!MaxGuesses
      BY <1>2, <3>1
    <3>3. profile' \in BOOLEAN
      BY <1>2, <3>1
    <3>4. QED BY <3>2, <3>3
  <2>4. QED BY <2>1, <2>2, <2>3
<1>4. QED BY <1>1, <1>3 DEF LoginTypes, LockInv, L!TypeOK

LEMMA LoginTyped == Spec => []L!TypeOK
<1>1. LoginTypes => L!TypeOK
  BY DEF LoginTypes
<1>2. LoginTypes /\ [Next]_vars => LoginTypes'
  BY PartsStep, LoginTypesNext
<1>3. QED BY LoginTypesInit, <1>1, <1>2, PTL DEF Spec

-----------------------------------------------------------------------------
SessionTypes == ShutInv /\ S!TypeOK

LEMMA SessionTypesInit == Init => SessionTypes
<1>1. Init => ShutInv
  BY ShutInit
<1>2. Init => refresh \in BOOLEAN /\ challenge \in BOOLEAN /\ access \subseteq {"before", "after"}
  BY DEF Init, S!Init
<1>3. QED BY <1>1, <1>2 DEF SessionTypes, ShutInv, ShutTypes, S!TypeOK

LEMMA SessionTypesNext ==
  ASSUME SessionTypes, S!Next \/ UNCHANGED sessionsVars
  PROVE  SessionTypes'
<1>1. ShutInv'
  BY ShutNext DEF SessionTypes
<1>2. refresh \in BOOLEAN /\ challenge \in BOOLEAN /\ access \subseteq {"before", "after"}
  BY DEF SessionTypes, S!TypeOK
<1>3. /\ refresh' \in {refresh, TRUE, FALSE} /\ challenge' \in {challenge, TRUE, FALSE}
      /\ access' \subseteq access \cup {"before", "after"}
  <2>1. CASE UNCHANGED sessionsVars
    BY <1>2, <2>1 DEF sessionsVars
  <2>2. CASE S!Next
    <3>1. ASSUME NEW q \in Requests,
                 S!Login(q) \/ S!Refresh(q) \/ S!VerifyMfa(q) \/ S!IssueTokens(q)
          PROVE  <1>3
      BY <1>2, <3>1 DEF S!Login, S!Refresh, S!VerifyMfa, S!IssueTokens
    <3>2. ASSUME NEW q \in Requests,
                 \/ S!Suspend(q) \/ S!MarkSuspended(q) \/ S!Activate(q) \/ S!SaveActive(q)
                 \/ S!ClearSuspended(q) \/ S!Abort(q)
          PROVE  <1>3
      BY <1>2, <3>2 DEF S!Suspend, S!MarkSuspended, S!Activate, S!SaveActive, S!ClearSuspended, S!Abort
    <3>3. ASSUME NEW q \in Requests,
                 S!EnableMfa(q) \/ S!SaveEnabled(q) \/ S!DisableMfa(q) \/ S!SaveDisabled(q)
          PROVE  <1>3
      BY <1>2, <3>3 DEF S!EnableMfa, S!SaveEnabled, S!DisableMfa, S!SaveDisabled
    <3>4. ASSUME S!UpdateStatus \/ S!SetupMfa \/ S!GenerateBackupCodes \/ S!Logout \/ S!Expires
                 \/ S!MarkerExpires
          PROVE  <1>3
      BY <1>2, <3>4 DEF S!UpdateStatus, S!SetupMfa, S!GenerateBackupCodes, S!Logout, S!Expires, S!MarkerExpires
    <3>5. QED BY <2>2, <3>1, <3>2, <3>3, <3>4 DEF S!Next
  <2>3. QED BY <2>1, <2>2
<1>4. QED BY <1>1, <1>2, <1>3 DEF SessionTypes, ShutInv, ShutTypes, S!TypeOK

LEMMA SessionTyped == Spec => []S!TypeOK
<1>1. SessionTypes => S!TypeOK
  BY DEF SessionTypes
<1>2. SessionTypes /\ [Next]_vars => SessionTypes'
  BY PartsStep, SessionTypesNext
<1>3. QED BY SessionTypesInit, <1>1, <1>2, PTL DEF Spec

-----------------------------------------------------------------------------
StaffTypes == GrantInv /\ active \subseteq Things

LEMMA StaffTypesNext ==
  ASSUME StaffTypes, P!Next \/ UNCHANGED permissionsVars
  PROVE  StaffTypes'
<1>1. GrantInv'
  BY GrantNext DEF StaffTypes, GrantStep
<1>2. active' \subseteq Things
  <2>1. CASE UNCHANGED permissionsVars
    BY <2>1 DEF permissionsVars, StaffTypes
  <2>2. CASE P!Next
    BY <2>2 DEF StaffTypes, P!Next, P!UpdateRole, P!DeleteRole, P!CreateStaff, P!UpdateStaff,
       P!DeleteStaff, P!LoadRole, P!LoadHolder, P!AssignToAccount, P!RemoveFromAccount,
       P!LoadStaff, P!AddPermission, P!RemovePermission, P!Abort
  <2>3. QED BY <2>1, <2>2
<1>3. QED BY <1>1, <1>2 DEF StaffTypes

LEMMA StaffTyped == Spec => []P!TypeOK
<1>1. StaffTypes => P!TypeOK
  BY DEF StaffTypes, GrantInv, P!TypeOK
<1>2. StaffTypes /\ [Next]_vars => StaffTypes'
  BY PartsStep, StaffTypesNext
<1>3. Init => StaffTypes
  <2>1. Init => active = Things
    BY DEF Init, P!Init
  <2>2. QED BY <2>1, GrantInit DEF StaffTypes
<1>4. QED BY <1>1, <1>2, <1>3, PTL DEF Spec

(* Services: there are never more than ids to give them, the ones that a   *)
(* request is about to leave included.                                     *)
Offers(s) == s \in Seq(C!Service) /\ Len(s) <= MaxServices

ServiceTypes ==
  /\ center \in C!Center /\ Offers(services)
  /\ serviceReq \in [Requests -> C!Request]
  /\ \A q \in Requests : Len(serviceReq[q].copy) <= MaxServices

LEMMA OffersListed ==
  ASSUME NEW n \in 0..MaxServices, NEW s \in [1..n -> C!Service]
  PROVE  Offers(s)
<1>1. n \in Nat /\ n <= MaxServices
  BY ServicesConstants
<1>2. s \in Seq(C!Service) /\ Len(s) = n
  BY <1>1
<1>3. QED BY <1>1, <1>2 DEF Offers

(* Some minimal set of a family of finite sets.                            *)
LEMMA LeastSet ==
  ASSUME NEW base, IsFiniteSet(base), NEW F \in SUBSET SUBSET base, F # {}
  PROVE  \E t \in F : \A u \in F : u \subseteq t => u = t
<1>1. IsWellFoundedOn(StrictSubsetOrdering(base), SUBSET base)
  BY FS_StrictSubsetOrderingWellFounded, FS_FiniteSubsetsOfFinite
<1>2. PICK t \in F : \A u \in F : ~(<<u, t>> \in StrictSubsetOrdering(base))
  BY <1>1, WFMin
<1>3. QED BY <1>2 DEF StrictSubsetOrdering

LEMMA LeastId ==
  ASSUME NEW ids \in SUBSET (1..MaxServices), ids # {}
  PROVE  C!Min(ids) \in ids
<1>1. MaxServices \in Nat
  BY ServicesConstants
<1>2. PICK F : F = {1..x : x \in ids}
  OBVIOUS
<1>3. F \in SUBSET SUBSET (1..MaxServices) /\ F # {}
  <2>1. ASSUME NEW u \in F PROVE u \subseteq 1..MaxServices
    <3>1. PICK x \in ids : u = 1..x
      BY <1>2
    <3>2. x \in 1..MaxServices
      OBVIOUS
    <3>3. QED BY <1>1, <3>1, <3>2
  <2>2. F # {}
    BY <1>2
  <2>3. QED BY <2>1, <2>2
<1>4. PICK t \in F : \A u \in F : u \subseteq t => u = t
  <2>1. PICK all : all = 1..MaxServices
    OBVIOUS
  <2>2. IsFiniteSet(all)
    BY <1>1, <2>1, FS_Interval
  <2>3. F \in SUBSET SUBSET all /\ F # {}
    BY <1>3, <2>1
  <2>4. QED BY <2>2, <2>3, LeastSet
<1>5. PICK x \in ids : t = 1..x
  BY <1>2, <1>4
<1>6. ASSUME NEW y \in ids PROVE x <= y
  <2>1. SUFFICES ASSUME y < x PROVE FALSE
    BY <1>1
  <2>2. x \in Nat \ {0} /\ y \in Nat
    BY <1>1
  <2>3. 1..y \in F /\ 1..y \subseteq 1..x
    BY <1>2, <2>1, <2>2
  <2>4. 1..y = 1..x
    BY <1>4, <1>5, <2>3
  <2>5. x \in 1..x /\ x \notin 1..y
    BY <2>1, <2>2
  <2>6. QED BY <2>4, <2>5
<1>7. QED BY <1>6 DEF C!Min

(* The ids of new services are the free ones, in some order.               *)
LEMMA IdsListed ==
  ASSUME NEW ids \in SUBSET (1..MaxServices)
  PROVE  /\ C!Cardinality(ids) \in 0..MaxServices
         /\ \A i \in 1..C!Cardinality(ids) : C!SetToSeq(ids)[i] \in ids
<1>1. IsFiniteSet(1..MaxServices) /\ Cardinality(1..MaxServices) = MaxServices
  BY ServicesConstants, FS_Interval
<1>2. PICK n : n = Cardinality(ids)
  OBVIOUS
<1>3. C!Cardinality(ids) = n
  BY <1>2 DEF C!Cardinality, Cardinality
<1>4. IsFiniteSet(ids) /\ n \in Nat /\ n <= MaxServices /\ ExistsBijection(1..n, ids)
  BY <1>1, <1>2, FS_Subset, FS_CardinalityType
<1>5. PICK f : f \in Bijection(1..n, ids)
  BY <1>4 DEF ExistsBijection
<1>6. f \in [1..n -> ids] /\ C!IsInjective(f)
  BY <1>5 DEF Bijection, Injection, IsInjective, C!IsInjective
<1>7. C!SetToSeq(ids) \in [1..n -> ids]
  BY <1>3, <1>6 DEF C!SetToSeq
<1>8. QED BY <1>3, <1>4, <1>7, ServicesConstants

LEMMA ServiceIdle ==
  /\ C!Idle \in C!Request /\ Len(C!Idle.copy) <= MaxServices /\ C!NoService \in C!Service
<1>1. << >> \in Seq(C!Service) /\ Len(<< >>) = 0 /\ 0 \in 0..MaxServices
  BY ServicesConstants
<1>2. C!Idle.copy = << >>
  BY DEF C!Idle
<1>3. C!Idle \in C!Request
  BY <1>1 DEF C!Idle, C!Request
<1>4. C!NoService \in C!Service
  BY <1>1 DEF C!NoService, C!Service
<1>5. QED BY <1>1, <1>2, <1>3, <1>4, ServicesConstants

LEMMA ServiceTypesInit == Init => ServiceTypes
<1> SUFFICES ASSUME Init PROVE ServiceTypes
  OBVIOUS
<1>1. C!Init
  BY DEF Init
<1>2. Offers(<< >>)
  BY ServicesConstants DEF Offers
<1>3. QED BY <1>1, <1>2, ServiceIdle DEF C!Init, C!Center, ServiceTypes

LEMMA ServiceMoves ==
  ASSUME ServiceTypes, NEW q \in Requests, NEW r \in C!Request, Len(r.copy) <= MaxServices,
         serviceReq' = [serviceReq EXCEPT ![q] = r], center' \in C!Center, Offers(services')
  PROVE  ServiceTypes'
  BY DEF ServiceTypes, Offers

LEMMA ServiceOutdates ==
  ASSUME ServiceTypes, NEW q \in Requests, C!AnswerOutdating(q), center' = center, Offers(services')
  PROVE  ServiceTypes'
<1>1. ASSUME NEW p \in Requests
      PROVE  serviceReq'[p] \in C!Request /\ Len(serviceReq'[p].copy) <= MaxServices
  <2>1. PICK r : r = serviceReq[p] /\ r \in C!Request /\ Len(r.copy) <= MaxServices
    BY DEF ServiceTypes
  <2>2. PICK x : x = [r EXCEPT !.fresh = FALSE]
    OBVIOUS
  <2>3. x \in C!Request /\ x.copy = r.copy
    BY <2>1, <2>2 DEF C!Request
  <2>4. serviceReq'[p] \in {C!Idle, x, r}
    BY <2>1, <2>2 DEF C!AnswerOutdating
  <2>5. QED BY <2>1, <2>3, <2>4, ServiceIdle
<1>2. serviceReq' \in [Requests -> C!Request]
  BY <1>1 DEF C!AnswerOutdating
<1>3. QED BY <1>1, <1>2 DEF ServiceTypes, Offers

LEMMA UpdateTypes ==
  ASSUME ServiceTypes, C!Update
  PROVE  ServiceTypes'
<1>1. PICK ids : ids = C!NewIds /\ ids \in SUBSET (1..MaxServices)
  BY DEF C!NewIds
<1>2. PICK n \in 0..C!Cardinality(ids) : \E names \in [1..n -> Things] :
        services' = [i \in 1..n |-> [id |-> C!SetToSeq(ids)[i], name |-> names[i]]]
  BY <1>1 DEF C!Update
<1>3. PICK names \in [1..n -> Things] :
        services' = [i \in 1..n |-> [id |-> C!SetToSeq(ids)[i], name |-> names[i]]]
  BY <1>2
<1>4. n \in 0..MaxServices /\ \A i \in 1..n : C!SetToSeq(ids)[i] \in 1..MaxServices
  <2>1. PICK m : m = C!Cardinality(ids)
    OBVIOUS
  <2>2. m \in 0..MaxServices /\ \A i \in 1..m : C!SetToSeq(ids)[i] \in ids
    BY <1>1, <2>1, IdsListed
  <2>3. n \in 0..m
    BY <2>1
  <2>4. n \in 0..MaxServices /\ 1..n \subseteq 1..m
    BY <2>2, <2>3, ServicesConstants
  <2>5. QED BY <1>1, <2>2, <2>4
<1>5. ASSUME NEW i \in 1..n PROVE [id |-> C!SetToSeq(ids)[i], name |-> names[i]] \in C!Service
  <2>1. PICK k : k = C!SetToSeq(ids)[i] /\ k \in 0..MaxServices
    BY <1>4
  <2>2. QED BY <2>1 DEF C!Service
<1>6. services' \in [1..n -> C!Service]
  BY <1>3, <1>5
<1>7. Offers(services')
  BY <1>4, <1>6, OffersListed
<1>8. ASSUME NEW p \in Requests
      PROVE  serviceReq'[p] \in C!Request /\ Len(serviceReq'[p].copy) <= MaxServices
  <2>1. PICK r : r = serviceReq[p] /\ r \in C!Request /\ Len(r.copy) <= MaxServices
    BY DEF ServiceTypes
  <2>2. PICK x : x = [r EXCEPT !.replaced = TRUE]
    OBVIOUS
  <2>3. x \in C!Request /\ x.copy = r.copy
    BY <2>1, <2>2 DEF C!Request
  <2>4. serviceReq'[p] \in {x, r}
    BY <2>1, <2>2 DEF C!Update
  <2>5. QED BY <2>1, <2>3, <2>4
<1>9. serviceReq' \in [Requests -> C!Request] /\ center' = center
  BY <1>8 DEF C!Update
<1>10. QED BY <1>7, <1>8, <1>9 DEF ServiceTypes, Offers

LEMMA AddTypes ==
  ASSUME ServiceTypes, NEW q \in Requests, NEW name \in Things, C!AddService(q, name)
  PROVE  ServiceTypes'
<1>1. C!Min(C!NewIds) \in C!NewIds
  BY LeastId DEF C!AddService, C!NewIds
<1>2. PICK id : id = C!Min(C!NewIds) /\ id \in 1..MaxServices
  BY <1>1 DEF C!NewIds
<1>3. PICK s : s = [id |-> id, name |-> name]
  OBVIOUS
<1>4. s \in C!Service
  BY <1>2, <1>3 DEF C!Service
<1>5. services' = Append(services, s) /\ Len(services) < MaxServices /\ center' = center
  BY <1>2, <1>3 DEF C!AddService
<1>6. Offers(services')
  BY <1>4, <1>5, ServicesConstants DEF ServiceTypes, Offers
<1>7. C!AnswerOutdating(q)
  BY DEF C!AddService
<1>8. QED BY <1>5, <1>6, <1>7, ServiceOutdates

LEMMA PutTypes ==
  ASSUME NEW s, Offers(s), NEW k \in 1..MaxServices, NEW name \in Things \cup {None}
  PROVE  Offers(C!Put(s, k, name))
<1>1. PICK n : n = Len(s) /\ n \in Nat /\ n <= MaxServices /\ s \in [1..n -> C!Service]
  BY DEF Offers
<1>2. PICK t : t = C!Put(s, k, name)
  OBVIOUS
<1>3. MaxServices \in Nat
  BY ServicesConstants
<1>4. CASE k \in 1..n
  <2>1. PICK x : x = [s[k] EXCEPT !.name = name]
    OBVIOUS
  <2>2. x \in C!Service
    BY <1>1, <1>4, <2>1 DEF C!Service
  <2>3. t = [s EXCEPT ![k] = x]
    BY <1>1, <1>2, <1>4, <2>1 DEF C!Put
  <2>4. t \in [1..n -> C!Service]
    BY <1>1, <2>2, <2>3
  <2>5. n \in 0..MaxServices
    BY <1>1, <1>3
  <2>6. QED BY <1>2, <2>4, <2>5, OffersListed
<1>5. CASE k \notin 1..n
  <2>1. PICK x : x = [C!NoService EXCEPT !.name = name]
    OBVIOUS
  <2>2. x \in C!Service
    BY <2>1, ServiceIdle DEF C!Service
  <2>3. t = [i \in 1..k |-> IF i \in 1..n THEN s[i] ELSE IF i = k THEN x ELSE C!NoService]
    BY <1>1, <1>2, <1>5, <2>1 DEF C!Put
  <2>4. t \in [1..k -> C!Service]
    BY <1>1, <2>2, <2>3, ServiceIdle
  <2>5. k \in 0..MaxServices
    BY <1>3
  <2>6. QED BY <1>2, <2>4, <2>5, OffersListed
<1>6. QED BY <1>4, <1>5

LEMMA SaveTypes ==
  ASSUME ServiceTypes, ServicesInv, NEW q \in Requests, C!SaveService(q)
  PROVE  ServiceTypes'
<1>1. PICK r : r = serviceReq[q] /\ r \in C!Request /\ Call(r)
  BY DEF ServiceTypes, ServicesInv
<1>2. r.pc = "update" /\ r.at \in 1..MaxServices /\ r.name \in Things \cup {None}
  BY <1>1, ServicesConstants DEF C!SaveService, Call, Points, C!Request
<1>3. Offers(C!Put(services, r.at, r.name))
  BY <1>2, PutTypes DEF ServiceTypes
<1>4. Offers(services')
  BY <1>1, <1>3 DEF C!SaveService, ServiceTypes
<1>5. serviceReq' = [serviceReq EXCEPT ![q] = C!Idle] /\ center' \in C!Center
  BY DEF C!SaveService, C!Answer, ServiceTypes
<1>6. QED BY <1>4, <1>5, ServiceIdle, ServiceMoves

LEMMA RemoveTypes ==
  ASSUME ServiceTypes, NEW q \in Requests, C!RemoveService(q)
  PROVE  ServiceTypes'
<1>1. PICK n : n = Len(services) /\ n \in Nat /\ n <= MaxServices /\ services \in [1..n -> C!Service]
  BY DEF Offers, ServiceTypes
<1>2. PICK kept : kept = {i \in DOMAIN services : services[i].name # serviceReq[q].name}
  OBVIOUS
<1>3. kept \in SUBSET (1..MaxServices) /\ kept \subseteq 1..n
  <2>1. kept \subseteq 1..n
    BY <1>1, <1>2
  <2>2. 1..n \subseteq 1..MaxServices
    BY <1>1, ServicesConstants
  <2>3. QED BY <2>1, <2>2
<1>4. PICK m : m = C!Cardinality(kept) /\ m \in 0..MaxServices
  BY <1>3, IdsListed
<1>5. PICK from \in [1..m -> kept] :
        serviceReq' = [serviceReq EXCEPT ![q].pc = "splice",
                                         ![q].copy = [k \in DOMAIN from |-> services[from[k]]]]
  BY <1>4, <1>2 DEF C!RemoveService
<1>6. PICK c : c = [k \in 1..m |-> services[from[k]]]
  OBVIOUS
<1>7. c \in [1..m -> C!Service]
  BY <1>1, <1>3, <1>5, <1>6
<1>8. Offers(c)
  BY <1>4, <1>7, OffersListed
<1>9. PICK r : r = serviceReq[q] /\ r \in C!Request
  BY DEF ServiceTypes
<1>10. PICK x : x = [r EXCEPT !.pc = "splice", !.copy = c]
  OBVIOUS
<1>11. x \in C!Request /\ x.copy = c
  BY <1>8, <1>9, <1>10 DEF C!Request, Offers
<1>12. serviceReq' = [serviceReq EXCEPT ![q] = x]
  BY <1>5, <1>6, <1>9, <1>10
<1>13. services' = services /\ center' = center
  BY DEF C!RemoveService
<1>14. QED BY <1>8, <1>11, <1>12, <1>13, ServiceMoves DEF ServiceTypes, Offers

LEMMA StartTypes ==
  ASSUME ServiceTypes, NEW q \in Requests, NEW i \in 1..MaxServices,
         C!DeleteService(q, i) \/ \E name \in Things : C!UpdateService(q, i, name)
  PROVE  ServiceTypes'
<1>1. services' = services /\ center' = center
  BY DEF C!DeleteService, C!UpdateService
<1>2. PICK s : s = services[i]
  OBVIOUS
<1>3. i \in DOMAIN services => s \in C!Service
  BY <1>2 DEF ServiceTypes, Offers
<1>4. ASSUME C!DeleteService(q, i) PROVE ServiceTypes'
  <2>1. PICK x : x = [C!Idle EXCEPT !.pc = "remove", !.name = s.name]
    OBVIOUS
  <2>2. s \in C!Service /\ serviceReq' = [serviceReq EXCEPT ![q] = x]
    BY <1>2, <1>3, <1>4, <2>1 DEF C!DeleteService, C!Start
  <2>3. x \in C!Request /\ x.copy = C!Idle.copy
    BY <2>1, <2>2, ServiceIdle DEF C!Request, C!Service
  <2>4. QED BY <1>1, <2>2, <2>3, ServiceIdle, ServiceMoves DEF ServiceTypes
<1>5. ASSUME NEW name \in Things, C!UpdateService(q, i, name) PROVE ServiceTypes'
  <2>1. PICK x : x = [C!Idle EXCEPT !.pc = "update", !.id = s.id, !.at = i, !.name = name]
    OBVIOUS
  <2>2. s \in C!Service /\ serviceReq' = [serviceReq EXCEPT ![q] = x]
    BY <1>2, <1>3, <1>5, <2>1 DEF C!UpdateService, C!Start
  <2>3. i \in 0..MaxServices
    BY ServicesConstants
  <2>4. x \in C!Request /\ x.copy = C!Idle.copy
    BY <2>1, <2>2, <2>3, ServiceIdle DEF C!Request, C!Service
  <2>5. QED BY <1>1, <2>2, <2>4, ServiceIdle, ServiceMoves DEF ServiceTypes
<1>6. QED BY <1>4, <1>5

LEMMA ServiceEnds ==
  ASSUME ServiceTypes, NEW q \in Requests, C!SaveRemaining(q) \/ C!Abort(q)
  PROVE  ServiceTypes'
<1>1. center' = center
  BY DEF C!SaveRemaining, C!Abort
<1>2. CASE C!SaveRemaining(q) /\ serviceReq[q].fresh
  <2>1. serviceReq[q] \in C!Request /\ Len(serviceReq[q].copy) <= MaxServices
    BY DEF ServiceTypes
  <2>2. Offers(services') /\ C!AnswerOutdating(q)
    BY <1>2, <2>1 DEF C!SaveRemaining, Offers, C!Request
  <2>3. QED BY <1>1, <2>2, ServiceOutdates
<1>3. CASE C!Abort(q) \/ ~serviceReq[q].fresh
  <2>1. services' = services /\ serviceReq' = [serviceReq EXCEPT ![q] = C!Idle]
    BY <1>3 DEF C!SaveRemaining, C!Abort, C!Answer
  <2>2. QED BY <1>1, <2>1, ServiceIdle, ServiceMoves DEF ServiceTypes
<1>4. QED BY <1>2, <1>3

LEMMA ServiceTypesNext ==
  ASSUME ServiceTypes, ServicesInv, C!Next \/ UNCHANGED servicesVars
  PROVE  ServiceTypes'
<1>1. CASE UNCHANGED servicesVars
  BY <1>1 DEF servicesVars, ServiceTypes, Offers
<1>2. CASE C!Create \/ C!Delete
  BY <1>2 DEF C!Create, C!Delete, C!Center, ServiceTypes, Offers
<1>3. QED
  BY <1>1, <1>2, UpdateTypes, AddTypes, SaveTypes, RemoveTypes, StartTypes, ServiceEnds DEF C!Next

LEMMA ServiceTyped == Spec => []C!TypeOK
<1>1. ServiceTypes => C!TypeOK
  BY DEF ServiceTypes, Offers, C!TypeOK
<1>2. Init => ServiceTypes /\ ServicesInv
  BY ServiceTypesInit, ServicesInit
<1>3. ServiceTypes /\ ServicesInv /\ [Next]_vars => (ServiceTypes /\ ServicesInv)'
  BY PartsStep, ServiceTypesNext, ServicesNext DEF ServicesStep
<1>4. QED BY <1>1, <1>2, <1>3, PTL DEF Spec
=============================================================================
