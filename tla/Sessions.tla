------------------------------ MODULE Sessions ------------------------------
(***************************************************************************)
(* What follows a login: the tokens of one account, its second factor, and *)
(* its suspension, as src/services/auth.service.ts, src/utils/token.ts,    *)
(* src/middleware/auth.middleware.ts and src/controllers/                  *)
(* admin.controller.ts have them.                                          *)
(*                                                                         *)
(* A suspension is a status in MongoDB, which login() and refresh() read,  *)
(* and a marker in Redis, which authenticate() reads for every request; an *)
(* access token is signed and lives until it expires.                      *)
(***************************************************************************)
EXTENDS Integers, FiniteSets

CONSTANTS Requests    \* slots for concurrent requests

VARIABLES
  account,    \* status and second factor of the Account
  marker,     \* auth:suspended:<id> in Redis
  access,     \* live access tokens: issued "before" the last suspension was marked, or "after"
  refresh,    \* whether a refresh token is live and not revoked
  challenge,  \* whether a second-factor challenge is open
  req,        \* the requests in progress
  shut        \* history: suspendUser() has gone through, and nobody has changed the status since

vars == <<account, marker, access, refresh, challenge, req, shut>>

-----------------------------------------------------------------------------
(* Types *)

Account == [status : {"active", "suspended"}, mfaEnabled : BOOLEAN, mfaSecret : BOOLEAN]

Idle == [pc |-> "idle", mfaEnabled |-> FALSE, mfaSecret |-> FALSE, fresh |-> TRUE, alone |-> TRUE]

Request ==
  [pc : {"idle", "issue", "mark", "activate", "clear", "enable", "disable"},
   mfaEnabled : BOOLEAN, mfaSecret : BOOLEAN,   \* of the copy it has loaded
   fresh : BOOLEAN,     \* no save has changed the version since the load
   alone : BOOLEAN]     \* no other change of the status has overlapped

TypeOK ==
  /\ account \in Account
  /\ marker \in BOOLEAN /\ refresh \in BOOLEAN /\ challenge \in BOOLEAN /\ shut \in BOOLEAN
  /\ access \subseteq {"before", "after"}
  /\ req \in [Requests -> Request]

-----------------------------------------------------------------------------
(* Helpers *)

Start(q, r) == req[q].pc = "idle" /\ req' = [req EXCEPT ![q] = r]
Answer(q) == req' = [req EXCEPT ![q] = Idle]
To(q, pc) == req' = [req EXCEPT ![q].pc = pc]

Administering == {q \in Requests : req[q].pc \in {"mark", "activate", "clear"}}

(* The status changes, or is about to: who is at it too is not alone. *)
Disturb(r) == [q \in Requests |-> IF q \in Administering THEN [r[q] EXCEPT !.alone = FALSE] ELSE r[q]]

Outdated(r) == [q \in Requests |-> IF r[q].pc = "disable" THEN [r[q] EXCEPT !.fresh = FALSE] ELSE r[q]]

-----------------------------------------------------------------------------
(* Tokens *)

(* login() with the right password: a challenge, or tokens once the login  *)
(* is recorded; refresh() with a token not revoked.                        *)
Login(q) ==
  /\ account.status # "suspended"
  /\ IF account.mfaEnabled
     THEN challenge' = TRUE /\ UNCHANGED req
     ELSE /\ req[q].pc = "idle"
          /\ req' = Outdated([req EXCEPT ![q] = [Idle EXCEPT !.pc = "issue"]])
          /\ UNCHANGED challenge
  /\ UNCHANGED <<account, marker, access, refresh, shut>>

Refresh(q) ==
  /\ refresh /\ account.status # "suspended"
  /\ Start(q, [Idle EXCEPT !.pc = "issue"])
  /\ UNCHANGED <<account, marker, access, refresh, challenge, shut>>

VerifyMfa(q) ==
  /\ challenge /\ account.mfaEnabled /\ account.mfaSecret
  /\ Start(q, [Idle EXCEPT !.pc = "issue"])
  /\ UNCHANGED <<account, marker, access, refresh, challenge, shut>>

IssueTokens(q) ==
  /\ req[q].pc = "issue"
  /\ access' = access \cup {IF marker \/ shut THEN "after" ELSE "before"}
  /\ refresh' = TRUE
  /\ Answer(q)
  /\ UNCHANGED <<account, marker, challenge, shut>>

(* logout() revokes the tokens it is given; there may be others. *)
Logout ==
  /\ access' \in SUBSET access
  /\ refresh' \in {refresh, FALSE}
  /\ UNCHANGED <<account, marker, challenge, req, shut>>

(* Time passes: a challenge lives for 5 minutes, an access token for       *)
(* JWT_EXPIRES_IN.                                                         *)
Expires ==
  /\ access' \in SUBSET access
  /\ challenge' \in {challenge, FALSE}
  /\ UNCHANGED <<account, marker, refresh, req, shut>>

-----------------------------------------------------------------------------
(* Suspension *)

(* suspendUser(): the status, then the marker. *)
Suspend(q) ==
  /\ req[q].pc = "idle"
  /\ account' = [account EXCEPT !.status = "suspended"]
  /\ req' = [Disturb(req) EXCEPT ![q] = [Idle EXCEPT !.pc = "mark", !.alone = Administering = {}]]
  /\ shut' = FALSE
  /\ UNCHANGED <<marker, access, refresh, challenge>>

MarkSuspended(q) ==
  /\ req[q].pc = "mark"
  /\ marker' = TRUE
  /\ access' = IF access = {} THEN {} ELSE {"before"}
  /\ shut' = req[q].alone
  /\ Answer(q)
  /\ UNCHANGED <<account, refresh, challenge>>

(* activateUser(): only a suspension is lifted; the status, then the marker. *)
Activate(q) ==
  /\ account.status = "suspended"
  /\ req[q].pc = "idle"
  /\ req' = [Disturb(req) EXCEPT ![q] = [Idle EXCEPT !.pc = "activate"]]
  /\ shut' = FALSE
  /\ UNCHANGED <<account, marker, access, refresh, challenge>>

SaveActive(q) ==
  /\ req[q].pc = "activate"
  /\ account' = [account EXCEPT !.status = "active"]
  /\ req' = [Disturb(req) EXCEPT ![q].pc = "clear"]
  /\ shut' = FALSE
  /\ UNCHANGED <<marker, access, refresh, challenge>>

ClearSuspended(q) ==
  /\ req[q].pc = "clear"
  /\ marker' = FALSE
  /\ Answer(q)
  /\ UNCHANGED <<account, access, refresh, challenge, shut>>

(* PATCH /accounts/:id/status, PUT /accounts/:id: the status alone. *)
UpdateStatus ==
  /\ \E s \in {"active", "suspended"} : account' = [account EXCEPT !.status = s]
  /\ req' = Disturb(req)
  /\ shut' = FALSE
  /\ UNCHANGED <<marker, access, refresh, challenge>>

(* Mutant of MarkerExpires: the marker lives shorter than a token. *)
ExpiresEarly ==
  /\ marker' = FALSE
  /\ UNCHANGED <<account, access, refresh, challenge, req, shut>>

(* The marker lives for JWT_EXPIRES_IN: longer than any token from before. *)
MarkerExpires ==
  /\ marker /\ "before" \notin access
  /\ marker' = FALSE
  /\ UNCHANGED <<account, access, refresh, challenge, req, shut>>

(* A call rejects, or the process dies. *)
Abort(q) ==
  /\ req[q].pc # "idle"
  /\ Answer(q)
  /\ UNCHANGED <<account, marker, access, refresh, challenge, shut>>

-----------------------------------------------------------------------------
(* Second factor *)

SetupMfa ==
  /\ account' = [account EXCEPT !.mfaSecret = TRUE]
  /\ req' = Outdated(req)
  /\ UNCHANGED <<marker, access, refresh, challenge, shut>>

(* A code is checked against the secret that was loaded. *)
EnableMfa(q) ==
  /\ account.mfaSecret
  /\ Start(q, [Idle EXCEPT !.pc = "enable", !.mfaEnabled = account.mfaEnabled])
  /\ UNCHANGED <<account, marker, access, refresh, challenge, shut>>

SaveEnabled(q) ==
  /\ req[q].pc = "enable"
  /\ account' = [account EXCEPT !.mfaEnabled = @ \/ ~req[q].mfaEnabled]
  /\ Answer(q)
  /\ UNCHANGED <<marker, access, refresh, challenge, shut>>

DisableMfa(q) ==
  /\ Start(q, [Idle EXCEPT !.pc = "disable", !.mfaEnabled = account.mfaEnabled,
                          !.mfaSecret = account.mfaSecret])
  /\ UNCHANGED <<account, marker, access, refresh, challenge, shut>>

(* The backup codes it clears with a secret are a whole array, whose       *)
(* version is checked.                                                     *)
SaveDisabled(q) ==
  /\ req[q].pc = "disable"
  /\ IF req[q].mfaSecret /\ ~req[q].fresh
     THEN Answer(q) /\ UNCHANGED account
     ELSE /\ account' = [account EXCEPT !.mfaEnabled = @ /\ ~req[q].mfaEnabled,
                                        !.mfaSecret = @ /\ ~req[q].mfaSecret]
          /\ req' = [(IF req[q].mfaSecret THEN Outdated(req) ELSE req) EXCEPT ![q] = Idle]
  /\ UNCHANGED <<marker, access, refresh, challenge, shut>>

(* New codes are a whole array too: the save may be refused. *)
GenerateBackupCodes ==
  /\ account.mfaEnabled
  /\ req' \in {req, Outdated(req)}
  /\ UNCHANGED <<account, marker, access, refresh, challenge, shut>>

-----------------------------------------------------------------------------
Init ==
  /\ account = [status |-> "active", mfaEnabled |-> FALSE, mfaSecret |-> FALSE]
  /\ marker = FALSE /\ access = {} /\ refresh = FALSE /\ challenge = FALSE
  /\ req = [q \in Requests |-> Idle]
  /\ shut = FALSE

Next ==
  \/ \E q \in Requests :
       \/ Login(q) \/ Refresh(q) \/ VerifyMfa(q) \/ IssueTokens(q)
       \/ Suspend(q) \/ MarkSuspended(q)
       \/ Activate(q) \/ SaveActive(q) \/ ClearSuspended(q)
       \/ EnableMfa(q) \/ SaveEnabled(q) \/ DisableMfa(q) \/ SaveDisabled(q)
       \/ Abort(q)
  \/ UpdateStatus \/ SetupMfa \/ GenerateBackupCodes
  \/ Logout \/ Expires \/ MarkerExpires

Spec == Init /\ [][Next]_vars

-----------------------------------------------------------------------------
(* Properties *)

(* Once suspendUser() has gone through, alone, no token of before it is    *)
(* admitted: the marker is there as long as one lives ("a suspended user   *)
(* kept full access until their token expired").                           *)
SuspendedShutOut ==
  shut => account.status = "suspended" /\ (marker \/ "before" \notin access)
=============================================================================
