------------------------------- MODULE SignIn -------------------------------
(***************************************************************************)
(* One account as src/services/auth.service.ts and src/models/Account.ts   *)
(* keep it: registration, login with its lock after failed attempts, and   *)
(* the verification and reset links.  Sessions has what follows a login.   *)
(*                                                                         *)
(* A handler loads the account, awaits the hash of a password, and saves   *)
(* the fields it has changed.  Extending loginHistory changes the version  *)
(* of the document; a save that cuts a full loginHistory writes the whole  *)
(* array, and is refused if the version has changed.                       *)
(***************************************************************************)
EXTENDS Integers, FiniteSets

CONSTANTS
  Requests,     \* slots for concurrent requests
  LockAfter,    \* failed attempts that lock the account
  MaxFailures   \* bound on the stored failures

SignInConstants ==
  /\ LockAfter \in Nat \ {0} /\ MaxFailures \in Nat /\ MaxFailures >= LockAfter

VARIABLES
  account,  \* the Account document
  profile,  \* whether it has an OwnerProfile
  req,      \* the requests in progress
  guesses   \* history: logins answered as wrong since failures were last forgotten

vars == <<account, profile, req, guesses>>

-----------------------------------------------------------------------------
(* Types *)

Account ==
  [status : {"absent", "pending_verification", "active", "suspended", "deleted"},
   failedLoginAttempts : 0..MaxFailures,
   lockedUntil : {"never", "ahead", "past"},
   full : BOOLEAN,                            \* loginHistory holds its 20 entries
   verification : {"none", "live", "done"},   \* the link, or emailVerified
   reset : BOOLEAN]                           \* a link to reset the password

(* What a handler uses of the copy it has loaded. *)
Request ==
  [pc : {"idle", "register", "login", "reset", "verify"},
   right : BOOLEAN,      \* whether the password is right
   failures : 0..MaxFailures, full : BOOLEAN, lock : BOOLEAN, pending : BOOLEAN,
   fresh : BOOLEAN]      \* no save has changed the version since the load

(* Bound on the guesses counted. *)
MaxGuesses == (LockAfter * (LockAfter + 1)) \div 2 + 2

NoAccount ==
  [status |-> "absent", failedLoginAttempts |-> 0, lockedUntil |-> "never", full |-> FALSE,
   verification |-> "none", reset |-> FALSE]
Idle ==
  [pc |-> "idle", right |-> FALSE, failures |-> 0, full |-> FALSE, lock |-> FALSE,
   pending |-> FALSE, fresh |-> TRUE]

TypeOK ==
  /\ account \in Account
  /\ profile \in BOOLEAN
  /\ req \in [Requests -> Request]
  /\ guesses \in 0..MaxGuesses

-----------------------------------------------------------------------------
(* Helpers *)

Kept == account.status \notin {"absent", "deleted"}     \* isDeleted: false
Locked == account.lockedUntil = "ahead"

Pending == account.status = "pending_verification"

Start(q, r) == req[q].pc = "idle" /\ req' = [req EXCEPT ![q] = r]

Answer(q) == req' = [req EXCEPT ![q] = Idle]

(* A save changes the version of the document, which a login compares that *)
(* cuts a full loginHistory.                                               *)
Outdated(p) ==
  IF req[p].pc = "login" /\ req[p].full THEN [req[p] EXCEPT !.fresh = FALSE] ELSE req[p]
AnswerOutdating(q) == req' = [p \in Requests |-> IF p = q THEN Idle ELSE Outdated(p)]

(* loginHistory is extended in place until it is full. *)
FullAfter == {account.full, TRUE}
Refused(q) == req[q].full /\ ~req[q].fresh

Activated(status, pending) == IF pending THEN "active" ELSE status

-----------------------------------------------------------------------------
(* register(): the account, its profile and the first login entry *)

Register(q) ==
  /\ account.status = "absent"
  /\ account' = [NoAccount EXCEPT !.status = "pending_verification", !.verification = "live"]
  /\ Start(q, [Idle EXCEPT !.pc = "register"])
  /\ UNCHANGED <<profile, guesses>>

(* A profile that cannot be created leaves the account behind. *)
RegisterProfile(q) ==
  /\ req[q].pc = "register"
  /\ \/ profile' = TRUE /\ AnswerOutdating(q)
     \/ profile' = FALSE /\ Answer(q)
  /\ UNCHANGED <<account, guesses>>

-----------------------------------------------------------------------------
(* login() *)

(* The rejected ones have no effect: not verified, an organisation under  *)
(* review, or a second factor to ask for.  Nothing is recorded, and the    *)
(* failures of before remain.                                              *)
Login(q, right) ==
  /\ Kept /\ ~Locked /\ account.status # "suspended"
  /\ right => ~Pending
  /\ Start(q, [Idle EXCEPT !.pc = "login", !.right = right,
                          !.failures = account.failedLoginAttempts, !.full = account.full])
  /\ UNCHANGED <<account, profile, guesses>>

(* recordLogin(false): one more than the failures it has loaded. *)
WrongPassword(q, n) ==
  /\ req[q].pc = "login" /\ ~req[q].right
  /\ req[q].failures < MaxFailures /\ guesses < MaxGuesses
  /\ IF Refused(q)
     THEN Answer(q) /\ UNCHANGED <<account, guesses>>
     ELSE /\ guesses' = guesses + 1
          /\ AnswerOutdating(q)
          /\ \E full \in FullAfter :
               account' = [account EXCEPT
                 !.full = full,
                 !.failedLoginAttempts = req[q].failures + 1,
                 !.lockedUntil = IF req[q].failures + 1 >= n THEN "ahead" ELSE @]
  /\ UNCHANGED profile

(* Mutant of LoginFails: the account locks after one attempt more. *)
LockLate(q) == WrongPassword(q, LockAfter + 1)

LoginFails(q) == WrongPassword(q, LockAfter)

(* Mutant of LoginSucceeds: the save writes the loaded copy of the lock. *)
SaveWholeCopy(q) ==
  /\ req[q].pc = "login" /\ req[q].right
  /\ AnswerOutdating(q)
  /\ account' = [account EXCEPT !.failedLoginAttempts = 0,
                               !.lockedUntil = IF @ = "ahead" THEN "never" ELSE @]
  /\ guesses' = 0
  /\ UNCHANGED profile

(* recordLogin(true): failures are forgotten if it has loaded any, a lock  *)
(* is not.                                                                 *)
LoginSucceeds(q) ==
  /\ req[q].pc = "login" /\ req[q].right
  /\ IF Refused(q)
     THEN Answer(q) /\ UNCHANGED <<account, guesses>>
     ELSE /\ AnswerOutdating(q)
          /\ \E full \in FullAfter :
               account' = [account EXCEPT
                 !.full = full,
                 !.failedLoginAttempts = IF req[q].failures > 0 THEN 0 ELSE @]
          /\ guesses' = IF req[q].failures > 0 THEN 0 ELSE guesses
  /\ UNCHANGED profile

-----------------------------------------------------------------------------
(* Links *)

(* forgotPassword(), resendVerification(): a new link replaces the old. *)
ForgotPassword ==
  /\ Kept
  /\ account' = [account EXCEPT !.reset = TRUE]
  /\ UNCHANGED <<profile, req, guesses>>

ResendVerification ==
  /\ Kept /\ account.verification # "done"
  /\ account' = [account EXCEPT !.verification = "live"]
  /\ UNCHANGED <<profile, req, guesses>>

ResetPassword(q) ==
  /\ Kept /\ account.reset
  /\ Start(q, [Idle EXCEPT !.pc = "reset", !.pending = Pending,
                          !.failures = account.failedLoginAttempts,
                          !.lock = account.lockedUntil # "never"])
  /\ UNCHANGED <<account, profile, guesses>>

(* Only what differs from the copy is written: a lock it has not seen      *)
(* stays, a lock that has run out is removed.                              *)
SaveReset(q) ==
  /\ req[q].pc = "reset"
  /\ account' = [account EXCEPT
       !.reset = FALSE,
       !.failedLoginAttempts = IF req[q].failures > 0 THEN 0 ELSE @,
       !.lockedUntil = IF req[q].lock THEN "never" ELSE @,
       !.status = Activated(@, req[q].pending)]
  /\ guesses' = IF req[q].failures > 0 THEN 0 ELSE guesses
  /\ Answer(q)
  /\ UNCHANGED profile

VerifyEmail(q) ==
  /\ Kept /\ account.verification = "live"
  /\ Start(q, [Idle EXCEPT !.pc = "verify", !.pending = Pending])
  /\ UNCHANGED <<account, profile, guesses>>

SaveVerified(q) ==
  /\ req[q].pc = "verify"
  /\ account' = [account EXCEPT !.verification = "done", !.status = Activated(@, req[q].pending)]
  /\ Answer(q)
  /\ UNCHANGED <<profile, guesses>>

-----------------------------------------------------------------------------
(* account.service.ts: a status is written as given, or the account        *)
(* deleted.  login() looks for "suspended" only: "locked", or "deleted" as *)
(* a status alone, is as good as active.                                   *)
SetStatus ==
  /\ Kept
  /\ \E s \in {"active", "suspended", "deleted"} : account' = [account EXCEPT !.status = s]
  /\ UNCHANGED <<profile, req, guesses>>

(* Time passes: 30 minutes of a lock, an hour or a day of a link. *)
LockLapses ==
  /\ Locked
  /\ account' = [account EXCEPT !.lockedUntil = "past"]
  /\ guesses' = 0
  /\ UNCHANGED <<profile, req>>

LinkExpires ==
  /\ \/ account.reset /\ account' = [account EXCEPT !.reset = FALSE]
     \/ account.verification = "live" /\ account' = [account EXCEPT !.verification = "none"]
  /\ UNCHANGED <<profile, req, guesses>>

-----------------------------------------------------------------------------
Init ==
  /\ account = NoAccount /\ profile = FALSE
  /\ req = [q \in Requests |-> Idle]
  /\ guesses = 0

Next ==
  \/ \E q \in Requests :
       \/ Register(q) \/ RegisterProfile(q)
       \/ \E right \in BOOLEAN : Login(q, right)
       \/ LoginFails(q) \/ LoginSucceeds(q)
       \/ ResetPassword(q) \/ SaveReset(q) \/ VerifyEmail(q) \/ SaveVerified(q)
  \/ ForgotPassword \/ ResendVerification
  \/ SetStatus \/ LockLapses \/ LinkExpires

Spec == Init /\ [][Next]_vars

-----------------------------------------------------------------------------
(* Properties *)

(* However failed logins overlap, so that one count overwrites another,    *)
(* the account locks.  One at a time have L wrong passwords answered before*)
(* it does; two at a time at most L (L + 1) / 2, and the one in progress   *)
(* when it locks.                                                          *)
GuessesBounded ==
  2 * guesses <= LockAfter * (LockAfter + 1) + 2

(* A lock ends by time or by a reset of the password, whatever the other   *)
(* handlers save from copies loaded before it.                             *)
LockKept ==
  [][Locked /\ ~Locked' =>
       account'.lockedUntil = "past" \/ \E q \in Requests : req[q].pc = "reset" /\ req'[q].pc = "idle"]_vars
=============================================================================
