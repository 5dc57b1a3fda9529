----------------------------- MODULE MCNotices -----------------------------
(***************************************************************************)
(* Instances of NotificationDelivery and NoticeSweep for TLC.  What a      *)
(* sweep has queued is delivered as a Notification like any other, and the *)
(* two share no state, so a behaviour exercises one of them: their states  *)
(* add up instead of multiplying.                                          *)
(***************************************************************************)
EXTENDS Integers, FiniteSets

CONSTANTS Notices, MaxAttempts, LastAttempt, MaxRetries,
          Reminders, Subscriptions, Sweeps, Requests, MaxLeft, MaxNotices,
          MayFail

VARIABLES note, mailJob, waJob, reader, optedOut, mails, stumbled,
          doc, due, notices, queued, sweep, req, excused,
          part    \* what moves: "delivery", "reminders" or "subscriptions"

D == INSTANCE NotificationDelivery
S == INSTANCE NoticeSweep

ASSUME NoticesConstants == D!NotificationConstants /\ S!SweepConstants

deliveryVars == <<note, mailJob, waJob, reader, optedOut, mails, stumbled>>
sweepVars == <<doc, due, notices, queued, sweep, req, excused>>
vars == <<deliveryVars, sweepVars, part>>

Absent(Some) == \A s \in Some : doc[s].at = "absent"

(* One of several alike goes first: what is symmetric is checked once.     *)
First(Some) == CHOOSE s \in Some : TRUE
InOrder ==
  /\ \A p \in Sweeps \ {First(Sweeps)} : sweep[p].pc = "idle"
  /\ Absent({First(Reminders)}) => Absent(Reminders)

(* checkReminders() and checkExpiringSubscriptions() are jobs of their own. *)
Init ==
  /\ D!Init /\ S!Init
  /\ \/ part = "subscriptions"
     \/ part \in {"delivery", "reminders"} /\ Absent(Subscriptions)

Next ==
  \/ part = "delivery" /\ D!Next /\ UNCHANGED <<sweepVars, part>>
  \/ part = "reminders" /\ S!Next /\ InOrder' /\ UNCHANGED <<deliveryVars, part>>
  \/ part = "subscriptions" /\ S!Next /\ Absent(Reminders)' /\ UNCHANGED <<deliveryVars, part>>

(* Both queues' workers go on, as FairSpec of NotificationDelivery has it. *)
Spec ==
  /\ Init /\ [][Next]_vars
  /\ \A n \in Notices : WF_vars(part = "delivery" /\ D!Work(n) /\ UNCHANGED <<sweepVars, part>>)

(* The same with the schedule of every process firing again and again.     *)
FairSpec ==
  /\ Init /\ part = "reminders" /\ [][Next]_vars
  /\ \A p \in Sweeps :
       /\ WF_vars(S!Find(p) /\ UNCHANGED <<deliveryVars, part>>)
       /\ WF_vars(S!SweepStep(p) /\ UNCHANGED <<deliveryVars, part>>)

-----------------------------------------------------------------------------
(* Every variable of both parts holds a value of its type.                 *)
TypeOK == D!TypeOK /\ S!TypeOK /\ part \in {"delivery", "reminders", "subscriptions"}

(* A notice says "sent" only when its mail was accepted, and a second mail *)
(* goes out only when the first could not be recorded.                     *)
SentMeansMailed == D!SentMeansMailed

(* A notice shown only in the app stays read, whatever a job saves.        *)
ReadIsKept == D!ReadIsKept

(* A notice to be mailed is mailed or given up in the end.                 *)
MailSettles == D!MailSettles

(* One notice of one thing in 24 hours, but for overlap or failure.        *)
OneNoticeADay == S!OneNoticeADay

(* A sweep's save does not reopen what was closed since it loaded it.      *)
ClosedStaysClosed == S!ClosedStaysClosed

(* With the schedule running, a due reminder gets a mail (scheduler.ts).   *)
DueReminderIsMailed == S!DueReminderIsMailed
=============================================================================
