---------------------------- MODULE NoticeSweep ----------------------------
(***************************************************************************)
(* The scheduled sweeps that look for due reminders and for subscriptions  *)
(* about to renew, and raise a notice for each at most once in 24 hours    *)
(* (src/jobs/reminder.job.ts, src/jobs/subscription.job.ts), beside the    *)
(* requests that change a reminder (src/services/reminder.service.ts).     *)
(* Every server process runs its own schedule.                             *)
(***************************************************************************)
EXTENDS Integers, FiniteSets

CONSTANTS
  Reminders,      \* reminder documents
  Subscriptions,  \* subscription documents
  Sweeps,         \* processes that run the schedule
  Requests,       \* slots for concurrent requests
  MaxLeft,        \* bound on the occurrences a recurring reminder has left
  MaxNotices,     \* bound on the notices raised for one subject in 24 hours
  MayFail         \* whether a call may fail or a process die

Subjects == Reminders \cup Subscriptions

SweepConstants ==
  /\ Reminders \cap Subscriptions = {}
  /\ MaxLeft \in Nat /\ MaxNotices \in Nat \ {0}
  /\ MayFail \in BOOLEAN

VARIABLES
  doc,      \* the Reminder and Subscription collections
  due,      \* subjects inside their lead time (findExpiring() finds no other)
  notices,  \* notices raised for a subject in its current 24 hours
  queued,   \* how many of them have a mail job
  sweep,    \* the sweep each process is running
  req,      \* requests in progress
  excused   \* history: subjects that in these 24 hours two sweeps held at
            \* once, or one failed or died on

vars == <<doc, due, notices, queued, sweep, req, excused>>

-----------------------------------------------------------------------------
(* Types *)

(* A subscription that is trialing or active counts as pending. *)
Statuses == {"pending", "acknowledged", "snoozed", "completed", "cancelled"}

Subject == [at : {"absent", "live", "deleted"}, status : Statuses, left : 0..MaxLeft,
            mark : {"never", "recent", "old"}]
Sweep   == [pc : {"idle", "next", "enqueue", "mark"}, found : SUBSET Subjects, on : SUBSET Subjects]
Request == [pc : {"idle", "save", "next"}, on : SUBSET Reminders,
            to : Statuses, changes : BOOLEAN, left : 0..MaxLeft]

NoDoc   == [at |-> "absent", status |-> "pending", left |-> 0, mark |-> "never"]
Resting == [pc |-> "idle", found |-> {}, on |-> {}]
Idle    == [pc |-> "idle", on |-> {}, to |-> "pending", changes |-> FALSE, left |-> 0]

TypeOK ==
  /\ doc \in [Subjects -> Subject]
  /\ due \subseteq Subjects
  /\ notices \in [Subjects -> 0..MaxNotices]
  /\ queued \in [Subjects -> 0..MaxNotices]
  /\ sweep \in [Sweeps -> Sweep]
  /\ req \in [Requests -> Request]
  /\ excused \subseteq Subjects

-----------------------------------------------------------------------------
(* Notification types *)

(* The enum of Notification.type: any other is refused on save(). *)
NotificationTypes ==
  {"service_reminder", "appointment_reminder", "appointment_confirmation",
   "appointment_cancelled", "invoice_generated", "payment_received", "payment_overdue",
   "vehicle_authorized", "vehicle_revoked", "invitation_received", "invitation_accepted",
   "service_completed", "review_request", "welcome", "password_reset",
   "email_verification", "phone_verification", "account_suspended", "account_activated",
   "subscription_expiring", "subscription_expired", "subscription_renewed",
   "subscription_upgraded", "subscription_downgraded", "promotion", "system_alert",
   "maintenance_update", "security_alert"}

NoticeType(s) == IF s \in Reminders THEN "reminder_due" ELSE "subscription_expiring"

-----------------------------------------------------------------------------
(* Helpers *)

Live(s) == doc[s].at = "live"
HeldBy(p) == sweep[p].found \cup sweep[p].on
Goto(p, pc) == sweep' = [sweep EXCEPT ![p].pc = pc]

(* The loop goes on with the next subject. *)
Proceed(p) == sweep' = [sweep EXCEPT ![p].pc = "next", ![p].on = {}]

(* The catch block of the loop: the subject is left for a later sweep. *)
GiveUp(p) ==
  /\ Proceed(p)
  /\ excused' = excused \cup sweep[p].on
  /\ UNCHANGED <<doc, due, notices, queued, req>>

-----------------------------------------------------------------------------
(* checkReminders(), checkExpiringSubscriptions() *)

(* Mutant of Find: the mark of the last notice is not looked at. *)
FindAll(p) ==
  /\ sweep[p].pc = "idle"
  /\ LET found == {s \in Subjects : Live(s) /\ doc[s].status = "pending"}
     IN  /\ found # {}
         /\ sweep' = [sweep EXCEPT ![p] = [pc |-> "next", found |-> found, on |-> {}]]
         /\ excused' = excused \cup (found \cap UNION {HeldBy(o) : o \in Sweeps})
  /\ UNCHANGED <<doc, due, notices, queued, req>>

(* What a sweep notifies is decided by what it has loaded here. *)
Find(p) ==
  /\ sweep[p].pc = "idle"
  /\ LET found == {s \in Subjects : Live(s) /\ doc[s].status = "pending" /\ doc[s].mark # "recent"}
     IN  /\ found # {}
         /\ sweep' = [sweep EXCEPT ![p] = [pc |-> "next", found |-> found, on |-> {}]]
         /\ excused' = excused \cup (found \cap UNION {HeldBy(o) : o \in Sweeps})
  /\ UNCHANGED <<doc, due, notices, queued, req>>

Finish(p) ==
  /\ sweep[p].pc = "next" /\ sweep[p].found = {}
  /\ sweep' = [sweep EXCEPT ![p] = Resting]
  /\ UNCHANGED <<doc, due, notices, queued, req, excused>>

(* Not inside the lead time: the loop passes over it. *)
Skip(p, s) ==
  /\ sweep[p].pc = "next" /\ s \in sweep[p].found \ due
  /\ sweep' = [sweep EXCEPT ![p].found = @ \ {s}]
  /\ UNCHANGED <<doc, due, notices, queued, req, excused>>

(* notificationService.create(), which validates the type. *)
CreateNotice(p, s) ==
  /\ sweep[p].pc = "next" /\ s \in sweep[p].found \cap due
  /\ IF NoticeType(s) \in NotificationTypes
     THEN /\ notices[s] < MaxNotices
          /\ notices' = [notices EXCEPT ![s] = @ + 1]
          /\ sweep' = [sweep EXCEPT ![p] = [pc |-> "enqueue", found |-> @.found \ {s}, on |-> {s}]]
     ELSE /\ sweep' = [sweep EXCEPT ![p].found = @ \ {s}]
          /\ UNCHANGED notices
  /\ UNCHANGED <<doc, due, queued, req, excused>>

Enqueue(p) ==
  /\ sweep[p].pc = "enqueue"
  /\ queued' = [s \in Subjects |-> IF s \in sweep[p].on THEN queued[s] + 1 ELSE queued[s]]
  /\ Goto(p, "mark")
  /\ UNCHANGED <<doc, due, notices, req, excused>>

(* Mutant of SaveMark: the whole copy is written back. *)
SaveWholeCopy(p) ==
  /\ sweep[p].pc = "mark"
  /\ doc' = [s \in Subjects |->
       IF s \in sweep[p].on THEN [doc[s] EXCEPT !.mark = "recent", !.status = "pending"] ELSE doc[s]]
  /\ Proceed(p)
  /\ UNCHANGED <<due, notices, queued, req, excused>>

(* lastNotifiedAt, lastRenewalReminderAt: the only path that has changed. *)
SaveMark(p) ==
  /\ sweep[p].pc = "mark"
  /\ doc' = [s \in Subjects |-> IF s \in sweep[p].on THEN [doc[s] EXCEPT !.mark = "recent"] ELSE doc[s]]
  /\ Proceed(p)
  /\ UNCHANGED <<due, notices, queued, req, excused>>

(* A call of the loop body throws after the notice was created. *)
SweepFails(p) ==
  /\ MayFail /\ sweep[p].pc \in {"enqueue", "mark"}
  /\ GiveUp(p)

(* The process dies; its schedule starts afresh. *)
SweepDies(p) ==
  /\ MayFail /\ sweep[p].pc # "idle"
  /\ sweep' = [sweep EXCEPT ![p] = Resting]
  /\ excused' = excused \cup sweep[p].on
  /\ UNCHANGED <<doc, due, notices, queued, req>>

(* 24 hours have passed since the last notice; a sweep takes minutes. *)
DayPasses(s) ==
  /\ \A p \in Sweeps : s \notin HeldBy(p)
  /\ doc[s].mark = "recent"
  /\ doc' = [doc EXCEPT ![s].mark = "old"]
  /\ notices' = [notices EXCEPT ![s] = 0]
  /\ queued' = [queued EXCEPT ![s] = 0]
  /\ excused' = excused \ {s}
  /\ UNCHANGED <<due, sweep, req>>

BecomeDue(r) ==
  /\ Live(r) /\ r \notin due
  /\ due' = due \cup {r}
  /\ UNCHANGED <<doc, notices, queued, sweep, req, excused>>

(* The subscription is cancelled, expires or is renewed out of sight. *)
CloseSubscription(s) ==
  /\ s \in Subscriptions /\ doc[s].status = "pending"
  /\ doc' = [doc EXCEPT ![s].status = "cancelled"]
  /\ UNCHANGED <<due, notices, queued, sweep, req, excused>>

-----------------------------------------------------------------------------
(* ReminderService *)

Create(r, left) ==
  /\ doc[r].at = "absent"
  /\ doc' = [doc EXCEPT ![r] = [NoDoc EXCEPT !.at = "live", !.left = left]]
  /\ UNCHANGED <<due, notices, queued, sweep, req, excused>>

(* update(): a new due date or a new recurrence. *)
Update(r) ==
  /\ Live(r)
  /\ \E left \in 0..MaxLeft : doc' = [doc EXCEPT ![r].left = left]
  /\ due' \in {due, due \ {r}}
  /\ UNCHANGED <<notices, queued, sweep, req, excused>>

(* No query finds it again: when it was due no longer matters. *)
Delete(r) ==
  /\ Live(r)
  /\ doc' = [doc EXCEPT ![r].at = "deleted", ![r].left = 0]
  /\ due' = due \ {r}
  /\ UNCHANGED <<notices, queued, sweep, req, excused>>

(* acknowledge(), snooze(), complete(), cancel(): whatever the status is. *)
LoadReminder(q, r, to) ==
  /\ req[q].pc = "idle" /\ Live(r)
  /\ req' = [req EXCEPT ![q] =
       [pc |-> "save", on |-> {r}, to |-> to, changes |-> doc[r].status # to,
        left |-> IF to = "completed" THEN doc[r].left ELSE 0]]
  /\ UNCHANGED <<doc, due, notices, queued, sweep, excused>>

SaveReminder(q) ==
  /\ req[q].pc = "save"
  /\ doc' = [s \in Subjects |->
       IF s \in req[q].on /\ req[q].changes THEN [doc[s] EXCEPT !.status = req[q].to] ELSE doc[s]]
  /\ req' = [req EXCEPT ![q] = IF req[q].to = "completed" THEN [@ EXCEPT !.pc = "next"] ELSE Idle]
  /\ UNCHANGED <<due, notices, queued, sweep, excused>>

(* scheduleNextOccurrence(): from the copy, up to the end date. *)
ScheduleNext(q) ==
  /\ req[q].pc = "next"
  /\ IF req[q].left = 0 THEN UNCHANGED doc
     ELSE \E r \in Reminders :
            /\ doc[r].at = "absent"
            /\ doc' = [doc EXCEPT ![r] = [NoDoc EXCEPT !.at = "live", !.left = req[q].left - 1]]
  /\ req' = [req EXCEPT ![q] = Idle]
  /\ UNCHANGED <<due, notices, queued, sweep, excused>>

RequestDies(q) ==
  /\ MayFail /\ req[q].pc # "idle"
  /\ req' = [req EXCEPT ![q] = Idle]
  /\ UNCHANGED <<doc, due, notices, queued, sweep, excused>>

(* bulkAcknowledge(), bulkCancel() *)
Bulk(S, to) ==
  /\ doc' = [s \in Subjects |-> IF s \in S /\ Live(s) THEN [doc[s] EXCEPT !.status = to] ELSE doc[s]]
  /\ UNCHANGED <<due, notices, queued, sweep, req, excused>>

-----------------------------------------------------------------------------
Init ==
  /\ \E S \in SUBSET Subscriptions :
       doc = [s \in Subjects |-> IF s \in S THEN [NoDoc EXCEPT !.at = "live"] ELSE NoDoc]
  /\ due = Subscriptions
  /\ notices = [s \in Subjects |-> 0]
  /\ queued = [s \in Subjects |-> 0]
  /\ sweep = [p \in Sweeps |-> Resting]
  /\ req = [q \in Requests |-> Idle]
  /\ excused = {}

SweepStep(p) ==
  \/ Finish(p)
  \/ \E s \in Subjects : Skip(p, s) \/ CreateNotice(p, s)
  \/ Enqueue(p)
  \/ SaveMark(p)

Next ==
  \/ \E p \in Sweeps : Find(p) \/ SweepStep(p) \/ SweepFails(p) \/ SweepDies(p)
  \/ \E s \in Subjects : DayPasses(s) \/ CloseSubscription(s)
  \/ \E r \in Reminders :
       \/ \E left \in 0..MaxLeft : Create(r, left)
       \/ BecomeDue(r) \/ Update(r) \/ Delete(r)
       \/ \E q \in Requests, to \in Statuses \ {"pending"} : LoadReminder(q, r, to)
  \/ \E q \in Requests : SaveReminder(q) \/ ScheduleNext(q) \/ RequestDies(q)
  \/ \E S \in SUBSET Reminders, to \in {"acknowledged", "cancelled"} : Bulk(S, to)

Spec == Init /\ [][Next]_vars

(* The schedule fires again and again, and a sweep goes on. *)
FairSpec == Spec /\ \A p \in Sweeps : WF_vars(Find(p)) /\ WF_vars(SweepStep(p))

-----------------------------------------------------------------------------
(* Properties *)

(* Nobody is notified twice of one thing in 24 hours, also when a sweep is *)
(* slow, unless two sweeps held it at once or one failed half-way.         *)
OneNoticeADay ==
  \A s \in Subjects : notices[s] > 1 => s \in excused

(* A sweep works on documents it loaded earlier and saves them; what was   *)
(* completed or cancelled in the meantime does not become pending again.   *)
ClosedStaysClosed ==
  [][\A s \in Subjects :
       doc[s].status \in {"completed", "cancelled"} => doc'[s].status # "pending"]_vars

(* "without this, reminders/notifications are written but never delivered" *)
(* (scheduler.ts): with the schedule running, a due reminder gets a mail.  *)
DueReminderIsMailed ==
  \A r \in Reminders :
    Live(r) /\ r \in due /\ doc[r].status = "pending"
      ~> \/ queued[r] > 0
         \/ ~(Live(r) /\ r \in due /\ doc[r].status = "pending")
=============================================================================
