------------------------ MODULE NotificationDelivery ------------------------
(***************************************************************************)
(* The life of a Notification: created queued (to be mailed by a job of    *)
(* the "emails" queue) or already sent (in-app), mirrored to WhatsApp by a *)
(* job of its own, read, deleted and archived while the jobs run.          *)
(* notification.service.ts, notification.job.ts, whatsapp.job.ts and the   *)
(* methods of models/Notification.ts.                                      *)
(*                                                                         *)
(* The queue runs a job until it succeeds or has failed MaxAttempts times, *)
(* as JobDelivery states it.                                               *)
(***************************************************************************)
EXTENDS Integers, FiniteSets

CONSTANTS
  Notices,      \* notification documents of one recipient
  MaxAttempts,  \* maxAttempts of both workers
  LastAttempt,  \* the attempt the mail handler takes for its last
  MaxRetries,   \* bound of retryCount
  MayFail       \* whether a database call may fail

NotificationConstants ==
  /\ {MaxAttempts, LastAttempt, MaxRetries} \subseteq Nat \ {0}
  /\ MayFail \in BOOLEAN

VARIABLES
  note,      \* the Notification collection
  mailJob,   \* the notification_email job of each notice
  waJob,     \* its whatsapp_message job
  reader,    \* a request of the recipient that has loaded the notice
  optedOut,  \* whether the recipient has stopped WhatsApp messages
  mails,     \* history: mails the provider has accepted
  stumbled   \* history: notices whose mail was accepted but not recorded

history == <<mails, stumbled>>
vars == <<note, mailJob, waJob, reader, optedOut, history>>

-----------------------------------------------------------------------------
(* Types *)

Statuses == {"pending", "queued", "sent", "failed", "read"}

(* "hidden" is soft-deleted, archived or expired: no find returns it, but  *)
(* a save() of a copy loaded before still succeeds.  "purged" is deleted.  *)
Presence == {"absent", "live", "hidden", "purged"}

Notification == [at : Presence, status : Statuses, retries : 0..MaxRetries]

MailJob == [pc : {"none", "waiting", "send", "mark", "save", "caught", "giveup",
                  "refail", "throw", "done", "dead"},
            tries : 0..MaxAttempts, was : Statuses, retries : 0..MaxRetries]
WhatsAppJob == [pc : {"none", "waiting", "send", "sent", "refused", "throw", "done", "dead"},
                tries : 0..MaxAttempts]
Reader == [op : {"idle", "read", "click"}, was : Statuses]

NoNote   == [at |-> "absent", status |-> "pending", retries |-> 0]
NoMail   == [pc |-> "none", tries |-> 0, was |-> "pending", retries |-> 0]
NoMirror == [pc |-> "none", tries |-> 0]
NoReader == [op |-> "idle", was |-> "pending"]

TypeOK ==
  /\ note \in [Notices -> Notification]
  /\ mailJob \in [Notices -> MailJob]
  /\ waJob \in [Notices -> WhatsAppJob]
  /\ reader \in [Notices -> Reader]
  /\ optedOut \in BOOLEAN
  /\ mails \in [Notices -> 0..MaxAttempts]
  /\ stumbled \subseteq Notices

-----------------------------------------------------------------------------
(* Helpers *)

Live(n) == note[n].at = "live"
Mail(n, pc) == mailJob' = [mailJob EXCEPT ![n].pc = pc]
Mirror(n, pc) == waJob' = [waJob EXCEPT ![n].pc = pc]

(* save() of a loaded copy writes the paths that changed since the load. *)
Saved(n, was, status) == IF status = was THEN note[n].status ELSE status

-----------------------------------------------------------------------------
(* notificationService.create() and the enqueue() that follows it for a    *)
(* notice to be mailed; the mirror is queued on a best-effort basis.       *)
Create(n) ==
  /\ note[n].at = "absent"
  /\ \E status \in {"queued", "sent"}, mirrored \in {TRUE, ~MayFail} :
       /\ note' = [note EXCEPT ![n].at = "live", ![n].status = status]
       /\ IF status = "queued" THEN Mail(n, "waiting") ELSE UNCHANGED mailJob
       /\ IF mirrored THEN Mirror(n, "waiting") ELSE UNCHANGED waJob
  /\ UNCHANGED <<reader, optedOut, history>>

-----------------------------------------------------------------------------
(* notification_email *)

LoadToMail(n) ==
  /\ mailJob[n].pc = "waiting"
  /\ Mail(n, IF Live(n) THEN "send" ELSE "throw")
  /\ UNCHANGED <<note, waJob, reader, optedOut, history>>

(* Mutant of SendEmail: a refusal of the provider goes unnoticed. *)
SendUnchecked(n) ==
  /\ mailJob[n].pc = "send"
  /\ mails' \in {mails, [mails EXCEPT ![n] = @ + 1]}
  /\ Mail(n, "mark")
  /\ UNCHANGED <<note, waJob, reader, optedOut, stumbled>>

(* The recipient is looked up and the provider asked to send. *)
SendEmail(n) ==
  /\ mailJob[n].pc = "send"
  /\ \/ /\ mails' = [mails EXCEPT ![n] = @ + 1]
        /\ Mail(n, "mark")
     \/ Mail(n, "caught") /\ UNCHANGED mails
  /\ UNCHANGED <<note, waJob, reader, optedOut, stumbled>>

(* notificationService.markAsSent() loads the notice again. *)
LoadToMark(n) ==
  /\ mailJob[n].pc = "mark"
  /\ IF Live(n)
     THEN /\ mailJob' = [mailJob EXCEPT ![n].pc = "save", ![n].was = note[n].status]
          /\ UNCHANGED stumbled
     ELSE /\ Mail(n, "caught")
          /\ stumbled' = stumbled \cup {n}
  /\ UNCHANGED <<note, waJob, reader, optedOut, mails>>

SaveSent(n) ==
  /\ mailJob[n].pc = "save"
  /\ IF note[n].at = "purged"
     THEN /\ Mail(n, "caught")
          /\ stumbled' = stumbled \cup {n}
          /\ UNCHANGED note
     ELSE /\ note' = [note EXCEPT ![n].status = Saved(n, mailJob[n].was, "sent")]
          /\ Mail(n, "done")
          /\ UNCHANGED stumbled
  /\ UNCHANGED <<waJob, reader, optedOut, mails>>

(* A database call of the handler fails after the mail has gone out. *)
MarkFails(n) ==
  /\ MayFail
  /\ mailJob[n].pc \in {"mark", "save"}
  /\ Mail(n, "caught")
  /\ stumbled' = stumbled \cup {n}
  /\ UNCHANGED <<note, waJob, reader, optedOut, mails>>

(* attemptsMade + 1 >= maxAttempts, where job.options is never stored. *)
CatchMail(n) ==
  /\ mailJob[n].pc = "caught"
  /\ Mail(n, IF mailJob[n].tries + 1 >= LastAttempt THEN "giveup" ELSE "throw")
  /\ UNCHANGED <<note, waJob, reader, optedOut, history>>

LoadToFail(n) ==
  /\ mailJob[n].pc = "giveup"
  /\ IF Live(n)
     THEN mailJob' = [mailJob EXCEPT ![n].pc = "refail", ![n].was = note[n].status,
                                     ![n].retries = note[n].retries]
     ELSE Mail(n, "throw")
  /\ UNCHANGED <<note, waJob, reader, optedOut, history>>

(* markAsFailed(): back to "pending" while retryCount allows. *)
SaveFailed(n) ==
  /\ mailJob[n].pc = "refail"
  /\ LET retry == mailJob[n].retries < MaxRetries
     IN  note' = IF note[n].at = "purged" THEN note
                 ELSE [note EXCEPT
                   ![n].status = Saved(n, mailJob[n].was, IF retry THEN "pending" ELSE "failed"),
                   ![n].retries = IF retry THEN mailJob[n].retries + 1 ELSE @]
  /\ Mail(n, "throw")
  /\ UNCHANGED <<waJob, reader, optedOut, history>>

(* A failure to record the failure is logged and passed over. *)
FailFails(n) ==
  /\ MayFail
  /\ mailJob[n].pc \in {"giveup", "refail"}
  /\ Mail(n, "throw")
  /\ UNCHANGED <<note, waJob, reader, optedOut, history>>

(* Mutant of RetryMail: one attempt too many. *)
RetryOnceMore(n) ==
  /\ mailJob[n].pc = "throw"
  /\ LET tries == mailJob[n].tries + 1
     IN  mailJob' = [mailJob EXCEPT ![n] =
           [NoMail EXCEPT !.pc = IF tries <= MaxAttempts THEN "waiting" ELSE "dead", !.tries = tries]]
  /\ UNCHANGED <<note, waJob, reader, optedOut, history>>

(* Mutant of RetryMail: the attempt is not counted. *)
RetryUncounted(n) ==
  /\ mailJob[n].pc = "throw"
  /\ Mail(n, "waiting")
  /\ UNCHANGED <<note, waJob, reader, optedOut, history>>

(* The handler has thrown: the worker counts the attempt. *)
RetryMail(n) ==
  /\ mailJob[n].pc = "throw"
  /\ LET tries == mailJob[n].tries + 1
     IN  mailJob' = [mailJob EXCEPT ![n] =
           [NoMail EXCEPT !.pc = IF tries < MaxAttempts THEN "waiting" ELSE "dead", !.tries = tries]]
  /\ UNCHANGED <<note, waJob, reader, optedOut, history>>

-----------------------------------------------------------------------------
(* whatsapp_message *)

(* Without a notice, or after a STOP, there is nothing to deliver. *)
LoadToMirror(n) ==
  /\ waJob[n].pc = "waiting"
  /\ Mirror(n, IF Live(n) /\ ~optedOut THEN "send" ELSE "done")
  /\ UNCHANGED <<note, mailJob, reader, optedOut, history>>

SendWhatsApp(n) ==
  /\ waJob[n].pc = "send"
  /\ \E outcome \in {"sent", "refused"} : Mirror(n, outcome)
  /\ UNCHANGED <<note, mailJob, reader, optedOut, history>>

(* Mutant of SaveMirror: the whole copy is written back, with the status   *)
(* the notice had when the job loaded it.                                  *)
SaveWholeCopy(n) ==
  /\ waJob[n].pc \in {"sent", "refused"}
  /\ note' = [note EXCEPT ![n].status = "sent"]
  /\ Mirror(n, "done")
  /\ UNCHANGED <<mailJob, reader, optedOut, history>>

(* The save of the loaded copy leaves the status alone.  The outcome it    *)
(* puts in metadata.whatsapp is dropped, as the schema has no such path,   *)
(* and applyDeliveryStatus() finds no notice to update.                    *)
SaveMirror(n) ==
  /\ waJob[n].pc \in {"sent", "refused"}
  /\ IF note[n].at = "purged" THEN Mirror(n, "throw")
     ELSE IF waJob[n].pc = "sent" THEN Mirror(n, "done")
     ELSE \E permanent \in BOOLEAN : Mirror(n, IF permanent THEN "done" ELSE "throw")
  /\ UNCHANGED <<note, mailJob, reader, optedOut, history>>

RetryMirror(n) ==
  /\ waJob[n].pc = "throw"
  /\ LET tries == waJob[n].tries + 1
     IN  waJob' = [waJob EXCEPT ![n] =
           [pc |-> IF tries < MaxAttempts THEN "waiting" ELSE "dead", tries |-> tries]]
  /\ UNCHANGED <<note, mailJob, reader, optedOut, history>>

(* handleInboundMessage(): STOP or START. *)
HandleInbound ==
  /\ optedOut' = ~optedOut
  /\ UNCHANGED <<note, mailJob, waJob, reader, history>>

-----------------------------------------------------------------------------
(* Requests of the recipient, and retention *)

LoadToRead(n) ==
  /\ reader[n].op = "idle" /\ Live(n)
  /\ \E op \in {"read", "click"} : reader' = [reader EXCEPT ![n] = [op |-> op, was |-> note[n].status]]
  /\ UNCHANGED <<note, mailJob, waJob, optedOut, history>>

(* markAsRead() and markAsClicked(), which leaves the status alone. *)
SaveRead(n) ==
  /\ reader[n].op # "idle"
  /\ note' = IF reader[n].op = "read" /\ note[n].at # "purged"
             THEN [note EXCEPT ![n].status = Saved(n, reader[n].was, "read")]
             ELSE note
  /\ reader' = [reader EXCEPT ![n] = NoReader]
  /\ UNCHANGED <<mailJob, waJob, optedOut, history>>

MarkAllAsRead ==
  /\ note' = [n \in Notices |-> IF Live(n) THEN [note[n] EXCEPT !.status = "read"] ELSE note[n]]
  /\ UNCHANGED <<mailJob, waJob, reader, optedOut, history>>

(* delete(), deleteOldNotifications() and the expiry. *)
Hide(n) ==
  /\ Live(n)
  /\ note' = [note EXCEPT ![n].at = "hidden"]
  /\ UNCHANGED <<mailJob, waJob, reader, optedOut, history>>

(* deleteByRecipient(), for one status or for all; also the hidden ones. *)
DeleteByRecipient ==
  /\ \E S \in {Statuses} \cup {{s} : s \in Statuses} :
       note' = [n \in Notices |->
         IF note[n].at \in {"live", "hidden"} /\ note[n].status \in S
         THEN [NoNote EXCEPT !.at = "purged"] ELSE note[n]]
  /\ UNCHANGED <<mailJob, waJob, reader, optedOut, history>>

-----------------------------------------------------------------------------
Init ==
  /\ note = [n \in Notices |-> NoNote]
  /\ mailJob = [n \in Notices |-> NoMail]
  /\ waJob = [n \in Notices |-> NoMirror]
  /\ reader = [n \in Notices |-> NoReader]
  /\ optedOut \in BOOLEAN
  /\ mails = [n \in Notices |-> 0]
  /\ stumbled = {}

(* The steps of the queue's workers. *)
Work(n) ==
  \/ LoadToMail(n)
  \/ SendEmail(n)
  \/ LoadToMark(n)
  \/ SaveSent(n)
  \/ CatchMail(n)
  \/ LoadToFail(n)
  \/ SaveFailed(n)
  \/ RetryMail(n)

WorkMirror(n) ==
  \/ LoadToMirror(n)
  \/ SendWhatsApp(n)
  \/ SaveMirror(n)
  \/ RetryMirror(n)

Next ==
  \/ \E n \in Notices :
       \/ Create(n)
       \/ Work(n) \/ WorkMirror(n)
       \/ MarkFails(n) \/ FailFails(n)
       \/ LoadToRead(n) \/ SaveRead(n)
       \/ Hide(n)
  \/ HandleInbound
  \/ MarkAllAsRead
  \/ DeleteByRecipient

Spec == Init /\ [][Next]_vars
FairSpec == Spec /\ \A n \in Notices : WF_vars(Work(n)) /\ WF_vars(WorkMirror(n))

-----------------------------------------------------------------------------
(* Properties *)

(* A notice that was to be mailed says "sent" only when the provider has   *)
(* accepted the mail, and a second mail goes out only when recording the   *)
(* first failed.                                                           *)
SentMeansMailed ==
  \A n \in Notices :
    /\ mailJob[n].pc # "none" /\ note[n].status = "sent" => mails[n] > 0
    /\ mails[n] > 1 => n \in stumbled

(* A notice that is only shown in the app stays read once it is read,      *)
(* although the WhatsApp job saves a copy it loaded before.                *)
ReadIsKept ==
  [][\A n \in Notices :
       note[n].status = "read" /\ mailJob[n].pc = "none" /\ note'[n].at # "purged"
         => note'[n].status = "read"]_vars

(* Every notice that was to be mailed is mailed or given up in the end.    *)
MailSettles == \A n \in Notices : mailJob[n].pc = "waiting" ~> mailJob[n].pc \in {"done", "dead"}
=============================================================================
