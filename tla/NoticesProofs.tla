---------------------------- MODULE NoticesProofs ----------------------------
(* Proofs about notices for every set of notices, reminders, subscriptions, *)
(* server processes and concurrent requests, with failures and deaths: what *)
(* NotificationDelivery delivers and what NoticeSweep raises.               *)
EXTENDS MCNotices, FiniteSetTheorems, TLAPS

(* What is known of the mail job of n beyond its type: an attempt sends at *)
(* most one mail, and one that sent a mail either records it or is known   *)
(* to have failed at that.                                                 *)
MailShape(n) ==
  /\ mailJob[n].pc = "none" => mailJob[n].tries = 0 /\ mails[n] = 0
  /\ mailJob[n].pc \notin {"none", "dead"} => mailJob[n].tries < MaxAttempts
  /\ mailJob[n].pc \in {"none", "waiting", "send", "dead"} => mails[n] <= mailJob[n].tries
  /\ mails[n] <= mailJob[n].tries + 1
  /\ mailJob[n].pc \in {"mark", "save"} => mails[n] > 0
  /\ mailJob[n].pc \notin {"mark", "save", "done"} /\ mails[n] > 0 => n \in stumbled
  /\ mails[n] > 1 => n \in stumbled

NoteShape(n) ==
  /\ mailJob[n].pc # "none" /\ note[n].status = "sent" => mails[n] > 0
  /\ note[n].at = "absent" =>
       /\ note[n].status = "pending" /\ reader[n].op = "idle"
       /\ mailJob[n].pc = "none" /\ waJob[n].pc = "none"

MirrorShape(n) ==
  /\ waJob[n].pc = "none" => waJob[n].tries = 0
  /\ waJob[n].pc \notin {"none", "dead"} => waJob[n].tries < MaxAttempts

DeliveryInv ==
  /\ D!TypeOK
  /\ \A n \in Notices : MailShape(n) /\ NoteShape(n) /\ MirrorShape(n)

LEMMA Bounds == {MaxAttempts, LastAttempt, MaxRetries} \subseteq Nat \ {0} /\ MayFail \in BOOLEAN
  BY NoticesConstants DEF D!NotificationConstants

LEMMA InitDelivery == D!Init => DeliveryInv
<1> SUFFICES ASSUME D!Init PROVE DeliveryInv
  OBVIOUS
<1>1. D!TypeOK
  BY Bounds DEF D!Init, D!TypeOK, D!NoNote, D!NoMail, D!NoMirror, D!NoReader, D!Notification,
                D!MailJob, D!WhatsAppJob, D!Reader, D!Presence, D!Statuses
<1>2. \A n \in Notices : MailShape(n) /\ NoteShape(n) /\ MirrorShape(n)
  BY DEF D!Init, D!NoNote, D!NoMail, D!NoMirror, D!NoReader, MailShape, NoteShape, MirrorShape
<1>3. QED BY <1>1, <1>2 DEF DeliveryInv

(* A step of the mail job of one notice, which may write that notice. *)
LEMMA MailStep ==
  ASSUME DeliveryInv, NEW n \in Notices,
         mailJob' \in [Notices -> D!MailJob], note' \in [Notices -> D!Notification],
         mails' \in [Notices -> 0..MaxAttempts], stumbled' \subseteq Notices,
         stumbled \subseteq stumbled',
         \A k \in Notices \ {n} :
           mailJob'[k] = mailJob[k] /\ mails'[k] = mails[k] /\ note'[k] = note[k],
         MailShape(n)', NoteShape(n)', UNCHANGED <<waJob, reader, optedOut>>
  PROVE  DeliveryInv'
<1>1. D!TypeOK'
  BY DEF DeliveryInv, D!TypeOK
<1>2. ASSUME NEW k \in Notices PROVE MailShape(k)' /\ NoteShape(k)' /\ MirrorShape(k)'
  <2>1. MailShape(k) /\ NoteShape(k) /\ MirrorShape(k)
    BY DEF DeliveryInv
  <2>2. CASE k = n
    BY <2>1, <2>2 DEF MirrorShape
  <2>3. CASE k # n
    BY <2>1, <2>3 DEF MailShape, NoteShape, MirrorShape
  <2>4. QED BY <2>2, <2>3
<1>3. QED BY <1>1, <1>2 DEF DeliveryInv

(* A step that changes one notice, but not the jobs or the mails. *)
LEMMA NoteStep ==
  ASSUME DeliveryInv, note' \in [Notices -> D!Notification], reader' \in [Notices -> D!Reader],
         optedOut' \in BOOLEAN, UNCHANGED <<mailJob, waJob, mails, stumbled>>,
         \A n \in Notices :
           /\ note[n].at = "absent" => note'[n] = note[n] /\ reader'[n] = reader[n]
           /\ note[n].at # "absent" => note'[n].at # "absent"
           /\ note'[n].status # "sent" \/ note'[n].status = note[n].status
  PROVE  DeliveryInv'
<1>1. D!TypeOK'
  BY DEF DeliveryInv, D!TypeOK
<1>2. ASSUME NEW k \in Notices PROVE MailShape(k)' /\ NoteShape(k)' /\ MirrorShape(k)'
  <2>1. MailShape(k) /\ NoteShape(k) /\ MirrorShape(k)
    BY DEF DeliveryInv
  <2>2. MailShape(k)' /\ MirrorShape(k)'
    BY <2>1 DEF MailShape, MirrorShape
  <2>3. NoteShape(k)'
    BY <2>1 DEF NoteShape
  <2>4. QED BY <2>2, <2>3
<1>3. QED BY <1>1, <1>2 DEF DeliveryInv

LEMMA CreateDelivery ==
  ASSUME DeliveryInv, NEW n \in Notices, D!Create(n)
  PROVE  DeliveryInv'
<1>1. PICK status \in {"queued", "sent"}, mirrored \in BOOLEAN :
        /\ note' = [note EXCEPT ![n].at = "live", ![n].status = status]
        /\ IF status = "queued" THEN D!Mail(n, "waiting") ELSE UNCHANGED mailJob
        /\ IF mirrored THEN D!Mirror(n, "waiting") ELSE UNCHANGED waJob
  BY Bounds DEF D!Create
<1>2. /\ note[n].at = "absent" /\ UNCHANGED <<reader, optedOut, mails, stumbled>>
      /\ note \in [Notices -> D!Notification] /\ mailJob \in [Notices -> D!MailJob]
      /\ waJob \in [Notices -> D!WhatsAppJob]
      /\ MailShape(n) /\ NoteShape(n) /\ MirrorShape(n)
  BY DEF D!Create, D!history, DeliveryInv, D!TypeOK
<1>3. /\ mailJob' \in [Notices -> D!MailJob]
      /\ mailJob'[n].pc = IF status = "queued" THEN "waiting" ELSE "none"
      /\ mailJob'[n].tries = mailJob[n].tries
      /\ \A k \in Notices \ {n} : mailJob'[k] = mailJob[k]
  BY <1>1, <1>2 DEF D!Mail, D!MailJob, NoteShape
<1>4. /\ waJob' \in [Notices -> D!WhatsAppJob]
      /\ waJob'[n].pc \in {"waiting", "none"}
      /\ waJob'[n].tries = waJob[n].tries
      /\ \A k \in Notices \ {n} : waJob'[k] = waJob[k]
  BY <1>1, <1>2 DEF D!Mirror, D!WhatsAppJob, NoteShape
<1>5. /\ note' \in [Notices -> D!Notification]
      /\ note'[n].at = "live" /\ note'[n].status = status
      /\ \A k \in Notices \ {n} : note'[k] = note[k]
  BY <1>1, <1>2 DEF D!Notification, D!Presence, D!Statuses
<1>6. D!TypeOK'
  BY <1>2, <1>3, <1>4, <1>5 DEF DeliveryInv, D!TypeOK
<1>7. ASSUME NEW k \in Notices PROVE MailShape(k)' /\ NoteShape(k)' /\ MirrorShape(k)'
  <2>1. CASE k = n
    <3>1. /\ mailJob'[n].tries = 0 /\ waJob'[n].tries = 0 /\ mails'[n] = 0
          /\ MaxAttempts > 0 /\ MaxAttempts \in Nat
      BY <1>2, <1>3, <1>4, Bounds DEF MailShape, NoteShape, MirrorShape
    <3>2. QED BY <1>3, <1>4, <1>5, <2>1, <3>1 DEF MailShape, NoteShape, MirrorShape
  <2>2. CASE k # n
    <3>1. MailShape(k) /\ NoteShape(k) /\ MirrorShape(k)
      BY DEF DeliveryInv
    <3>2. QED BY <1>2, <1>3, <1>4, <1>5, <2>2, <3>1 DEF MailShape, NoteShape, MirrorShape
  <2>3. QED BY <2>1, <2>2
<1>8. QED BY <1>6, <1>7 DEF DeliveryInv

(* What holds of the mail job a step starts from, field by field. *)
LEMMA MailNow ==
  ASSUME DeliveryInv, NEW n \in Notices
  PROVE  /\ note \in [Notices -> D!Notification] /\ mailJob \in [Notices -> D!MailJob]
         /\ mails \in [Notices -> 0..MaxAttempts] /\ stumbled \subseteq Notices
         /\ mailJob[n].tries \in 0..MaxAttempts /\ mails[n] \in 0..MaxAttempts
         /\ MailShape(n) /\ NoteShape(n)
BY DEF DeliveryInv, D!TypeOK, D!MailJob

(* The same for a step that does not write the notice.                     *)
LEMMA MailMoves ==
  ASSUME DeliveryInv, NEW n \in Notices, mailJob[n].pc # "none",
         mailJob' \in [Notices -> D!MailJob],
         mails' \in [Notices -> 0..MaxAttempts], stumbled' \subseteq Notices,
         stumbled \subseteq stumbled',
         \A k \in Notices \ {n} : mailJob'[k] = mailJob[k] /\ mails'[k] = mails[k],
         MailShape(n)', mails[n] <= mails'[n], UNCHANGED <<note, waJob, reader, optedOut>>
  PROVE  DeliveryInv'
<1>1. note \in [Notices -> D!Notification] /\ NoteShape(n) /\ mails[n] \in 0..MaxAttempts
  BY MailNow
<1>2. mails[n] \in Nat /\ mails'[n] \in Nat
  BY <1>1, Bounds
<1>3. NoteShape(n)'
  BY <1>1, <1>2 DEF NoteShape
<1>4. note' \in [Notices -> D!Notification] /\ \A k \in Notices \ {n} : note'[k] = note[k]
  BY <1>1
<1>5. QED BY <1>3, <1>4, MailStep

(* What Mail(n, pc) does, field by field. *)
LEMMA MailGoes ==
  ASSUME DeliveryInv, NEW n \in Notices, NEW pc, D!Mail(n, pc),
         pc \in {"waiting", "send", "mark", "save", "caught", "giveup", "refail", "throw", "done"}
  PROVE  /\ mailJob' \in [Notices -> D!MailJob]
         /\ mailJob'[n].pc = pc /\ mailJob'[n].tries = mailJob[n].tries
         /\ \A k \in Notices \ {n} : mailJob'[k] = mailJob[k]
BY MailNow DEF D!Mail, D!MailJob

LEMMA LoadMail ==
  ASSUME DeliveryInv, NEW n \in Notices, D!LoadToMail(n) \/ D!CatchMail(n) \/ D!FailFails(n)
  PROVE  DeliveryInv'
<1>1. PICK pc \in {"send", "throw", "giveup"} : D!Mail(n, pc)
  BY DEF D!LoadToMail, D!CatchMail, D!FailFails
<1>2. /\ UNCHANGED <<note, waJob, reader, optedOut, mails, stumbled>>
      /\ mailJob[n].pc \in {"waiting", "caught", "giveup", "refail"}
      /\ pc = "send" => mailJob[n].pc = "waiting"
  <2>1. CASE D!LoadToMail(n)
    BY <2>1 DEF D!LoadToMail, D!history
  <2>2. CASE D!CatchMail(n)
    <3>1. /\ UNCHANGED <<note, waJob, reader, optedOut, mails, stumbled>>
          /\ mailJob[n].pc = "caught"
      BY <2>2 DEF D!CatchMail, D!history
    <3>2. mailJob'[n].pc \in {"giveup", "throw"} /\ mailJob'[n].pc = pc
      BY <1>1, <2>2, MailNow DEF D!CatchMail, D!Mail, D!MailJob
    <3>3. QED BY <3>1, <3>2
  <2>3. CASE D!FailFails(n)
    <3>1. /\ UNCHANGED <<note, waJob, reader, optedOut, mails, stumbled>>
          /\ mailJob[n].pc \in {"giveup", "refail"}
      BY <2>3 DEF D!FailFails, D!history
    <3>2. mailJob'[n].pc = "throw" /\ mailJob'[n].pc = pc
      BY <1>1, <2>3, MailNow DEF D!FailFails, D!Mail, D!MailJob
    <3>3. QED BY <3>1, <3>2
  <2>4. QED BY <2>1, <2>2, <2>3
<1>3. /\ mailJob \in [Notices -> D!MailJob] /\ mails \in [Notices -> 0..MaxAttempts]
      /\ MailShape(n) /\ mailJob[n].tries \in Nat /\ mails[n] \in Nat
      /\ stumbled \subseteq Notices
  BY MailNow, Bounds
<1>4. /\ mailJob' \in [Notices -> D!MailJob]
      /\ mailJob'[n].pc = pc /\ mailJob'[n].tries = mailJob[n].tries
      /\ \A k \in Notices \ {n} : mailJob'[k] = mailJob[k]
  BY <1>1, MailGoes
<1>5. MailShape(n)'
  BY <1>2, <1>3, <1>4 DEF MailShape
<1>6. mails[n] <= mails'[n]
  BY <1>2, <1>3
<1>7. QED BY <1>2, <1>3, <1>4, <1>5, <1>6, MailMoves

LEMMA SendMail ==
  ASSUME DeliveryInv, NEW n \in Notices, D!SendEmail(n)
  PROVE  DeliveryInv'
<1>1. /\ mailJob[n].pc = "send" /\ UNCHANGED <<note, waJob, reader, optedOut, stumbled>>
      /\ mailJob \in [Notices -> D!MailJob] /\ mails \in [Notices -> 0..MaxAttempts]
      /\ MailShape(n) /\ mailJob[n].tries \in Nat /\ mails[n] \in Nat
      /\ MaxAttempts \in Nat /\ stumbled \subseteq Notices
  BY MailNow, Bounds DEF D!SendEmail
<1>2. /\ mails[n] <= mailJob[n].tries /\ mailJob[n].tries < MaxAttempts
      /\ mails[n] > 0 => n \in stumbled
  BY <1>1 DEF MailShape
<1>3. PICK pc \in {"mark", "caught"} :
        /\ D!Mail(n, pc)
        /\ pc = "mark" => mails' = [mails EXCEPT ![n] = @ + 1]
        /\ pc = "caught" => mails' = mails
  BY DEF D!SendEmail
<1>4. /\ mailJob' \in [Notices -> D!MailJob]
      /\ mailJob'[n].pc = pc /\ mailJob'[n].tries = mailJob[n].tries
      /\ \A k \in Notices \ {n} : mailJob'[k] = mailJob[k]
  BY <1>3, MailGoes
<1>5. /\ mails' \in [Notices -> 0..MaxAttempts] /\ mails[n] <= mails'[n]
      /\ \A k \in Notices \ {n} : mails'[k] = mails[k]
      /\ pc = "mark" => mails'[n] = mails[n] + 1
      /\ pc = "caught" => mails'[n] = mails[n]
  BY <1>1, <1>2, <1>3
<1>6. MailShape(n)'
  BY <1>1, <1>2, <1>4, <1>5 DEF MailShape
<1>7. QED BY <1>1, <1>4, <1>5, <1>6, MailMoves

LEMMA MarkMail ==
  ASSUME DeliveryInv, NEW n \in Notices, D!LoadToMark(n) \/ D!MarkFails(n)
  PROVE  DeliveryInv'
<1>1. /\ mailJob[n].pc \in {"mark", "save"}
      /\ UNCHANGED <<note, waJob, reader, optedOut, mails>>
      /\ note \in [Notices -> D!Notification] /\ mailJob \in [Notices -> D!MailJob]
      /\ mails \in [Notices -> 0..MaxAttempts]
      /\ MailShape(n) /\ mailJob[n].tries \in Nat /\ mails[n] \in Nat
      /\ stumbled \subseteq Notices
  BY MailNow, Bounds DEF D!LoadToMark, D!MarkFails
<1>2. mails[n] <= mails'[n]
  BY <1>1
<1>3. CASE D!Mail(n, "caught") /\ stumbled' = stumbled \cup {n}
  <2>1. /\ mailJob' \in [Notices -> D!MailJob] /\ n \in stumbled'
        /\ mailJob'[n].pc = "caught" /\ mailJob'[n].tries = mailJob[n].tries
        /\ \A k \in Notices \ {n} : mailJob'[k] = mailJob[k]
    BY <1>3, MailGoes
  <2>2. MailShape(n)'
    BY <1>1, <2>1 DEF MailShape
  <2>3. QED BY <1>1, <1>2, <1>3, <2>1, <2>2, MailMoves
<1>4. CASE /\ mailJob' = [mailJob EXCEPT ![n].pc = "save", ![n].was = note[n].status]
           /\ UNCHANGED stumbled /\ mailJob[n].pc = "mark"
  <2>1. /\ mailJob' \in [Notices -> D!MailJob]
        /\ mailJob'[n].pc = "save" /\ mailJob'[n].tries = mailJob[n].tries
        /\ \A k \in Notices \ {n} : mailJob'[k] = mailJob[k]
    BY <1>1, <1>4 DEF D!MailJob, D!Notification
  <2>2. MailShape(n)'
    BY <1>1, <1>4, <2>1 DEF MailShape
  <2>3. QED BY <1>1, <1>2, <1>4, <2>1, <2>2, MailMoves
<1>5. QED BY <1>3, <1>4 DEF D!LoadToMark, D!MarkFails

LEMMA SaveMail ==
  ASSUME DeliveryInv, NEW n \in Notices, D!SaveSent(n)
  PROVE  DeliveryInv'
<1>1. /\ mailJob[n].pc = "save" /\ UNCHANGED <<waJob, reader, optedOut, mails>>
      /\ note \in [Notices -> D!Notification] /\ mailJob \in [Notices -> D!MailJob]
      /\ mails \in [Notices -> 0..MaxAttempts]
      /\ MailShape(n) /\ NoteShape(n) /\ mailJob[n].tries \in Nat /\ mails[n] \in Nat
      /\ stumbled \subseteq Notices
  BY MailNow, Bounds DEF D!SaveSent
<1>2. mails[n] > 0
  BY <1>1 DEF MailShape
<1>3. CASE note[n].at = "purged"
  <2>1. D!Mail(n, "caught") /\ stumbled' = stumbled \cup {n} /\ note' = note
    BY <1>3 DEF D!SaveSent
  <2>2. /\ mailJob' \in [Notices -> D!MailJob] /\ n \in stumbled'
        /\ mailJob'[n].pc = "caught" /\ mailJob'[n].tries = mailJob[n].tries
        /\ \A k \in Notices \ {n} : mailJob'[k] = mailJob[k]
    BY <2>1, MailGoes
  <2>3. MailShape(n)' /\ NoteShape(n)'
    BY <1>1, <1>2, <1>3, <2>1, <2>2 DEF MailShape, NoteShape
  <2>4. QED BY <1>1, <2>1, <2>2, <2>3, MailStep
<1>4. CASE note[n].at # "purged"
  <2>1. /\ D!Mail(n, "done") /\ stumbled' = stumbled
        /\ note' = [note EXCEPT ![n].status = D!Saved(n, mailJob[n].was, "sent")]
    BY <1>4 DEF D!SaveSent
  <2>2. D!Saved(n, mailJob[n].was, "sent") \in D!Statuses
    BY <1>1 DEF D!Saved, D!Statuses, D!Notification
  <2>3. /\ note' \in [Notices -> D!Notification] /\ note'[n].at = note[n].at
        /\ \A k \in Notices \ {n} : note'[k] = note[k]
    BY <1>1, <2>1, <2>2 DEF D!Notification
  <2>4. /\ mailJob' \in [Notices -> D!MailJob]
        /\ mailJob'[n].pc = "done" /\ mailJob'[n].tries = mailJob[n].tries
        /\ \A k \in Notices \ {n} : mailJob'[k] = mailJob[k]
    BY <2>1, MailGoes
  <2>5. note[n].at # "absent"
    BY <1>1 DEF NoteShape
  <2>6. MailShape(n)' /\ NoteShape(n)'
    BY <1>1, <1>2, <2>1, <2>3, <2>4, <2>5 DEF MailShape, NoteShape
  <2>7. QED BY <1>1, <2>1, <2>3, <2>4, <2>6, MailStep
<1>5. QED BY <1>3, <1>4

LEMMA FailMail ==
  ASSUME DeliveryInv, NEW n \in Notices, D!LoadToFail(n)
  PROVE  DeliveryInv'
<1>1. /\ mailJob[n].pc = "giveup" /\ UNCHANGED <<note, waJob, reader, optedOut, mails, stumbled>>
      /\ note \in [Notices -> D!Notification] /\ mailJob \in [Notices -> D!MailJob]
      /\ mails \in [Notices -> 0..MaxAttempts]
      /\ MailShape(n) /\ mailJob[n].tries \in Nat /\ mails[n] \in Nat
      /\ stumbled \subseteq Notices
  BY MailNow, Bounds DEF D!LoadToFail, D!history
<1>2. /\ mailJob' \in [Notices -> D!MailJob]
      /\ mailJob'[n].pc \in {"refail", "throw"} /\ mailJob'[n].tries = mailJob[n].tries
      /\ \A k \in Notices \ {n} : mailJob'[k] = mailJob[k]
  <2>1. CASE D!Live(n)
    <3>1. PICK status \in D!Statuses, retries \in 0..MaxRetries :
            status = note[n].status /\ retries = note[n].retries
      BY <1>1 DEF D!Notification
    <3>2. mailJob' = [mailJob EXCEPT ![n].pc = "refail", ![n].was = status, ![n].retries = retries]
      BY <2>1, <3>1 DEF D!LoadToFail
    <3>3. QED BY <1>1, <3>2 DEF D!MailJob
  <2>2. CASE ~D!Live(n)
    BY <2>2, MailGoes DEF D!LoadToFail
  <2>3. QED BY <2>1, <2>2
<1>3. MailShape(n)'
  BY <1>1, <1>2 DEF MailShape
<1>4. mails[n] <= mails'[n]
  BY <1>1
<1>5. QED BY <1>1, <1>2, <1>3, <1>4, MailMoves

LEMMA SaveMailFailure ==
  ASSUME DeliveryInv, NEW n \in Notices, D!SaveFailed(n)
  PROVE  DeliveryInv'
<1>1. /\ mailJob[n].pc = "refail" /\ UNCHANGED <<waJob, reader, optedOut, mails, stumbled>>
      /\ note \in [Notices -> D!Notification] /\ mailJob \in [Notices -> D!MailJob]
      /\ mails \in [Notices -> 0..MaxAttempts] /\ D!Mail(n, "throw")
      /\ MailShape(n) /\ NoteShape(n) /\ mailJob[n].tries \in Nat /\ mails[n] \in Nat
      /\ stumbled \subseteq Notices
  BY MailNow, Bounds DEF D!SaveFailed, D!history
<1>2. /\ mailJob' \in [Notices -> D!MailJob]
      /\ mailJob'[n].pc = "throw" /\ mailJob'[n].tries = mailJob[n].tries
      /\ \A k \in Notices \ {n} : mailJob'[k] = mailJob[k]
  BY <1>1, MailGoes
<1>3. note[n].at # "absent"
  BY <1>1 DEF NoteShape
<1>4. /\ note' \in [Notices -> D!Notification] /\ note'[n].at = note[n].at
      /\ note'[n].status = "sent" => note[n].status = "sent"
      /\ \A k \in Notices \ {n} : note'[k] = note[k]
  <2>1. CASE note[n].at = "purged"
    BY <1>1, <2>1 DEF D!SaveFailed
  <2>2. CASE note[n].at # "purged"
    <3>1. PICK status, retries :
            /\ status = D!Saved(n, mailJob[n].was, IF mailJob[n].retries < MaxRetries
                                                   THEN "pending" ELSE "failed")
            /\ retries = IF mailJob[n].retries < MaxRetries THEN mailJob[n].retries + 1
                                                            ELSE note[n].retries
      OBVIOUS
    <3>2. note' = [note EXCEPT ![n].status = status, ![n].retries = retries]
      BY <1>1, <2>2, <3>1 DEF D!SaveFailed
    <3>3. status \in D!Statuses /\ (status = "sent" => note[n].status = "sent")
      BY <1>1, <3>1 DEF D!Saved, D!Statuses, D!Notification
    <3>4. retries \in 0..MaxRetries
      <4>1. mailJob[n].retries \in 0..MaxRetries /\ note[n].retries \in 0..MaxRetries
        BY <1>1 DEF D!MailJob, D!Notification
      <4>2. QED BY <3>1, <4>1, Bounds
    <3>5. QED BY <1>1, <3>2, <3>3, <3>4 DEF D!Notification
  <2>3. QED BY <2>1, <2>2
<1>5. MailShape(n)' /\ NoteShape(n)'
  BY <1>1, <1>2, <1>3, <1>4 DEF MailShape, NoteShape
<1>6. QED BY <1>1, <1>2, <1>4, <1>5, MailStep

LEMMA CountMailAttempt ==
  ASSUME DeliveryInv, NEW n \in Notices, D!RetryMail(n)
  PROVE  DeliveryInv'
<1>1. /\ mailJob[n].pc = "throw" /\ UNCHANGED <<note, waJob, reader, optedOut, mails, stumbled>>
      /\ mailJob \in [Notices -> D!MailJob] /\ mails \in [Notices -> 0..MaxAttempts]
      /\ MailShape(n) /\ mailJob[n].tries \in Nat /\ mails[n] \in Nat
      /\ MaxAttempts \in Nat /\ stumbled \subseteq Notices /\ 0 \in 0..MaxRetries
  BY MailNow, Bounds DEF D!RetryMail, D!history
<1>2. PICK pc, tries :
        /\ tries = mailJob[n].tries + 1
        /\ pc = IF tries < MaxAttempts THEN "waiting" ELSE "dead"
  OBVIOUS
<1>3. mailJob' = [mailJob EXCEPT ![n] = [D!NoMail EXCEPT !.pc = pc, !.tries = tries]]
  BY <1>2 DEF D!RetryMail
<1>4. tries \in 0..MaxAttempts /\ pc \in {"waiting", "dead"}
  BY <1>1, <1>2 DEF MailShape
<1>5. /\ mailJob' \in [Notices -> D!MailJob]
      /\ mailJob'[n].pc = pc /\ mailJob'[n].tries = tries
      /\ \A k \in Notices \ {n} : mailJob'[k] = mailJob[k]
  BY <1>1, <1>3, <1>4 DEF D!MailJob, D!NoMail, D!Statuses
<1>6. MailShape(n)'
  BY <1>1, <1>2, <1>5 DEF MailShape
<1>7. mails[n] <= mails'[n]
  BY <1>1
<1>8. QED BY <1>1, <1>5, <1>6, <1>7, MailMoves

(* A step of the mirror's job leaves the notice as it is.                  *)
LEMMA MirrorStep ==
  ASSUME DeliveryInv, NEW n \in Notices, D!WorkMirror(n)
  PROVE  DeliveryInv'
<1>1. /\ waJob \in [Notices -> D!WhatsAppJob] /\ note \in [Notices -> D!Notification]
      /\ waJob[n].tries \in Nat /\ MaxAttempts \in Nat /\ MirrorShape(n) /\ NoteShape(n)
      /\ UNCHANGED <<note, mailJob, reader, optedOut, mails, stumbled>>
      /\ waJob[n].pc \notin {"none", "dead"}
  BY Bounds DEF DeliveryInv, D!TypeOK, D!WhatsAppJob, D!WorkMirror, D!LoadToMirror,
       D!SendWhatsApp, D!SaveMirror, D!RetryMirror, D!history
<1>2. /\ waJob[n].tries < MaxAttempts /\ note[n].at # "absent"
  BY <1>1 DEF MirrorShape, NoteShape
<1>3. /\ waJob' \in [Notices -> D!WhatsAppJob] /\ waJob'[n].pc # "none"
      /\ waJob'[n].pc # "dead" => waJob'[n].tries < MaxAttempts
      /\ \A k \in Notices \ {n} : waJob'[k] = waJob[k]
  <2>1. CASE D!RetryMirror(n)
    <3>1. PICK pc, tries :
            /\ tries = waJob[n].tries + 1
            /\ pc = IF tries < MaxAttempts THEN "waiting" ELSE "dead"
      OBVIOUS
    <3>2. waJob' = [waJob EXCEPT ![n] = [pc |-> pc, tries |-> tries]]
      BY <2>1, <3>1 DEF D!RetryMirror
    <3>3. tries \in 0..MaxAttempts /\ pc \in {"waiting", "dead"}
          /\ (pc # "dead" => tries < MaxAttempts)
      BY <1>1, <1>2, <3>1
    <3>4. QED BY <1>1, <3>2, <3>3 DEF D!WhatsAppJob
  <2>2. CASE ~D!RetryMirror(n)
    <3>1. PICK pc \in {"send", "sent", "refused", "throw", "done"} : D!Mirror(n, pc)
      BY <2>2 DEF D!WorkMirror, D!LoadToMirror, D!SendWhatsApp, D!SaveMirror
    <3>2. QED BY <1>1, <1>2, <3>1 DEF D!Mirror, D!WhatsAppJob
  <2>3. QED BY <2>1, <2>2
<1>4. D!TypeOK'
  BY <1>1, <1>3 DEF DeliveryInv, D!TypeOK
<1>5. ASSUME NEW k \in Notices PROVE MailShape(k)' /\ NoteShape(k)' /\ MirrorShape(k)'
  <2>1. MailShape(k) /\ NoteShape(k) /\ MirrorShape(k)
    BY DEF DeliveryInv
  <2>2. MailShape(k)'
    BY <1>1, <2>1 DEF MailShape
  <2>3. MirrorShape(k)' /\ NoteShape(k)'
    BY <1>1, <1>2, <1>3, <2>1 DEF MirrorShape, NoteShape
  <2>4. QED BY <2>2, <2>3
<1>6. QED BY <1>4, <1>5 DEF DeliveryInv

(* The requests of the recipient, retention and the provider's messages.   *)
Touch ==
  \/ \E n \in Notices :
       \/ D!Hide(n) \/ D!LoadToRead(n) \/ D!SaveRead(n)
  \/ D!HandleInbound \/ D!MarkAllAsRead \/ D!DeleteByRecipient

LEMMA TouchDelivery ==
  ASSUME DeliveryInv, Touch
  PROVE  DeliveryInv'
<1>1. /\ note \in [Notices -> D!Notification] /\ reader \in [Notices -> D!Reader]
      /\ optedOut \in BOOLEAN
  BY DEF DeliveryInv, D!TypeOK
<1> DEFINE Fits ==
  \A n \in Notices :
    /\ note[n].at = "absent" => note'[n] = note[n] /\ reader'[n] = reader[n]
    /\ note[n].at # "absent" => note'[n].at # "absent"
    /\ note'[n].status # "sent" \/ note'[n].status = note[n].status
<1>2. ASSUME NEW n \in Notices, D!Hide(n) PROVE DeliveryInv'
  <2>1. UNCHANGED <<mailJob, waJob, reader, optedOut, mails, stumbled>>
    BY <1>2 DEF D!Hide, D!history
  <2>5. reader' \in [Notices -> D!Reader] /\ optedOut' \in BOOLEAN
    BY <1>1, <2>1
  <2>2. note' \in [Notices -> D!Notification] /\ Fits
    BY <1>1, <1>2 DEF D!Notification, D!Presence, D!Hide, D!Live
  <2>3. QED BY <2>1, <2>2, <2>5, NoteStep
<1>3. ASSUME NEW n \in Notices, D!LoadToRead(n) PROVE DeliveryInv'
  <2>1. UNCHANGED <<note, mailJob, waJob, optedOut, mails, stumbled>>
    BY <1>3 DEF D!LoadToRead, D!history
  <2>2. PICK op \in {"read", "click"}, was \in D!Statuses :
          reader' = [reader EXCEPT ![n] = [op |-> op, was |-> was]]
    BY <1>1, <1>3 DEF D!LoadToRead, D!Notification
  <2>3. reader' \in [Notices -> D!Reader]
    BY <1>1, <2>2 DEF D!Reader
  <2>6. D!Live(n)
    BY <1>3 DEF D!LoadToRead
  <2>4. note' \in [Notices -> D!Notification] /\ Fits
    BY <1>1, <2>1, <2>2, <2>6 DEF D!Live
  <2>5. QED BY <1>1, <2>1, <2>3, <2>4, NoteStep
<1>4. ASSUME NEW n \in Notices, D!SaveRead(n) PROVE DeliveryInv'
  <2>1. /\ UNCHANGED <<mailJob, waJob, optedOut, mails, stumbled>>
        /\ reader' = [reader EXCEPT ![n] = D!NoReader]
    BY <1>4 DEF D!SaveRead, D!history
  <2>2. reader' \in [Notices -> D!Reader]
    BY <1>1, <2>1 DEF D!Reader, D!NoReader, D!Statuses
  <2>5. optedOut' \in BOOLEAN
    BY <1>1, <2>1
  <2>3. note' \in [Notices -> D!Notification] /\ Fits
    <3>1. CASE UNCHANGED note
      <4>1. note[n].at # "absent"
        BY <1>4 DEF D!SaveRead, DeliveryInv, NoteShape
      <4>2. QED BY <1>1, <2>1, <3>1, <4>1
    <3>2. CASE ~UNCHANGED note
      <4>1. PICK status : status = D!Saved(n, reader[n].was, "read")
        OBVIOUS
      <4>2. /\ status \in D!Statuses
            /\ status # "sent" \/ status = note[n].status
        BY <1>1, <4>1 DEF D!Saved, D!Statuses, D!Notification
      <4>3. note' = [note EXCEPT ![n].status = status]
        BY <1>4, <3>2, <4>1 DEF D!SaveRead
      <4>4. reader[n].op # "idle"
        BY <1>4 DEF D!SaveRead
      <4>5. note[n].at # "absent"
        BY <4>4 DEF DeliveryInv, NoteShape
      <4>6. QED BY <1>1, <2>1, <4>2, <4>3, <4>5 DEF D!Notification
    <3>3. QED BY <3>1, <3>2
  <2>4. QED BY <2>1, <2>2, <2>3, <2>5, NoteStep
<1>5. ASSUME D!HandleInbound PROVE DeliveryInv'
  <2>1. UNCHANGED <<note, mailJob, waJob, reader, mails, stumbled>> /\ optedOut' \in BOOLEAN
    BY <1>5 DEF D!HandleInbound, D!history
  <2>2. Fits
    BY <2>1
  <2>3. QED BY <1>1, <2>1, <2>2, NoteStep
<1>6. ASSUME D!MarkAllAsRead PROVE DeliveryInv'
  <2>1. UNCHANGED <<mailJob, waJob, reader, optedOut, mails, stumbled>>
    BY <1>6 DEF D!MarkAllAsRead, D!history
  <2>5. reader' \in [Notices -> D!Reader] /\ optedOut' \in BOOLEAN
    BY <1>1, <2>1
  <2>2. note' = [n \in Notices |-> IF D!Live(n) THEN [note[n] EXCEPT !.status = "read"] ELSE note[n]]
    BY <1>6 DEF D!MarkAllAsRead
  <2>3. note' \in [Notices -> D!Notification] /\ Fits
    BY <1>1, <2>1, <2>2 DEF D!Notification, D!Statuses, D!Live
  <2>4. QED BY <2>1, <2>3, <2>5, NoteStep
<1>7. ASSUME D!DeleteByRecipient PROVE DeliveryInv'
  <2>1. UNCHANGED <<mailJob, waJob, reader, optedOut, mails, stumbled>>
    BY <1>7 DEF D!DeleteByRecipient, D!history
  <2>5. reader' \in [Notices -> D!Reader] /\ optedOut' \in BOOLEAN
    BY <1>1, <2>1
  <2>2. PICK shut : note' = [n \in Notices |->
           IF note[n].at \in {"live", "hidden"} /\ note[n].status \in shut
           THEN [D!NoNote EXCEPT !.at = "purged"] ELSE note[n]]
    BY <1>7 DEF D!DeleteByRecipient
  <2>3. note' \in [Notices -> D!Notification] /\ Fits
    BY <1>1, <2>1, <2>2, Bounds DEF D!Notification, D!Statuses, D!Presence, D!NoNote
  <2>4. QED BY <2>1, <2>3, <2>5, NoteStep
<1>8. QED BY <1>2, <1>3, <1>4, <1>5, <1>6, <1>7 DEF Touch

LEMMA NextDelivery == DeliveryInv /\ D!Next => DeliveryInv'
<1> SUFFICES ASSUME DeliveryInv, D!Next PROVE DeliveryInv'
  OBVIOUS
<1>1. ASSUME NEW n \in Notices, D!Work(n) \/ D!MarkFails(n) \/ D!FailFails(n) PROVE DeliveryInv'
  BY <1>1, LoadMail, SendMail, MarkMail, SaveMail, FailMail, SaveMailFailure,
     CountMailAttempt DEF D!Work
<1>2. QED BY <1>1, CreateDelivery, MirrorStep, TouchDelivery DEF D!Next, Touch

(* A notice without a mail job stays read, whatever is saved. *)
LEMMA ReadStep ==
  ASSUME DeliveryInv, D!Next, NEW m \in Notices,
         note[m].status = "read", mailJob[m].pc = "none", note'[m].at # "purged"
  PROVE  note'[m].status = "read"
<1>1. note \in [Notices -> D!Notification] /\ note[m].at # "absent"
  BY DEF DeliveryInv, D!TypeOK, NoteShape
<1>2. CASE UNCHANGED note
  BY <1>2
<1>3. ASSUME NEW n \in Notices, ~UNCHANGED note,
             D!Create(n) \/ D!Work(n) \/ D!MarkFails(n) \/ D!FailFails(n)
      PROVE  note'[m].status = "read"
  <2>1. CASE D!Create(n)
    BY <1>1, <2>1 DEF D!Create
  <2>2. CASE D!SaveSent(n)
    BY <1>1, <2>2 DEF D!SaveSent
  <2>3. CASE D!SaveFailed(n)
    BY <1>1, <2>3 DEF D!SaveFailed
  <2>4. QED
    BY <1>3, <2>1, <2>2, <2>3 DEF D!Work, D!LoadToMail, D!SendEmail, D!LoadToMark, D!CatchMail,
       D!LoadToFail, D!RetryMail, D!MarkFails, D!FailFails
<1>4. ASSUME NEW n \in Notices, D!WorkMirror(n)
      PROVE  UNCHANGED note
  BY <1>4 DEF D!WorkMirror, D!LoadToMirror, D!SendWhatsApp, D!SaveMirror, D!RetryMirror
<1>5. ASSUME NEW n \in Notices, ~UNCHANGED note, D!LoadToRead(n) \/ D!SaveRead(n) \/ D!Hide(n)
      PROVE  note'[m].status = "read"
  <2>1. CASE D!SaveRead(n)
    <3>1. note' = [note EXCEPT ![n].status = D!Saved(n, reader[n].was, "read")]
      BY <1>5, <2>1 DEF D!SaveRead
    <3>2. note[n].status = "read" => D!Saved(n, reader[n].was, "read") = "read"
      BY DEF D!Saved
    <3>3. QED BY <1>1, <3>1, <3>2 DEF D!Notification
  <2>2. CASE D!Hide(n)
    BY <1>1, <2>2 DEF D!Hide, D!Notification
  <2>3. QED BY <1>5, <2>1, <2>2 DEF D!LoadToRead
<1>6. CASE D!MarkAllAsRead
  <2>1. note'[m] = IF D!Live(m) THEN [note[m] EXCEPT !.status = "read"] ELSE note[m]
    BY <1>6 DEF D!MarkAllAsRead
  <2>2. QED BY <1>1, <2>1 DEF D!Notification
<1>7. CASE D!DeleteByRecipient
  <2>1. note'[m] \in {note[m], [D!NoNote EXCEPT !.at = "purged"]}
    BY <1>7 DEF D!DeleteByRecipient
  <2>2. QED BY <2>1 DEF D!NoNote
<1>8. CASE D!HandleInbound
  BY <1>2, <1>8 DEF D!HandleInbound
<1>9. QED BY <1>2, <1>3, <1>4, <1>5, <1>6, <1>7, <1>8 DEF D!Next


-----------------------------------------------------------------------------
(* The sweeps *)

(* What a process holds goes with where its sweep is, and a request saves  *)
(* a reminder it has found, never as pending.                              *)
PhaseShape ==
  /\ \A p \in Sweeps :
       /\ sweep[p].pc = "idle" => sweep[p].found = {} /\ sweep[p].on = {}
       /\ sweep[p].pc = "next" => sweep[p].on = {}
  /\ \A q \in Requests :
       req[q].pc = "save" =>
         req[q].to # "pending" /\ \A s \in req[q].on : doc[s].at # "absent"

(* Nothing was done about what does not exist yet. *)
DocShape(s) ==
  doc[s].at = "absent" =>
    /\ notices[s] = 0
    /\ s \in Reminders => doc[s].status = "pending"
    /\ \A p \in Sweeps : s \notin S!HeldBy(p)

(* One sweep at most holds s, until it notifies of it; then s is marked or *)
(* the sweep is about to mark it.                                          *)
Orderly(s) ==
  /\ \A p, o \in Sweeps : s \in S!HeldBy(p) /\ s \in S!HeldBy(o) => p = o
  /\ \A p \in Sweeps : s \in sweep[p].found => notices[s] = 0
  /\ notices[s] > 0 => doc[s].mark = "recent" \/ \E p \in Sweeps : s \in sweep[p].on
  /\ notices[s] <= 1

(* A notice is queued once, by the sweep that raised it. *)
Enqueuing(s) == {p \in Sweeps : sweep[p].pc = "enqueue" /\ s \in sweep[p].on}
Counted(s) ==
  /\ IsFiniteSet(Enqueuing(s))
  /\ queued[s] + Cardinality(Enqueuing(s)) <= notices[s]

SweepInv ==
  /\ S!TypeOK
  /\ PhaseShape
  /\ \A s \in S!Subjects : DocShape(s) /\ Counted(s) /\ (s \notin excused => Orderly(s))

LEMMA SweepBounds ==
  /\ Reminders \cap Subscriptions = {} /\ MaxLeft \in Nat /\ MaxNotices \in Nat \ {0}
  /\ MayFail \in BOOLEAN
  BY NoticesConstants DEF S!SweepConstants

LEMMA InitSweep == S!Init => SweepInv
<1> SUFFICES ASSUME S!Init PROVE SweepInv
  OBVIOUS
<1>1. PICK T \in SUBSET Subscriptions :
        doc = [s \in S!Subjects |-> IF s \in T THEN [S!NoDoc EXCEPT !.at = "live"] ELSE S!NoDoc]
  BY DEF S!Init
<1>2. S!TypeOK
  BY <1>1, SweepBounds DEF S!Init, S!TypeOK, S!NoDoc, S!Resting, S!Idle, S!Subject, S!Sweep,
     S!Request, S!Statuses, S!Subjects
<1>3. PhaseShape
  BY DEF S!Init, PhaseShape, S!Resting, S!Idle
<1>4. ASSUME NEW s \in S!Subjects PROVE DocShape(s) /\ Counted(s) /\ Orderly(s)
  <2>1. notices[s] = 0 /\ queued[s] = 0
    BY DEF S!Init
  <2>2. \A p \in Sweeps : sweep[p].found = {} /\ sweep[p].on = {}
    BY DEF S!Init, S!Resting
  <2>3. DocShape(s)
    BY <1>1, <2>1, <2>2, SweepBounds DEF DocShape, S!HeldBy, S!NoDoc
  <2>4. Orderly(s)
    BY <2>1, <2>2 DEF Orderly, S!HeldBy
  <2>5. Enqueuing(s) = {}
    BY <2>2 DEF Enqueuing
  <2>6. Counted(s)
    BY <2>1, <2>5, FS_EmptySet DEF Counted
  <2>7. QED BY <2>3, <2>4, <2>6
<1>5. QED BY <1>2, <1>3, <1>4 DEF SweepInv

(* A step that changes documents and requests, and no sweep. *)
LEMMA DocStep ==
  ASSUME SweepInv, doc' \in [S!Subjects -> S!Subject], due' \subseteq S!Subjects,
         req' \in [Requests -> S!Request], UNCHANGED <<notices, queued, sweep, excused>>,
         \A s \in S!Subjects :
           /\ doc[s].at # "absent" => doc'[s].at # "absent" /\ doc'[s].mark = doc[s].mark
           /\ s \in Reminders /\ doc'[s].at = "absent" => doc'[s].status = doc[s].status,
         \A q \in Requests : req'[q].pc = "save" =>
           req'[q].to # "pending" /\ \A s \in req'[q].on : doc'[s].at # "absent"
  PROVE  SweepInv'
<1>1. S!TypeOK'
  BY DEF SweepInv, S!TypeOK
<1>2. PhaseShape'
  BY DEF SweepInv, PhaseShape
<1>3. ASSUME NEW s \in S!Subjects
      PROVE  DocShape(s)' /\ Counted(s)' /\ (s \notin excused' => Orderly(s)')
  <2>1. DocShape(s) /\ Counted(s) /\ (s \notin excused => Orderly(s)) /\ notices[s] \in Nat
    BY SweepBounds DEF SweepInv, S!TypeOK
  <2>2. Enqueuing(s)' = Enqueuing(s)
    BY DEF Enqueuing
  <2>3. Counted(s)'
    BY <2>1, <2>2 DEF Counted
  <2>4. DocShape(s)'
    BY <2>1 DEF DocShape, S!HeldBy
  <2>5. ASSUME s \notin excused' PROVE Orderly(s)'
    <3>1. Orderly(s) /\ (notices[s] > 0 => doc'[s].mark = doc[s].mark)
      BY <2>1, <2>5 DEF DocShape
    <3>2. QED BY <3>1 DEF Orderly, S!HeldBy
  <2>6. QED BY <2>3, <2>4, <2>5
<1>4. QED BY <1>1, <1>2, <1>3 DEF SweepInv

LEMMA SweepTypes ==
  ASSUME SweepInv
  PROVE  /\ doc \in [S!Subjects -> S!Subject] /\ due \subseteq S!Subjects
         /\ req \in [Requests -> S!Request] /\ sweep \in [Sweeps -> S!Sweep]
         /\ notices \in [S!Subjects -> 0..MaxNotices] /\ queued \in [S!Subjects -> 0..MaxNotices]
         /\ excused \subseteq S!Subjects /\ Reminders \subseteq S!Subjects
         /\ \A s \in S!Subjects : doc[s] \in S!Subject
         /\ \A q \in Requests : req[q].pc = "save" =>
              req[q].to # "pending" /\ \A s \in req[q].on : doc[s].at # "absent"
         /\ \A s \in S!Subjects : s \in Reminders /\ doc[s].at = "absent" => doc[s].status = "pending"
BY DEF SweepInv, S!TypeOK, PhaseShape, DocShape, S!Subjects

(* What ReminderService and the payments of a subscription do. *)
Manage ==
  \/ \E s \in S!Subjects : S!CloseSubscription(s)
  \/ \E r \in Reminders :
       \/ \E left \in 0..MaxLeft : S!Create(r, left)
       \/ S!BecomeDue(r) \/ S!Update(r) \/ S!Delete(r)
       \/ \E q \in Requests, to \in S!Statuses \ {"pending"} : S!LoadReminder(q, r, to)
  \/ \E q \in Requests : S!SaveReminder(q) \/ S!ScheduleNext(q) \/ S!RequestDies(q)
  \/ \E T \in SUBSET Reminders, to \in {"acknowledged", "cancelled"} : S!Bulk(T, to)

(* A document is changed as DocStep has it. *)
Kept ==
  \A s \in S!Subjects :
    /\ doc[s].at # "absent" => doc'[s].at # "absent" /\ doc'[s].mark = doc[s].mark
    /\ s \in Reminders /\ doc'[s].at = "absent" => doc'[s].status = doc[s].status
Closed ==
  \A s \in S!Subjects :
    doc[s].status \in {"completed", "cancelled"} => doc'[s].status # "pending"

LEMMA ManageDocs ==
  ASSUME SweepInv, Manage
  PROVE  doc' \in [S!Subjects -> S!Subject] /\ Kept /\ Closed
<1>1. CASE UNCHANGED doc
  BY <1>1, SweepTypes DEF Kept, Closed
<1>2. ASSUME NEW s \in S!Subjects, S!CloseSubscription(s)
      PROVE  doc' \in [S!Subjects -> S!Subject] /\ Kept /\ Closed
  <2>1. doc' = [doc EXCEPT ![s].status = "cancelled"] /\ s \notin Reminders
    BY <1>2, SweepBounds DEF S!CloseSubscription
  <2>2. QED BY <2>1, SweepTypes DEF S!Subject, S!Statuses, Kept, Closed
<1>3. ASSUME NEW r \in Reminders, NEW left \in 0..MaxLeft, doc[r].at = "absent",
             doc' = [doc EXCEPT ![r] = [S!NoDoc EXCEPT !.at = "live", !.left = left]]
      PROVE  doc' \in [S!Subjects -> S!Subject] /\ Kept /\ Closed
  <2>1. PICK d : d = [S!NoDoc EXCEPT !.at = "live", !.left = left]
    OBVIOUS
  <2>2. d \in S!Subject /\ d.at = "live" /\ d.status = "pending"
    BY <2>1 DEF S!NoDoc, S!Subject, S!Statuses
  <2>3. doc' = [doc EXCEPT ![r] = d] /\ doc[r].status = "pending" /\ r \in S!Subjects
    BY <1>3, <2>1, SweepTypes
  <2>4. QED BY <1>3, <2>2, <2>3, SweepTypes DEF Kept, Closed
<1>4. ASSUME NEW r \in Reminders, S!Update(r) \/ S!Delete(r)
      PROVE  doc' \in [S!Subjects -> S!Subject] /\ Kept /\ Closed
  <2>1. PICK at \in {"live", "deleted"}, left \in 0..MaxLeft :
          doc' = [doc EXCEPT ![r].at = at, ![r].left = left]
    <3>1. CASE S!Update(r)
      <4>1. PICK left \in 0..MaxLeft : doc' = [doc EXCEPT ![r].left = left]
        BY <3>1 DEF S!Update
      <4>2. doc[r].at = "live" /\ doc \in [S!Subjects -> S!Subject] /\ r \in S!Subjects
        BY <3>1, SweepTypes DEF S!Update, S!Live
      <4>3. doc' = [doc EXCEPT ![r].at = "live", ![r].left = left]
        BY <4>1, <4>2 DEF S!Subject
      <4>4. QED BY <4>3
    <3>2. CASE S!Delete(r)
      <4>1. 0 \in 0..MaxLeft /\ doc' = [doc EXCEPT ![r].at = "deleted", ![r].left = 0]
        BY <3>2, SweepBounds DEF S!Delete
      <4>2. QED BY <4>1
    <3>3. QED BY <1>4, <3>1, <3>2
  <2>2. QED BY <2>1, SweepTypes DEF S!Subject, Kept, Closed
<1>5. ASSUME NEW q \in Requests, S!SaveReminder(q)
      PROVE  doc' \in [S!Subjects -> S!Subject] /\ Kept /\ Closed
  <2>1. PICK to \in S!Statuses, on \in SUBSET Reminders :
          /\ to = req[q].to /\ on = req[q].on /\ to # "pending"
          /\ \A s \in on : doc[s].at # "absent"
    BY <1>5, SweepTypes DEF S!SaveReminder, S!Request
  <2>2. ASSUME NEW s \in S!Subjects
        PROVE  doc'[s] = doc[s] \/ (s \in on /\ doc'[s] = [doc[s] EXCEPT !.status = to])
    <3>1. doc'[s] = IF s \in req[q].on /\ req[q].changes THEN [doc[s] EXCEPT !.status = req[q].to]
                                                         ELSE doc[s]
      BY <1>5 DEF S!SaveReminder
    <3>2. QED BY <2>1, <3>1
  <2>3. DOMAIN doc' = S!Subjects /\ doc' = [s \in S!Subjects |-> doc'[s]]
    BY <1>5 DEF S!SaveReminder
  <2>4. ASSUME NEW s \in S!Subjects
        PROVE  /\ doc'[s] \in S!Subject /\ doc'[s].at = doc[s].at /\ doc'[s].mark = doc[s].mark
               /\ doc'[s].status = doc[s].status \/ (s \in on /\ doc'[s].status = to)
    <3>1. PICK d : d = doc[s]
      OBVIOUS
    <3>2. d \in S!Subject /\ (doc'[s] = d \/ (s \in on /\ doc'[s] = [d EXCEPT !.status = to]))
      BY <2>2, <3>1, SweepTypes
    <3>3. QED BY <3>1, <3>2 DEF S!Subject
  <2>5. doc' \in [S!Subjects -> S!Subject]
    BY <2>3, <2>4
  <2>6. QED BY <2>1, <2>4, <2>5 DEF Kept, Closed
<1>6. ASSUME NEW T \in SUBSET Reminders, NEW to \in {"acknowledged", "cancelled"}, S!Bulk(T, to)
      PROVE  doc' \in [S!Subjects -> S!Subject] /\ Kept /\ Closed
  <2>1. doc' = [s \in S!Subjects |-> IF s \in T /\ S!Live(s) THEN [doc[s] EXCEPT !.status = to]
                                                              ELSE doc[s]]
    BY <1>6 DEF S!Bulk
  <2>2. ASSUME NEW s \in S!Subjects
        PROVE  /\ doc'[s] \in S!Subject /\ doc'[s].at = doc[s].at /\ doc'[s].mark = doc[s].mark
               /\ \/ doc'[s].status = doc[s].status
                  \/ doc[s].at = "live" /\ doc'[s].status = to
    BY <2>1, SweepTypes DEF S!Subject, S!Statuses, S!Live
  <2>3. doc' \in [S!Subjects -> S!Subject]
    BY <2>1, <2>2
  <2>4. QED BY <2>2, <2>3 DEF Kept, Closed
<1>7. ASSUME NEW q \in Requests, S!ScheduleNext(q)
      PROVE  doc' \in [S!Subjects -> S!Subject] /\ Kept /\ Closed
  <2>1. CASE req[q].left = 0
    BY <1>1, <1>7, <2>1 DEF S!ScheduleNext
  <2>2. CASE req[q].left # 0
    <3>1. PICK left : left = req[q].left - 1
      OBVIOUS
    <3>2. left \in 0..MaxLeft
      <4>1. req[q].left \in 0..MaxLeft
        BY SweepTypes DEF S!Request
      <4>2. QED BY <2>2, <3>1, <4>1, SweepBounds
    <3>3. PICK r \in Reminders :
            /\ doc[r].at = "absent"
            /\ doc' = [doc EXCEPT ![r] = [S!NoDoc EXCEPT !.at = "live", !.left = left]]
      BY <1>7, <2>2, <3>1 DEF S!ScheduleNext
    <3>4. QED BY <1>3, <3>2, <3>3
  <2>3. QED BY <2>1, <2>2
<1>8. QED
  BY <1>1, <1>2, <1>3, <1>4, <1>5, <1>6, <1>7 DEF Manage, S!Create, S!BecomeDue, S!LoadReminder,
     S!RequestDies

LEMMA ManageSweep ==
  ASSUME SweepInv, Manage
  PROVE  SweepInv'
<1>1. doc' \in [S!Subjects -> S!Subject] /\ Kept
  BY ManageDocs
<1>2. UNCHANGED <<notices, queued, sweep, excused>> /\ due' \subseteq S!Subjects
  <2>1. UNCHANGED <<notices, queued, sweep, excused>>
    BY DEF Manage, S!CloseSubscription, S!Create, S!BecomeDue, S!Update, S!Delete,
       S!LoadReminder, S!SaveReminder, S!ScheduleNext, S!RequestDies, S!Bulk
  <2>2. due' = due \/ \E r \in Reminders : due' = due \ {r} \/ due' = due \cup {r}
    BY DEF Manage, S!CloseSubscription, S!Create, S!BecomeDue, S!Update, S!Delete,
       S!LoadReminder, S!SaveReminder, S!ScheduleNext, S!RequestDies, S!Bulk
  <2>3. QED BY <2>1, <2>2, SweepTypes
<1> DEFINE Sound ==
  \A q \in Requests : req'[q].pc = "save" =>
    req'[q].to # "pending" /\ \A s \in req'[q].on : doc'[s].at # "absent"
<1>3. \A q \in Requests : req[q].pc = "save" =>
        req[q].to # "pending" /\ \A s \in req[q].on : doc'[s].at # "absent"
  <2>1. \A q \in Requests : req[q].on \subseteq S!Subjects
    BY SweepTypes DEF S!Request
  <2>2. QED BY <1>1, <2>1, SweepTypes DEF Kept
<1>4. req' \in [Requests -> S!Request] /\ Sound
  <2>1. CASE UNCHANGED req
    BY <1>3, <2>1, SweepTypes
  <2>2. ASSUME NEW q \in Requests, NEW r \in Reminders, NEW to \in S!Statuses \ {"pending"},
               S!LoadReminder(q, r, to)
        PROVE  req' \in [Requests -> S!Request] /\ Sound
    <3>1. PICK changes \in BOOLEAN, left \in 0..MaxLeft :
            req' = [req EXCEPT ![q] = [pc |-> "save", on |-> {r}, to |-> to,
                                       changes |-> changes, left |-> left]]
      <4>1. doc[r].left \in 0..MaxLeft /\ 0 \in 0..MaxLeft
        BY SweepTypes, SweepBounds DEF S!Subject
      <4>2. (doc[r].status # to) \in BOOLEAN
        OBVIOUS
      <4>3. (IF to = "completed" THEN doc[r].left ELSE 0) \in 0..MaxLeft
        BY <4>1
      <4>4. QED BY <2>2, <4>2, <4>3 DEF S!LoadReminder
    <3>2. doc[r].at = "live" /\ UNCHANGED doc
      BY <2>2 DEF S!LoadReminder, S!Live
    <3>3. PICK v : v = [pc |-> "save", on |-> {r}, to |-> to, changes |-> changes, left |-> left]
      OBVIOUS
    <3>4. v \in S!Request /\ v.pc = "save" /\ v.on = {r} /\ v.to # "pending"
      BY <3>3 DEF S!Request
    <3>5. req' = [req EXCEPT ![q] = v]
      BY <3>1, <3>3
    <3>6. req' \in [Requests -> S!Request]
      BY <3>4, <3>5, SweepTypes
    <3>7. Sound
      BY <1>3, <3>2, <3>4, <3>5, SweepTypes
    <3>8. QED BY <3>6, <3>7
  <2>3. ASSUME NEW q \in Requests, NEW v \in S!Request, v.pc # "save", req' = [req EXCEPT ![q] = v]
        PROVE  req' \in [Requests -> S!Request] /\ Sound
    BY <1>3, <2>3, SweepTypes
  <2>4. S!Idle \in S!Request /\ S!Idle.pc # "save"
    BY SweepBounds DEF S!Idle, S!Request, S!Statuses
  <2>5. ASSUME NEW q \in Requests, S!SaveReminder(q)
        PROVE  req' \in [Requests -> S!Request] /\ Sound
    <3>1. PICK v : v = [req[q] EXCEPT !.pc = "next"]
      OBVIOUS
    <3>2. v \in S!Request /\ v.pc = "next"
      BY <3>1, SweepTypes DEF S!Request
    <3>3. req' = [req EXCEPT ![q] = v] \/ req' = [req EXCEPT ![q] = S!Idle]
      BY <2>5, <3>1 DEF S!SaveReminder
    <3>4. QED BY <2>3, <2>4, <3>2, <3>3
  <2>6. ASSUME NEW q \in Requests, S!ScheduleNext(q) \/ S!RequestDies(q)
        PROVE  req' \in [Requests -> S!Request] /\ Sound
    BY <2>3, <2>4, <2>6 DEF S!ScheduleNext, S!RequestDies
  <2>7. QED
    BY <2>1, <2>2, <2>5, <2>6 DEF Manage, S!CloseSubscription, S!Create, S!BecomeDue, S!Update,
       S!Delete, S!Bulk
<1>5. QED BY <1>1, <1>2, <1>4, DocStep DEF Kept

(* 24 hours have passed: what is known of s starts afresh. *)
LEMMA DaySweep ==
  ASSUME SweepInv, NEW s \in S!Subjects, S!DayPasses(s)
  PROVE  SweepInv'
<1>1. /\ \A p \in Sweeps : s \notin S!HeldBy(p)
      /\ doc[s].mark = "recent" /\ doc' = [doc EXCEPT ![s].mark = "old"]
      /\ notices' = [notices EXCEPT ![s] = 0] /\ queued' = [queued EXCEPT ![s] = 0]
      /\ excused' = excused \ {s} /\ UNCHANGED <<due, sweep, req>>
  BY DEF S!DayPasses
<1>2. /\ doc' \in [S!Subjects -> S!Subject] /\ 0 \in 0..MaxNotices
      /\ \A k \in S!Subjects : doc'[k].at = doc[k].at /\ doc'[k].status = doc[k].status
      /\ \A k \in S!Subjects \ {s} : doc'[k] = doc[k]
  BY <1>1, SweepTypes, SweepBounds DEF S!Subject
<1>3. S!TypeOK'
  BY <1>1, <1>2, SweepTypes DEF S!TypeOK
<1>4. PhaseShape'
  <2>1. \A q \in Requests : req[q].on \subseteq S!Subjects
    BY SweepTypes DEF S!Request
  <2>2. QED BY <1>1, <1>2, <2>1 DEF SweepInv, PhaseShape
<1>5. ASSUME NEW k \in S!Subjects
      PROVE  DocShape(k)' /\ Counted(k)' /\ (k \notin excused' => Orderly(k)')
  <2>1. DocShape(k) /\ Counted(k) /\ (k \notin excused => Orderly(k))
    BY DEF SweepInv
  <2>2. Enqueuing(k)' = Enqueuing(k) /\ \A p \in Sweeps : S!HeldBy(p)' = S!HeldBy(p)
    BY <1>1 DEF Enqueuing, S!HeldBy
  <2>3. CASE k = s
    <3>1. notices'[s] = 0 /\ queued'[s] = 0
      BY <1>1, SweepTypes
    <3>2. Enqueuing(s) = {}
      BY <1>1 DEF Enqueuing, S!HeldBy
    <3>3. Counted(k)'
      BY <2>2, <2>3, <3>1, <3>2, FS_EmptySet DEF Counted
    <3>4. DocShape(k)'
      BY <1>2, <2>1, <2>2, <2>3, <3>1 DEF DocShape
    <3>5. Orderly(k)'
      BY <1>1, <2>2, <2>3, <3>1 DEF Orderly, S!HeldBy
    <3>6. QED BY <3>3, <3>4, <3>5
  <2>4. CASE k # s
    <3>1. doc'[k] = doc[k] /\ notices'[k] = notices[k] /\ queued'[k] = queued[k]
      BY <1>1, <1>2, <2>4, SweepTypes
    <3>2. DocShape(k)' /\ Counted(k)'
      BY <2>1, <2>2, <3>1 DEF DocShape, Counted
    <3>3. k \notin excused' => Orderly(k)'
      BY <1>1, <2>1, <2>2, <2>4, <3>1 DEF Orderly
    <3>4. QED BY <3>2, <3>3
  <2>5. QED BY <2>3, <2>4
<1>6. QED BY <1>3, <1>4, <1>5 DEF SweepInv

(* A sweep lets go of what it holds; what it notified of is marked then,   *)
(* or the sweep has failed.                                                *)
LEMMA LetGo ==
  ASSUME SweepInv, NEW p \in Sweeps, NEW v \in S!Sweep, sweep' = [sweep EXCEPT ![p] = v],
         v.found \subseteq sweep[p].found, v.on = {}, v.pc \in {"idle", "next"},
         v.pc = "idle" => v.found = {}, UNCHANGED <<due, notices, queued, req>>,
         doc' \in [S!Subjects -> S!Subject], excused \subseteq excused', excused' \subseteq S!Subjects,
         \A s \in S!Subjects :
           /\ doc'[s].at = doc[s].at /\ doc'[s].status = doc[s].status
           /\ doc'[s].mark = doc[s].mark \/ doc'[s].mark = "recent",
         \A s \in sweep[p].on : s \in excused' \/ doc'[s].mark = "recent"
  PROVE  SweepInv'
<1>1. S!TypeOK'
  BY SweepTypes DEF S!TypeOK
<1>2. sweep'[p] = v /\ \A o \in Sweeps \ {p} : sweep'[o] = sweep[o]
  BY SweepTypes
<1>3. PhaseShape'
  <2>1. \A q \in Requests : req[q].on \subseteq S!Subjects
    BY SweepTypes DEF S!Request
  <2>2. QED BY <1>2, <2>1 DEF SweepInv, PhaseShape
<1>4. ASSUME NEW s \in S!Subjects
      PROVE  DocShape(s)' /\ Counted(s)' /\ (s \notin excused' => Orderly(s)')
  <2>1. DocShape(s) /\ Counted(s) /\ (s \notin excused => Orderly(s)) /\ notices[s] \in 0..MaxNotices
    BY SweepTypes DEF SweepInv
  <2>2. \A o \in Sweeps :
          /\ s \in S!HeldBy(o)' => s \in S!HeldBy(o)
          /\ s \in sweep'[o].found => s \in sweep[o].found
    BY <1>2 DEF S!HeldBy
  <2>7. /\ doc'[s].at = doc[s].at /\ doc'[s].status = doc[s].status
        /\ doc'[s].mark = doc[s].mark \/ doc'[s].mark = "recent"
        /\ notices' = notices
    OBVIOUS
  <2>3. DocShape(s)'
    BY <2>1, <2>2, <2>7 DEF DocShape
  <2>4. Counted(s)'
    <3>1. Enqueuing(s)' \subseteq Enqueuing(s)
      BY <1>2 DEF Enqueuing
    <3>2. /\ IsFiniteSet(Enqueuing(s)') /\ Cardinality(Enqueuing(s)') <= Cardinality(Enqueuing(s))
          /\ Cardinality(Enqueuing(s)) \in Nat /\ Cardinality(Enqueuing(s)') \in Nat
      BY <2>1, <3>1, FS_Subset, FS_CardinalityType DEF Counted
    <3>3. queued[s] \in 0..MaxNotices
      BY SweepTypes
    <3>4. QED BY <2>1, <3>2, <3>3, SweepBounds DEF Counted
  <2>5. ASSUME s \notin excused' PROVE Orderly(s)'
    <3>1. Orderly(s)
      BY <2>1, <2>5
    <3>2. notices[s] > 0 => doc'[s].mark = "recent" \/ \E o \in Sweeps : s \in sweep'[o].on
      BY <1>2, <2>5, <2>7, <3>1 DEF Orderly
    <3>3. QED BY <2>2, <2>7, <3>1, <3>2 DEF Orderly
  <2>6. QED BY <2>3, <2>4, <2>5
<1>5. QED BY <1>1, <1>3, <1>4 DEF SweepInv

LEMMA FindSweep ==
  ASSUME SweepInv, NEW p \in Sweeps, S!Find(p)
  PROVE  SweepInv'
<1>1. PICK found :
        /\ found = {s \in S!Subjects : S!Live(s) /\ doc[s].status = "pending" /\ doc[s].mark # "recent"}
        /\ sweep' = [sweep EXCEPT ![p] = [pc |-> "next", found |-> found, on |-> {}]]
        /\ excused' = excused \cup (found \cap UNION {S!HeldBy(o) : o \in Sweeps})
  BY DEF S!Find
<1>2. PICK v : v = [pc |-> "next", found |-> found, on |-> {}]
  OBVIOUS
<1>3. /\ v \in S!Sweep /\ v.pc = "next" /\ v.found = found /\ v.on = {}
      /\ sweep' = [sweep EXCEPT ![p] = v]
  BY <1>1, <1>2 DEF S!Sweep
<1>4. /\ sweep' \in [Sweeps -> S!Sweep] /\ sweep'[p] = v
      /\ \A o \in Sweeps \ {p} : sweep'[o] = sweep[o]
  BY <1>3, SweepTypes
<1>5. UNCHANGED <<doc, due, notices, queued, req>> /\ sweep[p].on = {} /\ sweep[p].found = {}
  BY DEF S!Find, SweepInv, PhaseShape
<1>6. S!TypeOK'
  BY <1>1, <1>4, <1>5, SweepTypes DEF S!TypeOK
<1>7. PhaseShape'
  BY <1>3, <1>4, <1>5 DEF SweepInv, PhaseShape
<1>8. ASSUME NEW s \in S!Subjects
      PROVE  DocShape(s)' /\ Counted(s)' /\ (s \notin excused' => Orderly(s)')
  <2>1. DocShape(s) /\ Counted(s) /\ (s \notin excused => Orderly(s)) /\ notices[s] \in 0..MaxNotices
    BY SweepTypes DEF SweepInv
  <2>2. /\ \A o \in Sweeps \ {p} : S!HeldBy(o)' = S!HeldBy(o)
        /\ S!HeldBy(p)' = found /\ S!HeldBy(p) = {}
    BY <1>3, <1>4, <1>5 DEF S!HeldBy
  <2>3. DocShape(s)'
    BY <1>1, <1>5, <2>1, <2>2 DEF DocShape, S!Live
  <2>4. Enqueuing(s)' = Enqueuing(s)
    BY <1>3, <1>4, <1>5 DEF Enqueuing
  <2>5. Counted(s)'
    BY <1>5, <2>1, <2>4 DEF Counted
  <2>6. ASSUME s \notin excused' PROVE Orderly(s)'
    <3>1. /\ s \notin excused /\ Orderly(s)
          /\ s \in found => \A o \in Sweeps : s \notin S!HeldBy(o)
      BY <1>1, <2>1, <2>6
    <3>2. s \in found => notices[s] = 0
      <4>1. notices[s] \in Nat
        BY <2>1, SweepBounds
      <4>2. QED BY <1>1, <3>1, <4>1 DEF Orderly, S!HeldBy
    <3>3. \A o \in Sweeps : s \in sweep'[o].found => notices[s] = 0
      BY <1>3, <1>4, <3>1, <3>2 DEF Orderly
    <3>4. \A o \in Sweeps : s \in sweep[o].on => s \in sweep'[o].on
      BY <1>4, <1>5
    <3>5. \A q, o \in Sweeps : s \in S!HeldBy(q)' /\ s \in S!HeldBy(o)' => q = o
      BY <2>2, <3>1 DEF Orderly
    <3>6. QED BY <1>5, <3>1, <3>3, <3>4, <3>5 DEF Orderly
  <2>7. QED BY <2>3, <2>5, <2>6
<1>9. QED BY <1>6, <1>7, <1>8 DEF SweepInv

(* A notice is raised: the sweep still holds s, and will queue a mail.     *)
LEMMA RaiseSweep ==
  ASSUME SweepInv, NEW p \in Sweeps, NEW s \in S!Subjects, S!CreateNotice(p, s),
         S!NoticeType(s) \in S!NotificationTypes
  PROVE  SweepInv'
<1>1. /\ sweep[p].pc = "next" /\ s \in sweep[p].found /\ notices[s] < MaxNotices
      /\ notices' = [notices EXCEPT ![s] = @ + 1]
      /\ sweep' = [sweep EXCEPT ![p] = [pc |-> "enqueue", found |-> @.found \ {s}, on |-> {s}]]
      /\ UNCHANGED <<doc, due, queued, req, excused>>
  BY DEF S!CreateNotice
<1>2. sweep[p].on = {} /\ sweep[p].found \subseteq S!Subjects
  BY <1>1, SweepTypes DEF SweepInv, PhaseShape, S!Sweep
<1>3. PICK v : v = [pc |-> "enqueue", found |-> sweep[p].found \ {s}, on |-> {s}]
  OBVIOUS
<1>4. v \in S!Sweep /\ v.pc = "enqueue" /\ v.found = sweep[p].found \ {s} /\ v.on = {s}
  BY <1>2, <1>3 DEF S!Sweep
<1>5. /\ sweep' \in [Sweeps -> S!Sweep] /\ sweep'[p] = v
      /\ \A o \in Sweeps \ {p} : sweep'[o] = sweep[o]
  <2>1. sweep' = [sweep EXCEPT ![p] = v]
    BY <1>1, <1>3
  <2>2. QED BY <1>4, <2>1, SweepTypes
<1>6. \A o \in Sweeps : S!HeldBy(o)' = S!HeldBy(o)
  BY <1>1, <1>2, <1>4, <1>5 DEF S!HeldBy
<1>7. /\ notices' \in [S!Subjects -> 0..MaxNotices] /\ notices'[s] = notices[s] + 1
      /\ \A k \in S!Subjects \ {s} : notices'[k] = notices[k]
  BY <1>1, SweepTypes, SweepBounds
<1>8. S!TypeOK'
  BY <1>1, <1>5, <1>7, SweepTypes DEF S!TypeOK
<1>9. PhaseShape'
  BY <1>1, <1>4, <1>5 DEF SweepInv, PhaseShape
<1>10. ASSUME NEW k \in S!Subjects
       PROVE  DocShape(k)' /\ Counted(k)' /\ (k \notin excused' => Orderly(k)')
  <2>1. /\ DocShape(k) /\ Counted(k) /\ (k \notin excused => Orderly(k))
        /\ notices[k] \in Nat /\ queued[k] \in Nat
    BY SweepTypes, SweepBounds DEF SweepInv
  <2>2. CASE k = s
    <3>1. Enqueuing(s)' = Enqueuing(s) \cup {p} /\ p \notin Enqueuing(s)
      BY <1>1, <1>4, <1>5 DEF Enqueuing
    <3>2. /\ IsFiniteSet(Enqueuing(s)') /\ Cardinality(Enqueuing(s)') = Cardinality(Enqueuing(s)) + 1
          /\ Cardinality(Enqueuing(s)) \in Nat
      BY <2>1, <2>2, <3>1, FS_AddElement, FS_CardinalityType DEF Counted
    <3>3. Counted(k)'
      BY <1>1, <1>7, <2>1, <2>2, <3>2 DEF Counted
    <3>4. DocShape(k)'
      BY <1>1, <2>1, <2>2 DEF DocShape, S!HeldBy
    <3>5. ASSUME k \notin excused' PROVE Orderly(k)'
      <4>1. Orderly(s) /\ notices[s] = 0 /\ s \in S!HeldBy(p)
        BY <1>1, <2>1, <2>2, <3>5 DEF Orderly, S!HeldBy
      <4>2. \A o \in Sweeps : s \notin sweep'[o].found
        BY <1>4, <1>5, <4>1 DEF Orderly, S!HeldBy
      <4>3. s \in sweep'[p].on
        BY <1>4, <1>5
      <4>4. QED BY <1>6, <1>7, <2>2, <4>1, <4>2, <4>3 DEF Orderly
    <3>6. QED BY <3>3, <3>4, <3>5
  <2>3. CASE k # s
    <3>1. Enqueuing(k)' = Enqueuing(k) /\ notices'[k] = notices[k]
      BY <1>1, <1>2, <1>4, <1>5, <1>7, <2>3 DEF Enqueuing
    <3>2. Counted(k)' /\ DocShape(k)'
      BY <1>1, <1>6, <2>1, <3>1 DEF Counted, DocShape
    <3>3. ASSUME k \notin excused' PROVE Orderly(k)'
      <4>1. \A o \in Sweeps :
              /\ k \in sweep'[o].found => k \in sweep[o].found
              /\ k \in sweep[o].on => k \in sweep'[o].on
        BY <1>2, <1>4, <1>5
      <4>2. QED BY <1>1, <1>6, <2>1, <3>1, <3>3, <4>1 DEF Orderly
    <3>4. QED BY <3>2, <3>3
  <2>4. QED BY <2>2, <2>3
<1>11. QED BY <1>8, <1>9, <1>10 DEF SweepInv

LEMMA EnqueueSweep ==
  ASSUME SweepInv, NEW p \in Sweeps, S!Enqueue(p)
  PROVE  SweepInv'
<1>1. /\ sweep[p].pc = "enqueue" /\ S!Goto(p, "mark")
      /\ queued' = [s \in S!Subjects |-> IF s \in sweep[p].on THEN queued[s] + 1 ELSE queued[s]]
      /\ UNCHANGED <<doc, due, notices, req, excused>>
  BY DEF S!Enqueue
<1>2. /\ sweep' \in [Sweeps -> S!Sweep] /\ sweep'[p].pc = "mark"
      /\ \A o \in Sweeps : sweep'[o].found = sweep[o].found /\ sweep'[o].on = sweep[o].on
      /\ \A o \in Sweeps \ {p} : sweep'[o] = sweep[o]
  BY <1>1, SweepTypes DEF S!Goto, S!Sweep
<1>3. \A o \in Sweeps : S!HeldBy(o)' = S!HeldBy(o)
  BY <1>2 DEF S!HeldBy
<1>4. ASSUME NEW s \in S!Subjects
      PROVE  /\ IsFiniteSet(Enqueuing(s)') /\ Cardinality(Enqueuing(s)') \in Nat
             /\ queued'[s] \in Nat /\ queued'[s] + Cardinality(Enqueuing(s)') <= notices[s]
  <2>1. Counted(s) /\ notices[s] \in Nat /\ queued[s] \in Nat
    BY SweepTypes, SweepBounds DEF SweepInv
  <2>2. Enqueuing(s)' = Enqueuing(s) \ {p} /\ (p \in Enqueuing(s) <=> s \in sweep[p].on)
    BY <1>1, <1>2 DEF Enqueuing
  <2>3. /\ IsFiniteSet(Enqueuing(s)') /\ Cardinality(Enqueuing(s)') \in Nat
        /\ Cardinality(Enqueuing(s)) \in Nat
        /\ Cardinality(Enqueuing(s)') = IF p \in Enqueuing(s) THEN Cardinality(Enqueuing(s)) - 1
                                        ELSE Cardinality(Enqueuing(s))
    BY <2>1, <2>2, FS_RemoveElement, FS_CardinalityType DEF Counted
  <2>4. queued'[s] = IF s \in sweep[p].on THEN queued[s] + 1 ELSE queued[s]
    BY <1>1
  <2>5. queued[s] + Cardinality(Enqueuing(s)) <= notices[s]
    BY <2>1 DEF Counted
  <2>6. CASE s \in sweep[p].on
    BY <2>1, <2>2, <2>3, <2>4, <2>5, <2>6
  <2>7. CASE s \notin sweep[p].on
    BY <2>1, <2>2, <2>3, <2>4, <2>5, <2>7
  <2>8. QED BY <2>6, <2>7
<1>5. queued' \in [S!Subjects -> 0..MaxNotices]
  <2>1. ASSUME NEW s \in S!Subjects PROVE queued'[s] \in 0..MaxNotices
    BY <1>4, SweepTypes, SweepBounds
  <2>2. QED BY <1>1, <2>1
<1>6. S!TypeOK'
  BY <1>1, <1>2, <1>5, SweepTypes DEF S!TypeOK
<1>7. PhaseShape'
  BY <1>1, <1>2 DEF SweepInv, PhaseShape
<1>8. ASSUME NEW s \in S!Subjects
      PROVE  DocShape(s)' /\ Counted(s)' /\ (s \notin excused' => Orderly(s)')
  <2>1. DocShape(s) /\ (s \notin excused => Orderly(s))
    BY DEF SweepInv
  <2>2. DocShape(s)' /\ Counted(s)'
    BY <1>1, <1>3, <1>4, <2>1 DEF DocShape, Counted
  <2>3. s \notin excused' => Orderly(s)'
    BY <1>1, <1>2, <1>3, <2>1 DEF Orderly
  <2>4. QED BY <2>2, <2>3
<1>9. QED BY <1>6, <1>7, <1>8 DEF SweepInv

LEMMA LetGoSweep ==
  ASSUME SweepInv, NEW p \in Sweeps,
         \/ S!Finish(p) \/ S!SaveMark(p) \/ S!SweepFails(p) \/ S!SweepDies(p)
         \/ \E s \in S!Subjects :
              \/ S!Skip(p, s)
              \/ S!CreateNotice(p, s) /\ S!NoticeType(s) \notin S!NotificationTypes
  PROVE  SweepInv' /\ \A s \in S!Subjects : doc'[s].status = doc[s].status
<1>1. sweep[p] \in S!Sweep /\ (sweep[p].pc = "next" => sweep[p].on = {})
  BY SweepTypes DEF SweepInv, PhaseShape
<1> DEFINE Same == /\ doc' \in [S!Subjects -> S!Subject]
                   /\ \A s \in S!Subjects :
                        /\ doc'[s].at = doc[s].at /\ doc'[s].status = doc[s].status
                        /\ doc'[s].mark = doc[s].mark \/ doc'[s].mark = "recent"
<1>2. UNCHANGED doc => Same
  BY SweepTypes
<1>3. CASE S!Finish(p) \/ S!SweepDies(p)
  <2>1. /\ sweep' = [sweep EXCEPT ![p] = S!Resting] /\ UNCHANGED <<doc, due, notices, queued, req>>
        /\ excused' = excused \cup sweep[p].on
    BY <1>1, <1>3 DEF S!Finish, S!SweepDies
  <2>2. PICK v : v = S!Resting
    OBVIOUS
  <2>3. v \in S!Sweep /\ v.pc = "idle" /\ v.found = {} /\ v.on = {}
    BY <2>2 DEF S!Resting, S!Sweep
  <2>4. sweep' = [sweep EXCEPT ![p] = v]
    BY <2>1, <2>2
  <2>5. excused \subseteq excused' /\ excused' \subseteq S!Subjects
        /\ \A s \in sweep[p].on : s \in excused'
    BY <1>1, <2>1, SweepTypes DEF S!Sweep
  <2>6. Same
    BY <1>2, <2>1
  <2>7. QED BY <2>1, <2>3, <2>4, <2>5, <2>6, LetGo
<1>4. ASSUME S!SaveMark(p) \/ S!SweepFails(p)
      PROVE  SweepInv' /\ \A s \in S!Subjects : doc'[s].status = doc[s].status
  <2>1. S!Proceed(p) /\ UNCHANGED <<due, notices, queued, req>> /\ sweep[p].on \subseteq S!Subjects
    BY <1>1, <1>4 DEF S!SaveMark, S!SweepFails, S!GiveUp, S!Sweep
  <2>2. PICK v : v = sweep'[p]
    OBVIOUS
  <2>3. /\ v \in S!Sweep /\ v.pc = "next" /\ v.found = sweep[p].found /\ v.on = {}
        /\ sweep' = [sweep EXCEPT ![p] = v]
    BY <2>1, <2>2, SweepTypes DEF S!Proceed, S!Sweep
  <2>4. CASE S!SweepFails(p)
    <3>1. excused' = excused \cup sweep[p].on /\ UNCHANGED doc
      BY <2>4 DEF S!SweepFails, S!GiveUp
    <3>2. excused \subseteq excused' /\ excused' \subseteq S!Subjects
          /\ \A s \in sweep[p].on : s \in excused'
      BY <2>1, <3>1, SweepTypes
    <3>3. Same
      BY <1>2, <3>1
    <3>4. QED BY <2>1, <2>3, <3>2, <3>3, LetGo
  <2>5. CASE S!SaveMark(p)
    <3>1. doc' = [s \in S!Subjects |-> IF s \in sweep[p].on THEN [doc[s] EXCEPT !.mark = "recent"]
                                                            ELSE doc[s]]
          /\ UNCHANGED excused
      BY <2>5 DEF S!SaveMark
    <3>2. ASSUME NEW s \in S!Subjects
          PROVE  /\ doc'[s] \in S!Subject
                 /\ doc'[s].at = doc[s].at /\ doc'[s].status = doc[s].status
                 /\ doc'[s].mark = doc[s].mark \/ doc'[s].mark = "recent"
                 /\ s \in sweep[p].on => doc'[s].mark = "recent"
      BY <3>1, SweepTypes DEF S!Subject
    <3>3. Same
      BY <3>1, <3>2
    <3>4. excused \subseteq excused' /\ excused' \subseteq S!Subjects
          /\ \A s \in sweep[p].on : doc'[s].mark = "recent"
      BY <2>1, <3>1, <3>2, SweepTypes
    <3>5. QED BY <2>1, <2>3, <3>3, <3>4, LetGo
  <2>6. QED BY <1>4, <2>4, <2>5
<1>5. ASSUME NEW s \in S!Subjects,
             \/ S!Skip(p, s)
             \/ S!CreateNotice(p, s) /\ S!NoticeType(s) \notin S!NotificationTypes
      PROVE  SweepInv' /\ \A k \in S!Subjects : doc'[k].status = doc[k].status
  <2>1. /\ sweep' = [sweep EXCEPT ![p].found = @ \ {s}] /\ sweep[p].pc = "next"
        /\ UNCHANGED <<doc, due, notices, queued, req, excused>>
    BY <1>5 DEF S!Skip, S!CreateNotice
  <2>2. PICK v : v = sweep'[p]
    OBVIOUS
  <2>3. /\ v \in S!Sweep /\ v.pc = "next" /\ v.found = sweep[p].found \ {s} /\ v.on = sweep[p].on
        /\ sweep' = [sweep EXCEPT ![p] = v]
    BY <2>1, <2>2, SweepTypes DEF S!Sweep
  <2>4. Same
    BY <1>2, <2>1
  <2>5. excused \subseteq excused' /\ excused' \subseteq S!Subjects /\ sweep[p].on = {}
    BY <1>1, <2>1, SweepTypes
  <2>6. QED BY <2>1, <2>3, <2>4, <2>5, LetGo
<1>6. QED BY <1>3, <1>4, <1>5

LEMMA NextSweep == SweepInv /\ S!Next => SweepInv' /\ Closed
<1> SUFFICES ASSUME SweepInv, S!Next PROVE SweepInv' /\ Closed
  OBVIOUS
<1>1. CASE Manage
  BY <1>1, ManageDocs, ManageSweep
<1>2. ASSUME \A s \in S!Subjects : doc'[s].status = doc[s].status PROVE Closed
  BY <1>2 DEF Closed
<1>3. ASSUME NEW s \in S!Subjects, S!DayPasses(s) PROVE SweepInv' /\ Closed
  <2>1. doc' = [doc EXCEPT ![s].mark = "old"]
    BY <1>3 DEF S!DayPasses
  <2>2. \A k \in S!Subjects : doc'[k].status = doc[k].status
    BY <2>1, SweepTypes DEF S!Subject
  <2>3. QED BY <1>2, <1>3, <2>2, DaySweep
<1>4. ASSUME NEW p \in Sweeps, S!Find(p) \/ S!SweepStep(p) \/ S!SweepFails(p) \/ S!SweepDies(p)
      PROVE  SweepInv' /\ Closed
  <2>1. CASE S!Find(p)
    <3>1. UNCHANGED doc
      BY <2>1 DEF S!Find
    <3>2. QED BY <1>2, <2>1, <3>1, FindSweep
  <2>2. CASE S!Enqueue(p)
    <3>1. UNCHANGED doc
      BY <2>2 DEF S!Enqueue
    <3>2. QED BY <1>2, <2>2, <3>1, EnqueueSweep
  <2>3. ASSUME NEW s \in S!Subjects, S!CreateNotice(p, s), S!NoticeType(s) \in S!NotificationTypes
        PROVE  SweepInv' /\ Closed
    <3>1. UNCHANGED doc
      BY <2>3 DEF S!CreateNotice
    <3>2. QED BY <1>2, <2>3, <3>1, RaiseSweep
  <2>4. CASE \/ S!Finish(p) \/ S!SaveMark(p) \/ S!SweepFails(p) \/ S!SweepDies(p)
             \/ \E s \in S!Subjects :
                  \/ S!Skip(p, s)
                  \/ S!CreateNotice(p, s) /\ S!NoticeType(s) \notin S!NotificationTypes
    BY <1>2, <2>4, LetGoSweep
  <2>5. QED BY <1>4, <2>1, <2>2, <2>3, <2>4 DEF S!SweepStep
<1>5. QED BY <1>1, <1>3, <1>4 DEF S!Next, Manage

-----------------------------------------------------------------------------
(* Both parts *)

NoticesInv ==
  /\ DeliveryInv /\ SweepInv
  /\ part \in {"delivery", "reminders", "subscriptions"}

LEMMA InitNotices == Init => NoticesInv
  BY InitDelivery, InitSweep DEF Init, NoticesInv

LEMMA DeliveryStutters == DeliveryInv /\ UNCHANGED deliveryVars => DeliveryInv'
<1> SUFFICES ASSUME DeliveryInv, UNCHANGED deliveryVars PROVE DeliveryInv'
  OBVIOUS
<1>1. UNCHANGED <<note, mailJob, waJob, reader, optedOut, mails, stumbled>>
  BY DEF deliveryVars
<1>2. QED BY <1>1 DEF DeliveryInv, D!TypeOK, MailShape, NoteShape, MirrorShape

LEMMA SweepStutters == SweepInv /\ UNCHANGED sweepVars => SweepInv'
<1> SUFFICES ASSUME SweepInv, UNCHANGED sweepVars PROVE SweepInv'
  OBVIOUS
<1>1. UNCHANGED <<doc, due, notices, queued, sweep, req, excused>>
  BY DEF sweepVars
<1>2. S!TypeOK' /\ PhaseShape'
  BY <1>1 DEF SweepInv, S!TypeOK, PhaseShape
<1>3. ASSUME NEW s \in S!Subjects
      PROVE  DocShape(s)' /\ Counted(s)' /\ (s \notin excused' => Orderly(s)')
  <2>1. DocShape(s) /\ Counted(s) /\ (s \notin excused => Orderly(s))
    BY DEF SweepInv
  <2>2. QED BY <1>1, <2>1 DEF DocShape, Counted, Orderly, Enqueuing, S!HeldBy
<1>4. QED BY <1>2, <1>3 DEF SweepInv

LEMMA NextNotices == NoticesInv /\ [Next]_vars => NoticesInv'
<1> SUFFICES ASSUME NoticesInv, [Next]_vars PROVE NoticesInv'
  OBVIOUS
<1>1. CASE D!Next /\ UNCHANGED <<sweepVars, part>>
  BY <1>1, NextDelivery, SweepStutters DEF NoticesInv
<1>2. CASE S!Next /\ UNCHANGED <<deliveryVars, part>>
  BY <1>2, NextSweep, DeliveryStutters DEF NoticesInv
<1>3. CASE UNCHANGED vars
  <2>1. UNCHANGED deliveryVars /\ UNCHANGED sweepVars /\ UNCHANGED part
    BY <1>3 DEF vars
  <2>2. QED BY <2>1, SweepStutters, DeliveryStutters DEF NoticesInv
<1>4. QED BY <1>1, <1>2, <1>3 DEF Next

(* In every reachable state each variable holds a value of its type: no    *)
(* job is tried more often than its queue allows, and no more mails are    *)
(* queued for a subject than notices were raised.                          *)
THEOREM TypeCorrect == Spec => []TypeOK
<1>1. NoticesInv => TypeOK
  BY DEF NoticesInv, DeliveryInv, SweepInv, TypeOK
<1>2. QED BY <1>1, InitNotices, NextNotices, PTL DEF Spec

(* markAsSent() runs after the provider has accepted the mail and never    *)
(* before, and the queue tries again only what has failed: whatever        *)
(* reading, deleting and failing comes in between, "sent" is the truth and *)
(* a second mail has its excuse.                                           *)
THEOREM SentIsMailed == Spec => []SentMeansMailed
<1>1. NoticesInv => SentMeansMailed
  BY DEF NoticesInv, DeliveryInv, SentMeansMailed, D!SentMeansMailed, MailShape, NoteShape
<1>2. QED BY <1>1, InitNotices, NextNotices, PTL DEF Spec

(* The sweep marks what it has notified of before it goes on, so another   *)
(* sweep of any process finds nothing to do for 24 hours.                  *)
THEOREM NotifiedOnce == Spec => []OneNoticeADay
<1>1. ASSUME NoticesInv PROVE OneNoticeADay
  <2>1. ASSUME NEW s \in S!Subjects, s \notin excused PROVE ~(notices[s] > 1)
    <3>1. Orderly(s) /\ notices[s] \in 0..MaxNotices
      BY <1>1, <2>1, SweepTypes DEF NoticesInv, SweepInv
    <3>2. QED BY <3>1, SweepBounds DEF Orderly
  <2>2. QED BY <2>1 DEF OneNoticeADay, S!OneNoticeADay
<1>2. QED BY <1>1, InitNotices, NextNotices, PTL DEF Spec

(* save() writes only the paths that have changed, so the copy a job holds *)
(* never brings back the status a notice had before it was read.           *)
THEOREM ReadStays == Spec => ReadIsKept
<1> DEFINE Kept1 ==
  \A n \in Notices :
    note[n].status = "read" /\ mailJob[n].pc = "none" /\ note'[n].at # "purged"
      => note'[n].status = "read"
<1>1. NoticesInv /\ [Next]_vars => [Kept1]_(D!vars)
  <2> SUFFICES ASSUME NoticesInv, [Next]_vars PROVE Kept1 \/ UNCHANGED D!vars
    OBVIOUS
  <2>1. CASE D!Next
    BY <2>1, ReadStep DEF NoticesInv
  <2>2. CASE UNCHANGED deliveryVars
    BY <2>2 DEF deliveryVars, D!vars, D!history
  <2>3. QED BY <2>1, <2>2 DEF Next, vars
<1>2. QED BY <1>1, InitNotices, NextNotices, PTL DEF Spec, ReadIsKept, D!ReadIsKept

(* A sweep or a request may save long after it has loaded; none of them    *)
(* makes pending again what was completed or cancelled.                    *)
THEOREM ClosedStays == Spec => ClosedStaysClosed
<1>1. NoticesInv /\ [Next]_vars => [Closed]_(S!vars)
  <2> SUFFICES ASSUME NoticesInv, [Next]_vars PROVE Closed \/ UNCHANGED S!vars
    OBVIOUS
  <2>1. CASE S!Next
    BY <2>1, NextSweep DEF NoticesInv
  <2>2. CASE UNCHANGED sweepVars
    BY <2>2 DEF sweepVars, S!vars
  <2>3. QED BY <2>1, <2>2 DEF Next, vars
<1>2. QED BY <1>1, InitNotices, NextNotices, PTL DEF Spec, ClosedStaysClosed, S!ClosedStaysClosed, Closed
=============================================================================
