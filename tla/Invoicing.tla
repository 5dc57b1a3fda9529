------------------------------ MODULE Invoicing ------------------------------
(***************************************************************************)
(* The invoices of one job and the payments of one customer: invoice       *)
(* documents of src/services/invoice.service.ts and src/models/Invoice.ts, *)
(* payment orders, the one-time payment webhooks of billing.service.ts,    *)
(* the daily overdue sweep and the e-mail job that stores the PDF.         *)
(*                                                                         *)
(* Each handler loads a document, awaits, and saves it: save() writes the  *)
(* fields that differ from what was loaded, after the pre-save hook has    *)
(* turned an open invoice past its due date into an overdue one.           *)
(***************************************************************************)
EXTENDS Integers, FiniteSets, FiniteSetsExt

CONSTANTS
  Invoices,     \* invoice documents that may be created
  Payments,     \* payment documents, each with its order at the gateway
  Requests,     \* slots for concurrent handlers
  Totals,       \* values of totalAmount
  Operations,   \* the handlers this instance exercises
  MaxInFlight,  \* handlers in progress at once
  MaxNumber,    \* bound on the numbers drawn, in the guards of RoomForInvoice
  MayDecline,   \* whether the gateway may decline an attempt on an order
  MayFail,      \* whether a database call may fail or the process die
  None

ASSUME InvoicingConstants ==
  /\ Totals \subseteq Nat \ {0}
  /\ \A t \in Totals : t % 10 = 0
  /\ {MaxInFlight, MaxNumber} \subseteq Nat
  /\ {MayDecline, MayFail} \subseteq BOOLEAN
  /\ None \notin Invoices \cup Payments

VARIABLES
  invoice,   \* the Invoice collection
  pastDue,   \* the invoices whose due date has passed
  counter,   \* the Counter document of the year
  mail,      \* invoices with an invoice_email job in the queue
  notices,   \* overdue notifications created for each invoice
  payment,   \* the Payment collection
  captured,  \* orders the gateway has captured
  declined,  \* orders with an attempt the gateway has declined
  req        \* the handlers in progress

external == <<pastDue, captured, declined>>
vars == <<invoice, counter, mail, notices, payment, external, req>>

-----------------------------------------------------------------------------
(* Types *)

Open     == {"sent", "viewed", "partially_paid"}
NonVoid  == Open \cup {"draft", "paid", "overdue"}
Statuses == NonVoid \cup {"void", "cancelled"}

Invoice == [status : Statuses \cup {"absent"}, number : Nat, total : Nat,
            paid : Nat, due : Nat, forJob : BOOLEAN]
Payment == [status : {"absent", "pending", "completed", "failed"},
            invoice : Invoices \cup {None}, order : Nat, total : Nat]

PCs == {"idle", "number", "insert", "reload", "send", "void", "order", "complete",
        "credit", "record", "fail", "sweep", "notice", "pdf", "mailed"}

Request == [pc : PCs, inv : Invoices \cup {None}, pay : Payments \cup {None},
            doc : Invoice, number : Nat, forJob : BOOLEAN, list : SUBSET Invoices]

NoInvoice == [status |-> "absent", number |-> 0, total |-> 0, paid |-> 0, due |-> 0,
              forJob |-> FALSE]
NoPayment == [status |-> "absent", invoice |-> None, order |-> 0, total |-> 0]
Idle      == [pc |-> "idle", inv |-> None, pay |-> None, doc |-> NoInvoice,
              number |-> 0, forJob |-> FALSE, list |-> {}]

TypeOK ==
  /\ invoice \in [Invoices -> Invoice]
  /\ pastDue \subseteq Invoices
  /\ counter \in Nat
  /\ mail \subseteq Invoices
  /\ notices \in [Invoices -> Nat]
  /\ payment \in [Payments -> Payment]
  /\ captured \subseteq Payments /\ declined \subseteq Payments
  /\ req \in [Requests -> Request]

-----------------------------------------------------------------------------
(* Helpers *)

Exists(i) == invoice[i].status # "absent"

Answer(q) == req' = [req EXCEPT ![q] = Idle]

InFlight == {q \in Requests : req[q].pc # "idle"}

Admit(q, op) ==
  /\ req[q].pc = "idle"
  /\ op \in Operations
  /\ Cardinality(InFlight) < MaxInFlight

(* The bounds: no handler starts that would run out of ids half-way. *)
RoomForInvoice ==
  LET creating == Cardinality({q \in Requests : req[q].pc \in {"number", "insert"}})
  IN  /\ creating + Cardinality({i \in Invoices : Exists(i)}) < Cardinality(Invoices)
      /\ creating + counter < MaxNumber

RoomForPayment ==
  Cardinality({q \in Requests : req[q].pc = "order"})
    < Cardinality({p \in Payments : payment[p].status = "absent"})

(* Mutant of Hooked: a paid invoice becomes overdue too. *)
HookedWhenPaid(i, status) ==
  IF status \in Open \cup {"paid"} /\ i \in pastDue THEN "overdue" ELSE status

(* The pre-save hook. *)
Hooked(i, status) == IF status \in Open /\ i \in pastDue THEN "overdue" ELSE status

(* save() of a document loaded with `old` and changed to `new`: only what  *)
(* differs is written, over whatever is stored by now.                     *)
Merged(stored, old, new) == IF new = old THEN stored ELSE new

SaveStatus(q, status) ==
  LET i == req[q].inv
  IN  invoice' = [invoice EXCEPT ![i].status = Merged(@, req[q].doc.status, Hooked(i, status))]

(* The handler of `op` loads invoice i and waits for the reply. *)
Load(q, i, pc) == req' = [req EXCEPT ![q] = [Idle EXCEPT !.pc = pc, !.inv = i, !.doc = invoice[i]]]

(* paymentService.create(): a tax of 0 counts as none given, and 10% is added. *)
Charged(amount) == amount + (amount \div 10)

(* Mutant of Due: not clamped at zero. *)
DueUnclamped(total, paid) == total - paid

Due(total, paid) == IF paid >= total THEN 0 ELSE total - paid

-----------------------------------------------------------------------------
Init ==
  /\ invoice = [i \in Invoices |-> NoInvoice]
  /\ pastDue = {} /\ captured = {} /\ declined = {}
  /\ counter = 0
  /\ mail = {}
  /\ notices = [i \in Invoices |-> 0]
  /\ payment = [p \in Payments |-> NoPayment]
  /\ req = [q \in Requests |-> Idle]

-----------------------------------------------------------------------------
(* Mutant of FindExisting: the job is not looked up. *)
FindNothing(q) ==
  /\ Admit(q, "generate") /\ RoomForInvoice
  /\ req' = [req EXCEPT ![q] = [Idle EXCEPT !.pc = "number", !.forJob = TRUE]]
  /\ UNCHANGED <<invoice, counter, mail, notices, payment, external>>

(* generateForServiceRecord(): refused when the job has an invoice that is *)
(* not void, ...                                                           *)
FindExisting(q) ==
  /\ Admit(q, "generate") /\ RoomForInvoice
  /\ \A i \in Invoices : invoice[i].forJob => invoice[i].status \notin NonVoid
  /\ req' = [req EXCEPT ![q] = [Idle EXCEPT !.pc = "number", !.forJob = TRUE]]
  /\ UNCHANGED <<invoice, counter, mail, notices, payment, external>>

(* POST /invoices: an invoice that is not of this job. *)
CreateDraft(q) ==
  /\ Admit(q, "create") /\ RoomForInvoice
  /\ req' = [req EXCEPT ![q] = [Idle EXCEPT !.pc = "number"]]
  /\ UNCHANGED <<invoice, counter, mail, notices, payment, external>>

(* Mutant of NextNumber: countDocuments() instead of the counter. *)
NumberByCount(q) ==
  /\ req[q].pc = "number"
  /\ req' = [req EXCEPT ![q].pc = "insert",
                        ![q].number = Cardinality({i \in Invoices : Exists(i)}) + 1]
  /\ UNCHANGED <<invoice, counter, mail, notices, payment, external>>

(* ... Counter.next(), an atomic increment, ...                            *)
NextNumber(q) ==
  /\ req[q].pc = "number"
  /\ counter' = counter + 1
  /\ req' = [req EXCEPT ![q].pc = "insert", ![q].number = counter + 1]
  /\ UNCHANGED <<invoice, mail, notices, payment, external>>

(* ... the insert as a draft, after which a job's invoice is sent.         *)
InsertInvoice(q) ==
  /\ req[q].pc = "insert"
  /\ \E i \in Invoices, t \in Totals :
       /\ ~Exists(i)
       /\ invoice' = [invoice EXCEPT ![i] =
                       [status |-> "draft", number |-> req[q].number, total |-> t,
                        paid |-> 0, due |-> t, forJob |-> req[q].forJob]]
       /\ IF req[q].forJob
            THEN req' = [req EXCEPT ![q].pc = "reload", ![q].inv = i]
            ELSE Answer(q)
  /\ UNCHANGED <<counter, mail, notices, payment, external>>

Reload(q) ==
  /\ req[q].pc = "reload"
  /\ Load(q, req[q].inv, "send")
  /\ UNCHANGED <<invoice, counter, mail, notices, payment, external>>

(* markAsSent(): a draft becomes sent, and the e-mail is queued again for  *)
(* any other.                                                              *)
LoadToSend(q) ==
  /\ Admit(q, "send")
  /\ \E i \in Invoices : Exists(i) /\ Load(q, i, "send")
  /\ UNCHANGED <<invoice, counter, mail, notices, payment, external>>

SaveSent(q) ==
  /\ req[q].pc = "send"
  /\ SaveStatus(q, IF req[q].doc.status = "draft" THEN "sent" ELSE req[q].doc.status)
  /\ mail' = mail \cup {req[q].inv} \/ (MayFail /\ UNCHANGED mail)
  /\ Answer(q)
  /\ UNCHANGED <<counter, notices, payment, external>>

(* void(): from any status. *)
LoadToVoid(q) ==
  /\ Admit(q, "void")
  /\ \E i \in Invoices : Exists(i) /\ Load(q, i, "void")
  /\ UNCHANGED <<invoice, counter, mail, notices, payment, external>>

SaveVoid(q) ==
  /\ req[q].pc = "void"
  /\ SaveStatus(q, "void")
  /\ Answer(q)
  /\ UNCHANGED <<counter, mail, notices, payment, external>>

-----------------------------------------------------------------------------
(* createPaymentOrder(): an order for the balance, whatever the status, ... *)
LoadToPay(q) ==
  /\ Admit(q, "pay") /\ RoomForPayment
  /\ \E i \in Invoices : Exists(i) /\ invoice[i].due > 0 /\ Load(q, i, "order")
  /\ UNCHANGED <<invoice, counter, mail, notices, payment, external>>

(* ... and its pending Payment. *)
InsertPayment(q) ==
  /\ req[q].pc = "order"
  /\ \E p \in Payments :
       /\ payment[p].status = "absent"
       /\ payment' = [payment EXCEPT ![p] =
                       [status |-> "pending", invoice |-> req[q].inv,
                        order |-> req[q].doc.due, total |-> Charged(req[q].doc.due)]]
  /\ Answer(q)
  /\ UNCHANGED <<invoice, counter, mail, notices, external>>

(* The gateway: attempts on an order are declined until one is captured.   *)
Capture(p) ==
  /\ payment[p].status # "absent"
  /\ captured' = captured \cup {p}
  /\ UNCHANGED <<invoice, counter, mail, notices, payment, pastDue, declined, req>>

Decline(p) ==
  /\ MayDecline
  /\ payment[p].status # "absent"
  /\ p \notin captured
  /\ declined' = declined \cup {p}
  /\ UNCHANGED <<invoice, counter, mail, notices, payment, pastDue, captured, req>>

(* Mutant of FindPending: a payment is found by its order alone. *)
FindByOrder(q, p) ==
  /\ Admit(q, "webhook")
  /\ p \in captured
  /\ req' = [req EXCEPT ![q] = [Idle EXCEPT !.pc = "complete", !.pay = p]]
  /\ UNCHANGED <<invoice, counter, mail, notices, payment, external>>

(* handlePaymentCaptured(), delivered any number of times: the pending     *)
(* Payment of the order, ...                                               *)
FindPending(q, p) ==
  /\ Admit(q, "webhook")
  /\ p \in captured
  /\ payment[p].status = "pending"
  /\ req' = [req EXCEPT ![q] = [Idle EXCEPT !.pc = "complete", !.pay = p]]
  /\ UNCHANGED <<invoice, counter, mail, notices, payment, external>>

(* Mutant of CompletePayment: the invoice is forgotten. *)
CompleteOnly(q) ==
  /\ req[q].pc = "complete"
  /\ payment' = [payment EXCEPT ![req[q].pay].status = "completed"]
  /\ Answer(q)
  /\ UNCHANGED <<invoice, counter, mail, notices, external>>

(* ... is completed, ... *)
CompletePayment(q) ==
  /\ req[q].pc = "complete"
  /\ payment' = [payment EXCEPT ![req[q].pay].status = "completed"]
  /\ req' = [req EXCEPT ![q].pc = "credit"]
  /\ UNCHANGED <<invoice, counter, mail, notices, external>>

(* ... its invoice loaded, and the amount added to what was loaded.        *)
LoadToCredit(q) ==
  /\ req[q].pc = "credit"
  /\ LET i == payment[req[q].pay].invoice
     IN  req' = [req EXCEPT ![q].pc = "record", ![q].inv = i, ![q].doc = invoice[i]]
  /\ UNCHANGED <<invoice, counter, mail, notices, payment, external>>

RecordPayment(q) ==
  /\ req[q].pc = "record"
  /\ LET i    == req[q].inv
         doc  == req[q].doc
         paid == doc.paid + payment[req[q].pay].total
         due  == Due(doc.total, paid)
     IN  invoice' = [invoice EXCEPT
           ![i].paid   = paid,
           ![i].due    = Merged(@, doc.due, due),
           ![i].status = Merged(@, doc.status,
                                Hooked(i, IF due = 0 THEN "paid" ELSE "partially_paid"))]
  /\ Answer(q)
  /\ UNCHANGED <<counter, mail, notices, payment, external>>

(* handlePaymentFailed() for an attempt on an order: a later attempt has   *)
(* another payment id, so the Payment is found by order and pending status. *)
FindDeclined(q, p) ==
  /\ Admit(q, "webhook")
  /\ p \in declined
  /\ payment[p].status = "pending"
  /\ req' = [req EXCEPT ![q] = [Idle EXCEPT !.pc = "fail", !.pay = p]]
  /\ UNCHANGED <<invoice, counter, mail, notices, payment, external>>

FailPayment(q) ==
  /\ req[q].pc = "fail"
  /\ payment' = [payment EXCEPT ![req[q].pay].status = "failed"]
  /\ Answer(q)
  /\ UNCHANGED <<invoice, counter, mail, notices, external>>

-----------------------------------------------------------------------------
DueDatePasses(i) ==
  /\ Exists(i)
  /\ pastDue' = pastDue \cup {i}
  /\ UNCHANGED <<invoice, counter, mail, notices, payment, captured, declined, req>>

(* Mutant of FindOverdue: every unpaid invoice past its date. *)
FindUnpaid(q) ==
  /\ Admit(q, "sweep")
  /\ LET found == {i \in pastDue : invoice[i].status \in Open \cup {"overdue"}}
     IN  /\ found # {}
         /\ req' = [req EXCEPT ![q] = [Idle EXCEPT !.pc = "sweep", !.list = found]]
  /\ UNCHANGED <<invoice, counter, mail, notices, payment, external>>

(* markOverdueInvoices(): one query, ... *)
FindOverdue(q) ==
  /\ Admit(q, "sweep")
  /\ LET found == {i \in pastDue : invoice[i].status \in Open}
     IN  /\ found # {}
         /\ req' = [req EXCEPT ![q] = [Idle EXCEPT !.pc = "sweep", !.list = found]]
  /\ UNCHANGED <<invoice, counter, mail, notices, payment, external>>

(* ... then each invoice found: its status as the query left it was open,  *)
(* so "overdue" is written in any case, ...                                *)
MarkOverdue(q) ==
  /\ req[q].pc = "sweep"
  /\ \E i \in req[q].list :
       /\ invoice' = [invoice EXCEPT ![i].status = "overdue"]
       /\ req' = [req EXCEPT ![q].pc = "notice", ![q].inv = i, ![q].list = @ \ {i}]
  /\ UNCHANGED <<counter, mail, notices, payment, external>>

NextInSweep(q) ==
  IF req[q].list = {} THEN Answer(q) ELSE req' = [req EXCEPT ![q].pc = "sweep"]

(* ... and its notification created and queued. *)
SendNotice(q) ==
  /\ req[q].pc = "notice"
  /\ notices' = [notices EXCEPT ![req[q].inv] = @ + 1]
  /\ NextInSweep(q)
  /\ UNCHANGED <<invoice, counter, mail, payment, external>>

(* An error is logged and the sweep goes on with the next invoice. *)
NoticeFails(q) ==
  /\ MayFail
  /\ req[q].pc = "notice"
  /\ NextInSweep(q)
  /\ UNCHANGED <<invoice, counter, mail, notices, payment, external>>

(* The invoice_email job, run as often as the queue runs it: generatePdf() *)
(* saves the document with the stored file, ...                            *)
LoadToMail(q) ==
  /\ Admit(q, "mail")
  /\ \E i \in mail : Load(q, i, "pdf")
  /\ UNCHANGED <<invoice, counter, mail, notices, payment, external>>

SavePdf(q) ==
  /\ req[q].pc = "pdf"
  /\ LET doc == req[q].doc
     IN  /\ SaveStatus(q, doc.status)
         /\ IF doc.status \in {"void", "cancelled"}
              THEN Answer(q)
              ELSE req' = [req EXCEPT ![q].pc = "mailed",
                                      ![q].doc.status = Hooked(req[q].inv, @)]
  /\ UNCHANGED <<counter, mail, notices, payment, external>>

(* ... and once the mail is out the same document is saved with emailedAt. *)
SaveMailed(q) ==
  /\ req[q].pc = "mailed"
  /\ SaveStatus(q, req[q].doc.status)
  /\ Answer(q)
  /\ UNCHANGED <<counter, mail, notices, payment, external>>

(* A database call rejects or the process dies. *)
Abort(q) ==
  /\ MayFail
  /\ req[q].pc # "idle"
  /\ Answer(q)
  /\ UNCHANGED <<invoice, counter, mail, notices, payment, external>>

-----------------------------------------------------------------------------
Advance(q) ==
  \/ NextNumber(q)
  \/ InsertInvoice(q)
  \/ Reload(q)
  \/ SaveSent(q)
  \/ SaveVoid(q)
  \/ InsertPayment(q)
  \/ CompletePayment(q)
  \/ LoadToCredit(q)
  \/ RecordPayment(q)
  \/ FailPayment(q)
  \/ MarkOverdue(q)
  \/ SendNotice(q)
  \/ SavePdf(q)
  \/ SaveMailed(q)

Arrive(q) ==
  \/ FindExisting(q)
  \/ CreateDraft(q)
  \/ LoadToSend(q)
  \/ LoadToVoid(q)
  \/ LoadToPay(q)
  \/ FindOverdue(q)
  \/ LoadToMail(q)
  \/ \E p \in Payments : FindPending(q, p) \/ FindDeclined(q, p)

Next ==
  \/ \E q \in Requests : Arrive(q) \/ Advance(q) \/ NoticeFails(q) \/ Abort(q)
  \/ \E p \in Payments : Capture(p) \/ Decline(p)
  \/ \E i \in Invoices : DueDatePasses(i)

Spec == Init /\ [][Next]_vars

(* Handlers in progress go on, and the gateway redelivers a webhook until  *)
(* it is answered.                                                         *)
FairSpec ==
  /\ Spec
  /\ \A q \in Requests : WF_vars(Advance(q))
  /\ \A p \in Payments : /\ SF_vars(\E q \in Requests : FindPending(q, p))
                         /\ SF_vars(\E q \in Requests : FindDeclined(q, p))

-----------------------------------------------------------------------------
(* Properties *)

(* Invoices raised at the same time get numbers of their own: the counter  *)
(* is "needed across concurrent request handlers" (models/Counter.ts).     *)
NumbersUnique ==
  \A i, j \in Invoices :
    Exists(i) /\ Exists(j) /\ invoice[i].number = invoice[j].number => i = j

(* However often a webhook comes and wherever its handling stops, an       *)
(* invoice is not credited with more than its completed payments.          *)
NeverOvercredited ==
  \A i \in Invoices :
    LET completed == {p \in Payments : payment[p].invoice = i /\ payment[p].status = "completed"}
    IN  invoice[i].paid <= MapThenSumSet(LAMBDA p : payment[p].total, completed)

(* A paid invoice stays paid unless it is voided: the overdue sweep, the   *)
(* e-mail job and the pre-save hook are for "sent/viewed/partially-paid"   *)
(* invoices (jobs/invoice.job.ts).                                         *)
PaidIsKept ==
  [][\A i \in Invoices :
       invoice[i].status = "paid" => invoice'[i].status \in {"paid", "void"}]_vars

(* The billed account is e-mailed once when its invoice goes overdue       *)
(* (jobs/invoice.job.ts), never twice.                                     *)
NoticeOnce == \A i \in Invoices : notices[i] <= 1

(* What the gateway has captured reaches the invoice: "the payment.captured *)
(* webhook handler finds this Payment back ... and calls                   *)
(* Invoice.recordPayment()" (invoice.service.ts).                          *)
CapturedIsCredited ==
  \A p \in Payments :
    (p \in captured) ~>
      (payment[p].status = "completed" /\ invoice[payment[p].invoice].paid >= payment[p].total)
=============================================================================
