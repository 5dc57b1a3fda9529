--------------------------- MODULE InvoicingProofs ---------------------------
(* Proofs about Invoicing for every set of invoices, payments and          *)
(* concurrent handlers, with failures and crashes at every await.          *)
EXTENDS Invoicing, FiniteSetTheorems, WellFoundedInduction, TLAPS

(* What a handler in progress carries, beyond its type: the invoice and    *)
(* the payment it works on.                                                *)
RequestShape(rq) ==
  /\ rq.pc \in {"reload", "send", "void", "order", "record", "notice", "pdf", "mailed"}
       => rq.inv \in Invoices
  /\ rq.pc \in {"complete", "credit", "record", "fail"}
       => rq.pay \in Payments /\ payment[rq.pay].status # "absent"

(* A payment document has an invoice.                                      *)
PaymentShape(p) == payment[p].status # "absent" => payment[p].invoice \in Invoices

TypeInv ==
  /\ TypeOK
  /\ \A q \in Requests : RequestShape(req[q])
  /\ \A p \in Payments : PaymentShape(p)

-----------------------------------------------------------------------------
LEMMA IdleIsTyped == Idle \in Request
  BY DEF Idle, NoInvoice, Request, Invoice, PCs, Statuses, NonVoid, Open

LEMMA InitTypeInv == Init => TypeInv
  BY IdleIsTyped, InvoicingConstants
  DEF Init, TypeInv, TypeOK, RequestShape, PaymentShape, NoInvoice, NoPayment, Invoice, Payment,
      Idle, Statuses, NonVoid, Open

(* A step of one handler: what it writes is typed, and it deletes no       *)
(* payment.                                                                *)
LEMMA HandlerStep ==
  ASSUME TypeInv, NEW q \in Requests, NEW v \in Request,
         req' = [req EXCEPT ![q] = v],
         invoice' \in [Invoices -> Invoice], counter' \in Nat, mail' \subseteq Invoices,
         notices' \in [Invoices -> Nat], payment' \in [Payments -> Payment],
         \A p \in Payments : PaymentShape(p)',
         \A p \in Payments : payment[p].status # "absent" => payment'[p].status # "absent",
         UNCHANGED external,
         RequestShape(v)'
  PROVE  TypeInv'
<1>1. TypeOK'
  BY DEF TypeInv, TypeOK, external
<1>2. ASSUME NEW p \in Requests PROVE RequestShape(req[p])'
  BY DEF TypeInv, TypeOK, RequestShape
<1> QED BY <1>1, <1>2 DEF TypeInv

(* A step of one handler that writes nothing.                              *)
LEMMA ReadStep ==
  ASSUME TypeInv, NEW q \in Requests, NEW v \in Request,
         req' = [req EXCEPT ![q] = v],
         UNCHANGED <<invoice, counter, mail, notices, payment, external>>,
         RequestShape(v)
  PROVE  TypeInv'
<1>1. RequestShape(v)' /\ \A p \in Payments : PaymentShape(p)'
  BY DEF TypeInv, RequestShape, PaymentShape
<1>2. /\ invoice' \in [Invoices -> Invoice] /\ counter' \in Nat /\ mail' \subseteq Invoices
      /\ notices' \in [Invoices -> Nat] /\ payment' \in [Payments -> Payment]
  BY DEF TypeInv, TypeOK
<1> QED BY <1>1, <1>2, HandlerStep

(* A step of one handler that writes the invoices, the numbers or the      *)
(* queue, but no payment.                                                  *)
LEMMA InvoiceStep ==
  ASSUME TypeInv, NEW q \in Requests, NEW v \in Request,
         req' = [req EXCEPT ![q] = v],
         invoice' \in [Invoices -> Invoice], counter' \in Nat, mail' \subseteq Invoices,
         notices' \in [Invoices -> Nat],
         UNCHANGED <<payment, external>>,
         RequestShape(v)
  PROVE  TypeInv'
<1>1. RequestShape(v)' /\ \A p \in Payments : PaymentShape(p)'
  BY DEF TypeInv, RequestShape, PaymentShape
<1>2. payment' \in [Payments -> Payment]
  BY DEF TypeInv, TypeOK
<1> QED BY <1>1, <1>2, HandlerStep

LEMMA AnswerIsTyped == RequestShape(Idle)
  BY DEF Idle, RequestShape

(* The helpers return what the types say.                                  *)
LEMMA StatusIsTyped ==
  ASSUME NEW i \in Invoices, NEW s \in Statuses PROVE Hooked(i, s) \in Statuses
  BY DEF Hooked, Statuses, NonVoid, Open

LEMMA AmountsAreTyped ==
  ASSUME NEW m \in Nat, NEW n \in Nat
  PROVE  Charged(m) \in Nat /\ Due(m, n) \in Nat
  BY DEF Charged, Due

(* A handler that loads an invoice.                                        *)
LEMMA LoadStep ==
  ASSUME TypeInv, NEW q \in Requests, NEW i \in Invoices,
         NEW pc \in {"send", "void", "order", "pdf"}, Load(q, i, pc),
         UNCHANGED <<invoice, counter, mail, notices, payment, external>>
  PROVE  TypeInv'
<1> DEFINE v == [Idle EXCEPT !.pc = pc, !.inv = i, !.doc = invoice[i]]
<1>1. v \in Request /\ RequestShape(v)
  BY IdleIsTyped DEF TypeInv, TypeOK, Idle, Request, PCs, RequestShape
<1>2. req' = [req EXCEPT ![q] = v]
  BY DEF Load
<1> QED BY <1>1, <1>2, ReadStep

(* What save() leaves in the collection.                                   *)
LEMMA SaveIsTyped ==
  ASSUME TypeInv, NEW q \in Requests, req[q].inv \in Invoices, NEW s \in Statuses \cup {"absent"},
         SaveStatus(q, s)
  PROVE  invoice' \in [Invoices -> Invoice]
<1>1. Hooked(req[q].inv, s) \in Statuses \cup {"absent"}
  BY DEF Hooked, Statuses, NonVoid, Open
<1> DEFINE i  == req[q].inv
           st == Merged(invoice[i].status, req[q].doc.status, Hooked(i, s))
<1>2. invoice[i] \in Invoice
  BY DEF TypeInv, TypeOK
<1>3. st \in Statuses \cup {"absent"}
  BY <1>1, <1>2 DEF Merged, Invoice
<1>4. [invoice[i] EXCEPT !.status = st] \in Invoice
  BY <1>2, <1>3 DEF Invoice
<1>5. invoice' = [invoice EXCEPT ![i].status = st]
  BY DEF SaveStatus
<1> QED BY <1>2, <1>4, <1>5 DEF TypeInv, TypeOK

LEMMA ArriveTypeInv ==
  ASSUME TypeInv, NEW q \in Requests, Arrive(q)
  PROVE  TypeInv'
<1>1. CASE FindExisting(q)
  <2> DEFINE v == [Idle EXCEPT !.pc = "number", !.forJob = TRUE]
  <2>1. v \in Request /\ RequestShape(v)
    BY IdleIsTyped DEF Idle, Request, PCs, RequestShape
  <2> QED BY <1>1, <2>1, ReadStep DEF FindExisting
<1>2. CASE CreateDraft(q)
  <2> DEFINE v == [Idle EXCEPT !.pc = "number"]
  <2>1. v \in Request /\ RequestShape(v)
    BY IdleIsTyped DEF Idle, Request, PCs, RequestShape
  <2> QED BY <1>2, <2>1, ReadStep DEF CreateDraft
<1>3. CASE LoadToSend(q) \/ LoadToVoid(q) \/ LoadToPay(q)
  BY <1>3, LoadStep DEF LoadToSend, LoadToVoid, LoadToPay
<1>4. CASE LoadToMail(q)
  BY <1>4, LoadStep DEF LoadToMail, TypeInv, TypeOK
<1>5. CASE FindOverdue(q)
  <2> DEFINE found == {i \in pastDue : invoice[i].status \in Open}
             v     == [Idle EXCEPT !.pc = "sweep", !.list = found]
  <2>1. v \in Request /\ RequestShape(v)
    BY IdleIsTyped DEF Idle, Request, PCs, RequestShape, TypeInv, TypeOK
  <2> QED BY <1>5, <2>1, ReadStep DEF FindOverdue
<1>6. ASSUME NEW p \in Payments, FindPending(q, p) PROVE TypeInv'
  <2> DEFINE v == [Idle EXCEPT !.pc = "complete", !.pay = p]
  <2>1. v \in Request /\ RequestShape(v)
    BY <1>6, IdleIsTyped DEF FindPending, Idle, Request, PCs, RequestShape
  <2> QED BY <1>6, <2>1, ReadStep DEF FindPending
<1>7. ASSUME NEW p \in Payments, FindDeclined(q, p) PROVE TypeInv'
  <2> DEFINE v == [Idle EXCEPT !.pc = "fail", !.pay = p]
  <2>1. v \in Request /\ RequestShape(v)
    BY <1>7, IdleIsTyped DEF FindDeclined, Idle, Request, PCs, RequestShape
  <2> QED BY <1>7, <2>1, ReadStep DEF FindDeclined
<1> QED BY <1>1, <1>2, <1>3, <1>4, <1>5, <1>6, <1>7 DEF Arrive

(* The sweep's way to the next invoice.                                    *)
LEMMA NextInSweepStep ==
  ASSUME TypeInv, NEW q \in Requests, NextInSweep(q), notices' \in [Invoices -> Nat],
         UNCHANGED <<invoice, counter, mail, payment, external>>
  PROVE  TypeInv'
<1> DEFINE v == [req[q] EXCEPT !.pc = "sweep"]
<1>1. v \in Request /\ RequestShape(v)
  BY DEF TypeInv, TypeOK, Request, PCs, RequestShape
<1>2. req' = [req EXCEPT ![q] = v] \/ req' = [req EXCEPT ![q] = Idle]
  BY DEF NextInSweep, Answer, TypeInv, TypeOK
<1>3. invoice' \in [Invoices -> Invoice] /\ counter' \in Nat /\ mail' \subseteq Invoices
  BY DEF TypeInv, TypeOK
<1> QED BY <1>1, <1>2, <1>3, IdleIsTyped, AnswerIsTyped, InvoiceStep

LEMMA AdvanceTypeInv ==
  ASSUME TypeInv, NEW q \in Requests, Advance(q)
  PROVE  TypeInv'
<1> USE IdleIsTyped, AnswerIsTyped
<1> DEFINE rq == req[q]
<1>0. /\ req \in [Requests -> Request] /\ rq \in Request /\ RequestShape(rq)
      /\ invoice \in [Invoices -> Invoice] /\ counter \in Nat /\ mail \subseteq Invoices
      /\ notices \in [Invoices -> Nat] /\ payment \in [Payments -> Payment]
  BY DEF TypeInv, TypeOK
<1>1. CASE NextNumber(q)
  <2> DEFINE n == counter + 1
             v == [rq EXCEPT !.pc = "insert", !.number = n]
  <2>0. n \in Nat
    BY <1>0
  <2> HIDE DEF n
  <2>1. v \in Request /\ RequestShape(v)
    BY <1>0, <2>0 DEF Request, PCs, RequestShape
  <2>2. req' = [req EXCEPT ![q] = v] /\ counter' \in Nat
    BY <1>0, <1>1, <2>0 DEF NextNumber, Request, n
  <2> HIDE DEF v
  <2> QED BY <1>0, <1>1, <2>1, <2>2, InvoiceStep DEF NextNumber
<1>2. CASE InsertInvoice(q)
  <2>1. PICK i \in Invoices, total \in Totals :
          /\ invoice' = [invoice EXCEPT ![i] =
                          [status |-> "draft", number |-> rq.number, total |-> total,
                           paid |-> 0, due |-> total, forJob |-> rq.forJob]]
          /\ IF rq.forJob
               THEN req' = [req EXCEPT ![q].pc = "reload", ![q].inv = i]
               ELSE Answer(q)
    BY <1>2 DEF InsertInvoice
  <2>2. invoice' \in [Invoices -> Invoice]
    BY <1>0, <2>1, InvoicingConstants DEF Request, Invoice, Statuses, NonVoid, Open
  <2>3. CASE rq.forJob
    <3> DEFINE v == [rq EXCEPT !.pc = "reload", !.inv = i]
    <3>1. v \in Request /\ RequestShape(v)
      BY <1>0 DEF Request, PCs, RequestShape
    <3>2. req' = [req EXCEPT ![q] = v]
      BY <1>0, <2>1, <2>3 DEF Request
    <3> HIDE DEF v
    <3> QED BY <1>0, <1>2, <2>2, <3>1, <3>2, InvoiceStep DEF InsertInvoice
  <2>4. CASE ~rq.forJob
    BY <1>0, <1>2, <2>1, <2>2, <2>4, InvoiceStep DEF InsertInvoice, Answer
  <2> QED BY <2>3, <2>4
<1>3. CASE Reload(q)
  BY <1>0, <1>3, LoadStep DEF Reload, RequestShape
<1>4. CASE SaveSent(q)
  <2>1. invoice' \in [Invoices -> Invoice]
    BY <1>0, <1>4, SaveIsTyped
    DEF SaveSent, RequestShape, Request, Invoice, Statuses, NonVoid, Open
  <2> QED BY <1>0, <1>4, <2>1, InvoiceStep DEF SaveSent, Answer, RequestShape
<1>5. CASE SaveVoid(q)
  <2>1. invoice' \in [Invoices -> Invoice]
    BY <1>0, <1>5, SaveIsTyped DEF SaveVoid, RequestShape, Statuses, NonVoid, Open
  <2> QED BY <1>0, <1>5, <2>1, InvoiceStep DEF SaveVoid, Answer
<1>6. CASE InsertPayment(q)
  <2>1. PICK p \in Payments :
          payment' = [payment EXCEPT ![p] =
                       [status |-> "pending", invoice |-> rq.inv,
                        order |-> rq.doc.due, total |-> Charged(rq.doc.due)]]
    BY <1>6 DEF InsertPayment
  <2>2. rq.inv \in Invoices /\ rq.doc.due \in Nat
    BY <1>0, <1>6 DEF InsertPayment, RequestShape, Request, Invoice
  <2>3. payment' \in [Payments -> Payment] /\ \A x \in Payments : PaymentShape(x)'
    BY <1>0, <2>1, <2>2, AmountsAreTyped DEF Payment, PaymentShape, TypeInv
  <2>4. \A x \in Payments : payment[x].status # "absent" => payment'[x].status # "absent"
    BY <1>0, <2>1
  <2>5. RequestShape(Idle)'
    BY DEF Idle, RequestShape
  <2> QED BY <1>0, <1>6, <2>3, <2>4, <2>5, HandlerStep DEF InsertPayment, Answer
<1>7. CASE CompletePayment(q)
  <2>1. rq.pay \in Payments /\ payment' = [payment EXCEPT ![rq.pay].status = "completed"]
    BY <1>0, <1>7 DEF CompletePayment, RequestShape
  <2>2. payment' \in [Payments -> Payment] /\ \A x \in Payments : PaymentShape(x)'
    BY <1>0, <1>7, <2>1 DEF CompletePayment, RequestShape, Payment, PaymentShape, TypeInv
  <2>3. \A x \in Payments : payment[x].status # "absent" => payment'[x].status # "absent"
    BY <1>0, <2>1 DEF Payment
  <2>4. payment'[rq.pay].status # "absent"
    BY <1>0, <2>1 DEF Payment
  <2>5. PICK v \in Request : v = [rq EXCEPT !.pc = "credit"]
    BY <1>0 DEF Request, PCs
  <2>6. v.pc = "credit" /\ v.pay = rq.pay
    BY <1>0, <2>5 DEF Request
  <2>7. RequestShape(v)'
    BY <2>1, <2>4, <2>6 DEF RequestShape
  <2>8. req' = [req EXCEPT ![q] = v]
    BY <1>0, <1>7, <2>5 DEF CompletePayment
  <2>9. /\ invoice' \in [Invoices -> Invoice] /\ counter' \in Nat /\ mail' \subseteq Invoices
        /\ notices' \in [Invoices -> Nat] /\ UNCHANGED external
    BY <1>0, <1>7 DEF CompletePayment
  <2> QED BY <2>2, <2>3, <2>7, <2>8, <2>9, HandlerStep
<1>8. CASE LoadToCredit(q)
  <2> DEFINE i == payment[rq.pay].invoice
             v == [rq EXCEPT !.pc = "record", !.inv = i, !.doc = invoice[i]]
  <2>1. i \in Invoices
    BY <1>0, <1>8 DEF LoadToCredit, RequestShape, PaymentShape, TypeInv
  <2>2. v \in Request /\ RequestShape(v)
    BY <1>0, <1>8, <2>1 DEF LoadToCredit, Request, PCs, RequestShape
  <2> QED BY <1>0, <1>8, <2>2, ReadStep DEF LoadToCredit
<1>9. CASE RecordPayment(q)
  <2> DEFINE i    == rq.inv
             doc  == rq.doc
             paid == doc.paid + payment[rq.pay].total
             due  == Due(doc.total, paid)
             st   == Merged(invoice[i].status, doc.status,
                            Hooked(i, IF due = 0 THEN "paid" ELSE "partially_paid"))
             new  == [invoice[i] EXCEPT !.paid = paid,
                                        !.due = Merged(@, doc.due, due), !.status = st]
  <2>1. i \in Invoices /\ rq.pay \in Payments /\ doc \in Invoice
    BY <1>0, <1>9 DEF RecordPayment, RequestShape, Request
  <2>2. paid \in Nat
    BY <1>0, <2>1 DEF Invoice, Payment
  <2>3. due \in Nat
    BY <2>1, <2>2, AmountsAreTyped DEF Invoice
  <2>4. st \in Statuses \cup {"absent"}
    BY <1>0, <2>1 DEF Merged, Hooked, Invoice, Statuses, NonVoid, Open
  <2>5. Merged(invoice[i].due, doc.due, due) \in Nat
    BY <1>0, <2>1, <2>3 DEF Merged, Invoice
  <2>6. new \in Invoice
    BY <1>0, <2>1, <2>2, <2>4, <2>5 DEF Invoice
  <2>7. invoice' = [invoice EXCEPT ![i] = new]
    BY <1>0, <1>9, <2>1 DEF RecordPayment, Invoice
  <2>8. invoice' \in [Invoices -> Invoice]
    BY <1>0, <2>1, <2>6, <2>7
  <2> QED BY <1>0, <1>9, <2>8, InvoiceStep DEF RecordPayment, Answer
<1>10. CASE FailPayment(q)
  <2>1. rq.pay \in Payments /\ payment' = [payment EXCEPT ![rq.pay].status = "failed"]
    BY <1>0, <1>10 DEF FailPayment, RequestShape
  <2>2. payment' \in [Payments -> Payment] /\ \A x \in Payments : PaymentShape(x)'
    BY <1>0, <1>10, <2>1 DEF FailPayment, RequestShape, Payment, PaymentShape, TypeInv
  <2>3. \A x \in Payments : payment[x].status # "absent" => payment'[x].status # "absent"
    BY <1>0, <2>1 DEF Payment
  <2>4. RequestShape(Idle)'
    BY DEF Idle, RequestShape
  <2> QED BY <1>0, <1>10, <2>2, <2>3, <2>4, HandlerStep DEF FailPayment, Answer
<1>11. CASE MarkOverdue(q)
  <2>1. PICK i \in rq.list :
          /\ invoice' = [invoice EXCEPT ![i].status = "overdue"]
          /\ req' = [req EXCEPT ![q].pc = "notice", ![q].inv = i, ![q].list = @ \ {i}]
    BY <1>11 DEF MarkOverdue
  <2> DEFINE v == [rq EXCEPT !.pc = "notice", !.inv = i, !.list = @ \ {i}]
  <2>2. i \in Invoices
    BY <1>0 DEF Request
  <2>3. v \in Request /\ RequestShape(v)
    BY <1>0, <2>2 DEF Request, PCs, RequestShape
  <2>4. invoice' \in [Invoices -> Invoice]
    BY <1>0, <2>1, <2>2 DEF Invoice, Statuses, NonVoid, Open
  <2>5. req' = [req EXCEPT ![q] = v]
    BY <1>0, <2>1 DEF Request
  <2> HIDE DEF v
  <2> QED BY <1>0, <1>11, <2>3, <2>4, <2>5, InvoiceStep DEF MarkOverdue
<1>12. CASE SendNotice(q)
  <2>1. rq.inv \in Invoices /\ notices' \in [Invoices -> Nat]
    BY <1>0, <1>12 DEF SendNotice, RequestShape
  <2> QED BY <1>0, <1>12, <2>1, NextInSweepStep DEF SendNotice
<1>13. CASE SavePdf(q)
  <2>1. invoice' \in [Invoices -> Invoice] /\ rq.inv \in Invoices
    BY <1>0, <1>13, SaveIsTyped DEF SavePdf, RequestShape, Request, Invoice
  <2>2. CASE rq.doc.status \in {"void", "cancelled"}
    BY <1>0, <1>13, <2>1, <2>2, InvoiceStep DEF SavePdf, Answer
  <2>3. CASE rq.doc.status \notin {"void", "cancelled"}
    <3> DEFINE st == Hooked(rq.inv, rq.doc.status)
               v  == [rq EXCEPT !.pc = "mailed", !.doc.status = st]
    <3>1. st \in Statuses \cup {"absent"}
      BY <1>0 DEF Hooked, Request, Invoice, Statuses, NonVoid, Open
    <3>2. [rq.doc EXCEPT !.status = st] \in Invoice
      BY <1>0, <3>1 DEF Request, Invoice
    <3>3. v \in Request /\ RequestShape(v)
      BY <1>0, <2>1, <3>2 DEF Request, PCs, RequestShape
    <3>4. req' = [req EXCEPT ![q] = v]
      BY <1>0, <1>13, <2>3 DEF SavePdf, Request
    <3> QED BY <1>0, <1>13, <2>1, <3>3, <3>4, InvoiceStep DEF SavePdf
  <2> QED BY <2>2, <2>3
<1>14. CASE SaveMailed(q)
  <2>1. invoice' \in [Invoices -> Invoice]
    BY <1>0, <1>14, SaveIsTyped DEF SaveMailed, RequestShape, Request, Invoice
  <2> QED BY <1>0, <1>14, <2>1, InvoiceStep DEF SaveMailed, Answer
<1> QED BY <1>1, <1>2, <1>3, <1>4, <1>5, <1>6, <1>7, <1>8, <1>9, <1>10, <1>11, <1>12, <1>13,
           <1>14 DEF Advance

LEMMA NextTypeInv == TypeInv /\ [Next]_vars => TypeInv'
<1> SUFFICES ASSUME TypeInv, [Next]_vars PROVE TypeInv'
  OBVIOUS
<1>1. ASSUME NEW q \in Requests, NoticeFails(q) PROVE TypeInv'
  BY <1>1, NextInSweepStep DEF NoticeFails, TypeInv, TypeOK
<1>2. ASSUME NEW q \in Requests, Abort(q) PROVE TypeInv'
  BY <1>2, IdleIsTyped, AnswerIsTyped, ReadStep DEF Abort, Answer
<1>3. ASSUME \/ \E p \in Payments : Capture(p) \/ Decline(p)
             \/ \E i \in Invoices : DueDatePasses(i)
             \/ UNCHANGED vars
      PROVE  TypeInv'
  BY <1>3 DEF Capture, Decline, DueDatePasses, vars, external, TypeInv, TypeOK, RequestShape,
              PaymentShape
<1> QED BY <1>1, <1>2, <1>3, ArriveTypeInv, AdvanceTypeInv DEF Next

(* Every reachable state is well typed, whatever handlers interleave and   *)
(* fail: no amount is negative, no order is without its invoice, and a     *)
(* handler in progress has the documents its next save needs.              *)
THEOREM TypeCorrect == Spec => []TypeOK
<1>1. TypeInv => TypeOK
  BY DEF TypeInv
<1> QED BY <1>1, InitTypeInv, NextTypeInv, PTL DEF Spec

-----------------------------------------------------------------------------
(* Invoice numbers.  The counter is incremented in one step and read from  *)
(* its own reply, so a number is drawn once; it is then held by the one    *)
(* handler that inserts it, and no save changes the number of an invoice.  *)

(* What a handler works on is in the collection.                           *)
Refers(rq) ==
  /\ rq.pc \in {"reload", "send", "void", "order", "record", "notice", "pdf", "mailed"}
       => Exists(rq.inv)
  /\ \A i \in rq.list : Exists(i)

Inserting(q) == req[q].pc = "insert"

NumbersInv ==
  /\ \A q \in Requests : Refers(req[q])
  /\ \A i \in mail : Exists(i)
  /\ \A p \in Payments : payment[p].status # "absent" => Exists(payment[p].invoice)
  /\ \A i \in Invoices : Exists(i) => invoice[i].number <= counter
  /\ \A q \in Requests : Inserting(q) => req[q].number <= counter
  /\ \A p, q \in Requests :
       p # q /\ Inserting(p) /\ Inserting(q) => req[p].number # req[q].number
  /\ \A i \in Invoices, q \in Requests :
       Exists(i) /\ Inserting(q) => invoice[i].number # req[q].number
  /\ NumbersUnique

LEMMA InitNumbers == Init => NumbersInv
  BY DEF Init, NumbersInv, Refers, Inserting, NumbersUnique, Exists, NoInvoice, NoPayment, Idle

(* No invoice appears, disappears or is renumbered.                        *)
SameInvoices ==
  \A i \in Invoices : invoice'[i].number = invoice[i].number /\ (Exists(i)' <=> Exists(i))

(* A step of one handler that draws and inserts no number.                 *)
LEMMA NumbersFrame ==
  ASSUME TypeInv, NumbersInv, NEW q \in Requests,
         \A p \in Requests \ {q} : req'[p] = req[p],
         req'[q].pc # "insert", Refers(req[q])',
         SameInvoices, counter' = counter,
         mail' \subseteq Invoices, \A i \in mail' : i \in mail \/ Exists(i),
         \A p \in Payments :
           payment'[p].status # "absent" =>
             \/ payment[p].status # "absent" /\ payment'[p].invoice = payment[p].invoice
             \/ payment'[p].invoice \in Invoices /\ Exists(payment'[p].invoice)
  PROVE  NumbersInv'
<1>0. \A i \in Invoices : Exists(i) => Exists(i)'
  BY DEF SameInvoices
<1>1. ASSUME NEW p \in Requests PROVE Refers(req[p])'
  <2>1. CASE p = q
    BY <2>1
  <2>2. CASE p # q
    <3>1. Refers(req[p]) /\ req'[p] = req[p] /\ req[p] \in Request /\ RequestShape(req[p])
      BY <2>2 DEF NumbersInv, TypeInv, TypeOK
    <3> QED BY <1>0, <3>1 DEF Refers, Request, RequestShape
  <2> QED BY <2>1, <2>2
<1>2. \A i \in mail' : Exists(i)'
  BY <1>0 DEF NumbersInv
<1>3. ASSUME NEW p \in Payments, payment'[p].status # "absent" PROVE Exists(payment[p].invoice)'
  <2>1. CASE payment[p].status # "absent" /\ payment'[p].invoice = payment[p].invoice
    BY <1>0, <2>1 DEF NumbersInv, TypeInv, PaymentShape, Exists
  <2>2. CASE payment'[p].invoice \in Invoices /\ Exists(payment'[p].invoice)
    BY <1>0, <2>2 DEF Exists
  <2> QED BY <1>3, <2>1, <2>2
<1>4. \A p \in Requests : Inserting(p)' => Inserting(p) /\ req'[p] = req[p] /\ p # q
  BY DEF Inserting
<1>5. \A i \in Invoices : Exists(i)' => invoice'[i].number <= counter'
  BY DEF SameInvoices, NumbersInv
<1>6. \A p \in Requests : Inserting(p)' => req'[p].number <= counter'
  BY <1>4 DEF NumbersInv
<1>7. \A p1, p2 \in Requests :
        p1 # p2 /\ Inserting(p1)' /\ Inserting(p2)' => req'[p1].number # req'[p2].number
  BY <1>4 DEF NumbersInv
<1>8. \A i \in Invoices, p \in Requests :
        Exists(i)' /\ Inserting(p)' => invoice'[i].number # req'[p].number
  BY <1>4 DEF SameInvoices, NumbersInv
<1>9. NumbersUnique'
  BY DEF SameInvoices, NumbersInv, NumbersUnique
<1> QED BY <1>1, <1>2, <1>3, <1>5, <1>6, <1>7, <1>8, <1>9 DEF NumbersInv

(* save() of a document that is in the collection.                         *)
LEMMA SaveKeepsInvoices ==
  ASSUME TypeInv, NEW q \in Requests, req[q].inv \in Invoices, Exists(req[q].inv),
         NEW s \in Statuses \cup {"absent"}, s = "absent" => req[q].doc.status = "absent",
         SaveStatus(q, s)
  PROVE  SameInvoices
<1> DEFINE i  == req[q].inv
           st == Merged(invoice[i].status, req[q].doc.status, Hooked(i, s))
<1>1. st # "absent"
  BY DEF Merged, Hooked, Exists, Statuses, NonVoid, Open
<1>2. invoice' = [invoice EXCEPT ![i].status = st]
  BY DEF SaveStatus
<1> HIDE DEF st
<1> QED BY <1>1, <1>2 DEF TypeInv, TypeOK, Invoice, SameInvoices, Exists

(* A handler that only reads.                                              *)
LEMMA ReadNumbers ==
  ASSUME TypeInv, NumbersInv, NEW q \in Requests, NEW v \in Request,
         req' = [req EXCEPT ![q] = v], v.pc # "insert", Refers(v),
         UNCHANGED <<invoice, counter, mail, payment>>
  PROVE  NumbersInv'
<1>1. SameInvoices /\ mail' \subseteq Invoices
  BY DEF SameInvoices, Exists, TypeInv, TypeOK
<1>2. req'[q] = v /\ \A p \in Requests \ {q} : req'[p] = req[p]
  BY DEF TypeInv, TypeOK
<1>3. Refers(req[q])'
  BY <1>2 DEF Refers, Exists
<1> QED BY <1>1, <1>2, <1>3, NumbersFrame

(* A handler that is answered once it has saved.                           *)
LEMMA AnswerNumbers ==
  ASSUME TypeInv, NumbersInv, NEW q \in Requests, Answer(q), SameInvoices,
         counter' = counter, mail' \subseteq Invoices, \A i \in mail' : i \in mail \/ Exists(i),
         \A p \in Payments :
           payment'[p].status # "absent" =>
             \/ payment[p].status # "absent" /\ payment'[p].invoice = payment[p].invoice
             \/ payment'[p].invoice \in Invoices /\ Exists(payment'[p].invoice)
  PROVE  NumbersInv'
<1>1. req'[q] = Idle /\ \A p \in Requests \ {q} : req'[p] = req[p]
  BY DEF Answer, TypeInv, TypeOK
<1>2. Refers(req[q])' /\ req'[q].pc # "insert"
  BY <1>1 DEF Refers, Idle
<1> QED BY <1>1, <1>2, NumbersFrame

LEMMA LoadNumbers ==
  ASSUME TypeInv, NumbersInv, NEW q \in Requests, NEW i \in Invoices, Exists(i),
         NEW pc \in {"send", "void", "order", "pdf"}, Load(q, i, pc),
         UNCHANGED <<invoice, counter, mail, payment>>
  PROVE  NumbersInv'
<1> DEFINE v == [Idle EXCEPT !.pc = pc, !.inv = i, !.doc = invoice[i]]
<1>1. v \in Request
  BY IdleIsTyped DEF TypeInv, TypeOK, Idle, Request, PCs
<1>2. v.pc # "insert" /\ Refers(v)
  BY DEF Refers, Idle
<1>3. req' = [req EXCEPT ![q] = v]
  BY DEF Load
<1> QED BY <1>1, <1>2, <1>3, ReadNumbers

LEMMA ArriveNumbers ==
  ASSUME TypeInv, NumbersInv, NEW q \in Requests, Arrive(q)
  PROVE  NumbersInv'
<1>1. CASE FindExisting(q)
  <2> DEFINE v == [Idle EXCEPT !.pc = "number", !.forJob = TRUE]
  <2>1. v \in Request /\ v.pc # "insert" /\ Refers(v)
    BY IdleIsTyped DEF Idle, Request, PCs, Refers
  <2> QED BY <1>1, <2>1, ReadNumbers DEF FindExisting
<1>2. CASE CreateDraft(q)
  <2> DEFINE v == [Idle EXCEPT !.pc = "number"]
  <2>1. v \in Request /\ v.pc # "insert" /\ Refers(v)
    BY IdleIsTyped DEF Idle, Request, PCs, Refers
  <2> QED BY <1>2, <2>1, ReadNumbers DEF CreateDraft
<1>3. CASE LoadToSend(q) \/ LoadToVoid(q) \/ LoadToPay(q)
  BY <1>3, LoadNumbers DEF LoadToSend, LoadToVoid, LoadToPay
<1>4. CASE LoadToMail(q)
  BY <1>4, LoadNumbers DEF LoadToMail, TypeInv, TypeOK, NumbersInv
<1>5. CASE FindOverdue(q)
  <2> DEFINE found == {i \in pastDue : invoice[i].status \in Open}
             v     == [Idle EXCEPT !.pc = "sweep", !.list = found]
  <2>1. found \in SUBSET Invoices /\ \A i \in found : Exists(i)
    <3>1. "absent" \notin Open /\ pastDue \subseteq Invoices
      BY DEF TypeInv, TypeOK, Open
    <3> QED BY <3>1 DEF Exists
  <2>2. req' = [req EXCEPT ![q] = v] /\ UNCHANGED <<invoice, counter, mail, payment>>
    BY <1>5 DEF FindOverdue
  <2> HIDE DEF found
  <2>3. v \in Request /\ v.pc = "sweep" /\ v.list = found
    BY <2>1, IdleIsTyped DEF Idle, Request, PCs
  <2>4. Refers(v)
    BY <2>1, <2>3 DEF Refers
  <2> QED BY <2>2, <2>3, <2>4, ReadNumbers
<1>6. ASSUME NEW p \in Payments, NEW pc \in {"complete", "fail"},
             req' = [req EXCEPT ![q] = [Idle EXCEPT !.pc = pc, !.pay = p]],
             UNCHANGED <<invoice, counter, mail, payment>>
      PROVE  NumbersInv'
  <2> DEFINE v == [Idle EXCEPT !.pc = pc, !.pay = p]
  <2>1. v \in Request /\ v.pc # "insert" /\ Refers(v)
    BY IdleIsTyped DEF Idle, Request, PCs, Refers
  <2> QED BY <1>6, <2>1, ReadNumbers
<1>7. CASE \E p \in Payments : FindPending(q, p) \/ FindDeclined(q, p)
  BY <1>6, <1>7 DEF FindPending, FindDeclined
<1> QED BY <1>1, <1>2, <1>3, <1>4, <1>5, <1>7 DEF Arrive

(* The number is drawn.                                                    *)
LEMMA NextNumberNumbers ==
  ASSUME TypeInv, NumbersInv, NEW q \in Requests, NextNumber(q)
  PROVE  NumbersInv'
<1> DEFINE n == counter + 1
<1>0. n \in Nat /\ counter \in Nat /\ counter < n /\ counter' = n
  BY DEF NextNumber, TypeInv, TypeOK
<1>1. /\ req[q] \in Request /\ req' = [req EXCEPT ![q] = [req[q] EXCEPT !.pc = "insert", !.number = n]]
      /\ UNCHANGED <<invoice, mail, payment>>
  BY DEF NextNumber, TypeInv, TypeOK, Request
<1> HIDE DEF n
<1>2. /\ req'[q].pc = "insert" /\ req'[q].number = n /\ req'[q].list = req[q].list
      /\ \A p \in Requests \ {q} : req'[p] = req[p]
  BY <1>1 DEF TypeInv, TypeOK, Request
<1>3. \A p \in Requests : Refers(req[p])'
  BY <1>1, <1>2 DEF NumbersInv, Refers, Exists
<1>4. /\ \A i \in mail' : Exists(i)'
      /\ \A p \in Payments : payment'[p].status # "absent" => Exists(payment[p].invoice)'
      /\ NumbersUnique'
  BY <1>1 DEF NumbersInv, NumbersUnique, Exists
<1>5. \A i \in Invoices : invoice[i].number \in Nat /\ (Exists(i) => invoice[i].number < n)
  BY <1>0 DEF NumbersInv, TypeInv, TypeOK, Invoice
<1>6. \A p \in Requests \ {q} :
        req[p].number \in Nat /\ (Inserting(p) => req[p].number < n)
  BY <1>0 DEF NumbersInv, TypeInv, TypeOK, Request
<1>7. \A i \in Invoices : Exists(i)' => invoice'[i].number <= counter'
  BY <1>0, <1>1, <1>5 DEF Exists
<1>8. \A p \in Requests : Inserting(p)' => req'[p].number <= counter'
  BY <1>0, <1>2, <1>6 DEF Inserting
<1>9. \A p1, p2 \in Requests :
        p1 # p2 /\ Inserting(p1)' /\ Inserting(p2)' => req'[p1].number # req'[p2].number
  BY <1>0, <1>2, <1>6 DEF NumbersInv, Inserting
<1>10. \A i \in Invoices, p \in Requests :
        Exists(i)' /\ Inserting(p)' => invoice'[i].number # req'[p].number
  BY <1>0, <1>1, <1>2, <1>5 DEF NumbersInv, Inserting, Exists
<1> QED BY <1>3, <1>4, <1>7, <1>8, <1>9, <1>10 DEF NumbersInv

(* The number is given to an invoice.                                      *)
LEMMA InsertNumbers ==
  ASSUME TypeInv, NumbersInv, NEW q \in Requests, InsertInvoice(q)
  PROVE  NumbersInv'
<1>0. Inserting(q)
  BY DEF InsertInvoice, Inserting
<1>1. PICK i \in Invoices, t \in Totals :
        /\ ~Exists(i)
        /\ invoice' = [invoice EXCEPT ![i] =
                        [status |-> "draft", number |-> req[q].number, total |-> t,
                         paid |-> 0, due |-> t, forJob |-> req[q].forJob]]
        /\ IF req[q].forJob
             THEN req' = [req EXCEPT ![q].pc = "reload", ![q].inv = i]
             ELSE Answer(q)
  BY DEF InsertInvoice
<1>2. /\ Exists(i)' /\ invoice'[i].number = req[q].number
      /\ \A j \in Invoices \ {i} : invoice'[j] = invoice[j]
  BY <1>1 DEF TypeInv, TypeOK, Exists
<1>3. \A j \in Invoices \ {i} : Exists(j)' <=> Exists(j)
  BY <1>2 DEF Exists
<1>4. /\ \A p \in Requests \ {q} : req'[p] = req[p]
      /\ req'[q].pc \in {"reload", "idle"}
      /\ req'[q].pc = "reload" => req'[q].inv = i
      /\ req'[q].list \in {req[q].list, {}}
  BY <1>1 DEF Answer, Idle, TypeInv, TypeOK, Request
<1>5. ASSUME NEW p \in Requests PROVE Refers(req[p])'
  <2>0. \A j \in Invoices : Exists(j) => Exists(j)'
    BY <1>2, <1>3
  <2>1. Refers(req[p]) /\ req[p] \in Request /\ RequestShape(req[p])
    BY DEF NumbersInv, TypeInv, TypeOK
  <2>2. CASE p = q
    BY <1>2, <1>4, <2>0, <2>1, <2>2 DEF Refers, Request
  <2>3. CASE p # q
    BY <1>4, <2>0, <2>1, <2>3 DEF Refers, Request, RequestShape
  <2> QED BY <2>2, <2>3
<1>6. UNCHANGED <<counter, mail, payment>>
  BY DEF InsertInvoice
<1>7. /\ \A j \in mail' : Exists(j)'
      /\ \A p \in Payments : payment'[p].status # "absent" => Exists(payment[p].invoice)'
  BY <1>2, <1>3, <1>6 DEF NumbersInv, TypeInv, TypeOK, PaymentShape, Exists
<1>8. \A j \in Invoices : Exists(j)' => invoice'[j].number <= counter'
  BY <1>0, <1>2, <1>3, <1>6 DEF NumbersInv
<1>9. \A p \in Requests : Inserting(p)' => p # q /\ Inserting(p) /\ req'[p] = req[p]
  BY <1>4 DEF Inserting
<1>10. /\ \A p \in Requests : Inserting(p)' => req'[p].number <= counter'
       /\ \A p1, p2 \in Requests :
            p1 # p2 /\ Inserting(p1)' /\ Inserting(p2)' => req'[p1].number # req'[p2].number
  BY <1>6, <1>9 DEF NumbersInv
<1>11. \A j \in Invoices, p \in Requests :
         Exists(j)' /\ Inserting(p)' => invoice'[j].number # req'[p].number
  BY <1>0, <1>2, <1>3, <1>9 DEF NumbersInv
<1>12. \A j, k \in Invoices :
         Exists(j)' /\ Exists(k)' /\ invoice'[j].number = invoice'[k].number => j = k
  BY <1>0, <1>2, <1>3 DEF NumbersInv, NumbersUnique
<1>13. NumbersUnique'
  BY <1>12 DEF NumbersUnique
<1> QED BY <1>5, <1>7, <1>8, <1>10, <1>11, <1>13 DEF NumbersInv

(* The sweep's way to the next invoice.                                    *)
LEMMA NextInSweepNumbers ==
  ASSUME TypeInv, NumbersInv, NEW q \in Requests, NextInSweep(q),
         UNCHANGED <<invoice, counter, mail, payment>>
  PROVE  NumbersInv'
<1> DEFINE v == [req[q] EXCEPT !.pc = "sweep"]
<1>1. req[q] \in Request /\ Refers(req[q]) /\ mail \subseteq Invoices
  BY DEF TypeInv, TypeOK, NumbersInv
<1>2. v \in Request /\ v.pc # "insert" /\ Refers(v)
  BY <1>1 DEF Request, PCs, Refers
<1>3. CASE req' = [req EXCEPT ![q] = v]
  BY <1>2, <1>3, ReadNumbers
<1>4. CASE Answer(q)
  BY <1>1, <1>4, AnswerNumbers DEF SameInvoices, Exists
<1> QED BY <1>3, <1>4 DEF NextInSweep, TypeInv, TypeOK

LEMMA AdvanceNumbers ==
  ASSUME TypeInv, NumbersInv, NEW q \in Requests, Advance(q)
  PROVE  NumbersInv'
<1> DEFINE rq == req[q]
<1>0. /\ req \in [Requests -> Request] /\ rq \in Request /\ RequestShape(rq) /\ Refers(rq)
      /\ invoice \in [Invoices -> Invoice] /\ mail \subseteq Invoices
      /\ payment \in [Payments -> Payment]
  BY DEF TypeInv, TypeOK, NumbersInv
<1>1. CASE NextNumber(q)
  BY <1>1, NextNumberNumbers
<1>2. CASE InsertInvoice(q)
  BY <1>2, InsertNumbers
<1>3. CASE Reload(q)
  BY <1>0, <1>3, LoadNumbers DEF Reload, RequestShape, Refers
<1>4. CASE SaveSent(q)
  <2>1. rq.inv \in Invoices /\ Exists(rq.inv)
    BY <1>0, <1>4 DEF SaveSent, RequestShape, Refers
  <2>2. SameInvoices
    BY <1>0, <1>4, <2>1, SaveKeepsInvoices
    DEF SaveSent, Request, Invoice, Statuses, NonVoid, Open
  <2> QED BY <1>0, <1>4, <2>1, <2>2, AnswerNumbers DEF SaveSent
<1>5. CASE SaveVoid(q)
  <2>1. rq.inv \in Invoices /\ Exists(rq.inv)
    BY <1>0, <1>5 DEF SaveVoid, RequestShape, Refers
  <2>2. SameInvoices
    BY <1>5, <2>1, SaveKeepsInvoices DEF SaveVoid, Statuses, NonVoid, Open
  <2> QED BY <1>0, <1>5, <2>2, AnswerNumbers DEF SaveVoid
<1>6. CASE InsertPayment(q)
  <2>1. rq.inv \in Invoices /\ Exists(rq.inv)
    BY <1>0, <1>6 DEF InsertPayment, RequestShape, Refers
  <2>2. SameInvoices
    BY <1>6 DEF InsertPayment, SameInvoices, Exists
  <2>3. \A p \in Payments : payment'[p] = payment[p] \/ payment'[p].invoice = rq.inv
    BY <1>0, <1>6 DEF InsertPayment
  <2> QED BY <1>0, <1>6, <2>1, <2>2, <2>3, AnswerNumbers DEF InsertPayment
<1>7. CASE CompletePayment(q)
  <2>1. rq.pay \in Payments /\ payment[rq.pay].status # "absent"
    BY <1>0, <1>7 DEF CompletePayment, RequestShape
  <2>2. \A p \in Payments :
          payment'[p].status # "absent" =>
            payment[p].status # "absent" /\ payment'[p].invoice = payment[p].invoice
    BY <1>0, <1>7, <2>1 DEF CompletePayment, Payment
  <2>3. /\ req'[q] = [rq EXCEPT !.pc = "credit"]
        /\ \A p \in Requests \ {q} : req'[p] = req[p]
    BY <1>0, <1>7 DEF CompletePayment
  <2>4. SameInvoices
    BY <1>7 DEF CompletePayment, SameInvoices, Exists
  <2>5. Refers(req[q])' /\ req'[q].pc # "insert"
    BY <1>0, <1>7, <2>3 DEF CompletePayment, Refers, Request, Exists
  <2> QED BY <1>0, <1>7, <2>2, <2>3, <2>4, <2>5, NumbersFrame DEF CompletePayment
<1>8. CASE LoadToCredit(q)
  <2> DEFINE i == payment[rq.pay].invoice
             v == [rq EXCEPT !.pc = "record", !.inv = i, !.doc = invoice[i]]
  <2>1. i \in Invoices /\ Exists(i)
    BY <1>0, <1>8 DEF LoadToCredit, RequestShape, PaymentShape, TypeInv, NumbersInv
  <2>2. v \in Request /\ v.pc # "insert" /\ Refers(v)
    BY <1>0, <2>1 DEF Request, PCs, Refers
  <2>3. req' = [req EXCEPT ![q] = v] /\ UNCHANGED <<invoice, counter, mail, payment>>
    BY <1>0, <1>8 DEF LoadToCredit
  <2> HIDE DEF v
  <2> QED BY <2>2, <2>3, ReadNumbers
<1>9. CASE RecordPayment(q)
  <2> DEFINE doc  == rq.doc
             paid == doc.paid + payment[rq.pay].total
             due  == Due(doc.total, paid)
             st   == Merged(invoice[rq.inv].status, doc.status,
                            Hooked(rq.inv, IF due = 0 THEN "paid" ELSE "partially_paid"))
  <2>1. rq.inv \in Invoices /\ Exists(rq.inv)
    BY <1>0, <1>9 DEF RecordPayment, RequestShape, Refers
  <2>2. st # "absent"
    BY <2>1 DEF Merged, Hooked, Exists, Open
  <2> DEFINE new == [invoice[rq.inv] EXCEPT !.paid = paid,
                       !.due = Merged(@, doc.due, due), !.status = st]
  <2>3. invoice' = [invoice EXCEPT ![rq.inv] = new]
    BY <1>0, <1>9, <2>1 DEF RecordPayment, Invoice
  <2>5. new.number = invoice[rq.inv].number /\ new.status = st
    BY <1>0, <2>1 DEF Invoice
  <2> HIDE DEF new, paid, due, st
  <2>4. SameInvoices
    BY <1>0, <2>1, <2>2, <2>3, <2>5 DEF SameInvoices, Exists, Invoice
  <2> QED BY <1>0, <1>9, <2>4, AnswerNumbers DEF RecordPayment
<1>10. CASE FailPayment(q)
  <2>1. rq.pay \in Payments /\ payment[rq.pay].status # "absent"
    BY <1>0, <1>10 DEF FailPayment, RequestShape
  <2>2. \A p \in Payments :
          payment'[p].status # "absent" =>
            payment[p].status # "absent" /\ payment'[p].invoice = payment[p].invoice
    BY <1>0, <1>10, <2>1 DEF FailPayment, Payment
  <2>3. SameInvoices
    BY <1>10 DEF FailPayment, SameInvoices, Exists
  <2> QED BY <1>0, <1>10, <2>2, <2>3, AnswerNumbers DEF FailPayment
<1>11. CASE MarkOverdue(q)
  <2>1. PICK i \in rq.list :
          /\ invoice' = [invoice EXCEPT ![i].status = "overdue"]
          /\ req' = [req EXCEPT ![q].pc = "notice", ![q].inv = i, ![q].list = @ \ {i}]
    BY <1>11 DEF MarkOverdue
  <2>2. i \in Invoices /\ Exists(i)
    BY <1>0 DEF Request, Refers
  <2>3. SameInvoices
    BY <1>0, <2>1, <2>2 DEF SameInvoices, Exists, Invoice
  <2>4. /\ req'[q].pc = "notice" /\ req'[q].inv = i /\ req'[q].list = rq.list \ {i}
        /\ \A p \in Requests \ {q} : req'[p] = req[p]
    BY <1>0, <2>1 DEF Request
  <2>5. Refers(req[q])'
    BY <1>0, <2>2, <2>3, <2>4 DEF Refers, SameInvoices, Request
  <2> QED BY <1>0, <1>11, <2>3, <2>4, <2>5, NumbersFrame DEF MarkOverdue
<1>12. CASE SendNotice(q)
  BY <1>12, NextInSweepNumbers DEF SendNotice
<1>13. CASE SavePdf(q)
  <2>1. rq.inv \in Invoices /\ Exists(rq.inv)
    BY <1>0, <1>13 DEF SavePdf, RequestShape, Refers
  <2>2. SameInvoices
    BY <1>0, <1>13, <2>1, SaveKeepsInvoices DEF SavePdf, Request, Invoice
  <2>3. CASE Answer(q)
    BY <1>0, <1>13, <2>2, <2>3, AnswerNumbers DEF SavePdf
  <2>4. CASE req' = [req EXCEPT ![q].pc = "mailed", ![q].doc.status = Hooked(rq.inv, @)]
    <3>1. /\ req'[q].pc = "mailed" /\ req'[q].inv = rq.inv /\ req'[q].list = rq.list
          /\ \A p \in Requests \ {q} : req'[p] = req[p]
      BY <1>0, <2>4 DEF Request
    <3>2. Refers(req[q])'
      BY <1>0, <2>1, <2>2, <3>1 DEF Refers, SameInvoices, Request
    <3> QED BY <1>0, <1>13, <2>2, <3>1, <3>2, NumbersFrame DEF SavePdf
  <2> QED BY <1>13, <2>3, <2>4 DEF SavePdf
<1>14. CASE SaveMailed(q)
  <2>1. rq.inv \in Invoices /\ Exists(rq.inv)
    BY <1>0, <1>14 DEF SaveMailed, RequestShape, Refers
  <2>2. SameInvoices
    BY <1>0, <1>14, <2>1, SaveKeepsInvoices DEF SaveMailed, Request, Invoice
  <2> QED BY <1>0, <1>14, <2>2, AnswerNumbers DEF SaveMailed
<1> QED BY <1>1, <1>2, <1>3, <1>4, <1>5, <1>6, <1>7, <1>8, <1>9, <1>10, <1>11, <1>12, <1>13,
           <1>14 DEF Advance

LEMMA NextNumbers == TypeInv /\ NumbersInv /\ [Next]_vars => NumbersInv'
<1> SUFFICES ASSUME TypeInv, NumbersInv, [Next]_vars PROVE NumbersInv'
  OBVIOUS
<1>1. ASSUME NEW q \in Requests, NoticeFails(q) PROVE NumbersInv'
  BY <1>1, NextInSweepNumbers DEF NoticeFails
<1>2. ASSUME NEW q \in Requests, Abort(q) PROVE NumbersInv'
  <2>1. SameInvoices /\ mail' \subseteq Invoices
    BY <1>2 DEF Abort, SameInvoices, Exists, TypeInv, TypeOK
  <2> QED BY <1>2, <2>1, AnswerNumbers DEF Abort
<1>3. ASSUME \/ \E p \in Payments : Capture(p) \/ Decline(p)
             \/ \E i \in Invoices : DueDatePasses(i)
             \/ UNCHANGED vars
      PROVE  NumbersInv'
  <2>1. UNCHANGED <<invoice, counter, mail, payment, req>>
    BY <1>3 DEF Capture, Decline, DueDatePasses, vars
  <2> QED BY <2>1 DEF NumbersInv, NumbersUnique, Refers, Inserting, Exists
<1> QED BY <1>1, <1>2, <1>3, ArriveNumbers, AdvanceNumbers DEF Next

(* Two invoices never share a number, however many handlers raise invoices *)
(* at once and wherever they die: Counter.next() is one atomic increment,  *)
(* and a handler that dies with a number leaves a gap.                     *)
THEOREM NumbersStayUnique == Spec => []NumbersUnique
<1>1. Init => TypeInv /\ NumbersInv
  BY InitTypeInv, InitNumbers
<1>2. TypeInv /\ NumbersInv /\ [Next]_vars => (TypeInv /\ NumbersInv)'
  BY NextTypeInv, NextNumbers
<1>3. TypeInv /\ NumbersInv => NumbersUnique
  BY DEF NumbersInv
<1> QED BY <1>1, <1>2, <1>3, PTL DEF Spec

-----------------------------------------------------------------------------
(* One handler at a time, as in the scheduled jobs of one process.  What a *)
(* handler has loaded is then what it will find, so an invoice that was    *)
(* noticed never opens again and a paid one is never reopened.             *)

OneAtATime == MaxInFlight <= 1

Alone == \A p, q \in InFlight : p = q

(* The billed account has been told, or is being told, that i is overdue.  *)
Told(i) == i \in pastDue /\ invoice[i].status \in {"overdue", "paid", "void", "cancelled"}

(* What a handler holds is what is stored. *)
Ready(q) ==
  /\ req[q].pc \in {"send", "void", "record", "pdf", "mailed"}
       => req[q].doc.status = invoice[req[q].inv].status
  /\ req[q].pc = "record" => req[q].doc = invoice[req[q].inv]
  /\ req[q].pc = "notice" => Told(req[q].inv) /\ notices[req[q].inv] = 0
  /\ req[q].pc \in {"sweep", "notice"}
       => \A i \in req[q].list : i \in pastDue /\ invoice[i].status \in Open

Sound(i) ==
  /\ invoice[i].status = "paid" => invoice[i].paid >= invoice[i].total
  /\ notices[i] <= 1
  /\ notices[i] # 0 => Told(i)

SoloInv ==
  /\ Alone
  /\ \A q \in Requests : Ready(q)
  /\ \A i \in Invoices : Sound(i)

Kept == \A i \in Invoices : invoice[i].status = "paid" => invoice'[i].status \in {"paid", "void"}

LEMMA InitSolo == Init => SoloInv
  BY DEF Init, SoloInv, Alone, InFlight, Ready, Sound, Idle, NoInvoice

(* One handler moves: the others are idle. *)
LEMMA SoloStep ==
  ASSUME NEW q \in Requests, \A p \in Requests \ {q} : req'[p].pc = "idle",
         Ready(q)', \A i \in Invoices : Sound(i)'
  PROVE  SoloInv'
<1>1. Alone'
  BY DEF Alone, InFlight
<1>2. ASSUME NEW p \in Requests PROVE Ready(p)'
  <2>1. CASE p = q
    BY <2>1
  <2>2. CASE p # q
    BY <2>2 DEF Ready
  <2>3. QED BY <2>1, <2>2
<1>3. QED BY <1>1, <1>2 DEF SoloInv

LEMMA OthersIdle ==
  ASSUME TypeInv, Alone, NEW q \in Requests, req[q].pc # "idle", NEW v, req' = [req EXCEPT ![q] = v]
  PROVE  req'[q] = v /\ \A p \in Requests \ {q} : req'[p].pc = "idle"
  BY DEF Alone, InFlight, TypeInv, TypeOK

LEMMA AdmittedAlone ==
  ASSUME OneAtATime, TypeInv, Alone, NEW q \in Requests, NEW op, Admit(q, op),
         NEW v, req' = [req EXCEPT ![q] = v]
  PROVE  req'[q] = v /\ \A p \in Requests \ {q} : req'[p].pc = "idle"
<1>1. InFlight = {}
  <2>1. SUFFICES ASSUME NEW p \in InFlight PROVE FALSE
    OBVIOUS
  <2>2. InFlight = {p}
    BY <2>1 DEF Alone
  <2>3. Cardinality({p}) = 1
    BY FS_Singleton
  <2>4. QED BY <2>2, <2>3, InvoicingConstants DEF Admit, OneAtATime
<1>2. QED BY <1>1 DEF InFlight, TypeInv, TypeOK

(* A handler that begins and has read what it holds; nothing is written.   *)
LEMMA ReadSolo ==
  ASSUME SoloInv, NEW q \in Requests, \A p \in Requests \ {q} : req'[p].pc = "idle",
         UNCHANGED <<invoice, notices, external>>, Ready(q)'
  PROVE  SoloInv' /\ Kept
<1>1. \A i \in Invoices : Sound(i)'
  BY DEF SoloInv, Sound, Told, external
<1>2. QED BY <1>1, SoloStep DEF Kept

LEMMA LoadSolo ==
  ASSUME TypeInv, SoloInv, NEW q \in Requests, NEW i \in Invoices, NEW pc \in {"send", "void", "order", "pdf"},
         NEW v, v = [Idle EXCEPT !.pc = pc, !.inv = i, !.doc = invoice[i]],
         req'[q] = v, \A p \in Requests \ {q} : req'[p].pc = "idle",
         UNCHANGED <<invoice, notices, external>>
  PROVE  SoloInv' /\ Kept
<1>1. req'[q].pc = pc /\ req'[q].inv = i /\ req'[q].doc = invoice[i]
  BY DEF Idle
<1>2. Ready(q)'
  BY <1>1 DEF Ready
<1>3. QED BY <1>2, ReadSolo

LEMMA BeginSolo ==
  ASSUME OneAtATime, TypeInv, SoloInv, NEW q \in Requests, NEW i \in Invoices,
         NEW op, NEW pc \in {"send", "void", "order", "pdf"},
         Admit(q, op), Load(q, i, pc), UNCHANGED <<invoice, notices, external>>
  PROVE  SoloInv' /\ Kept
<1>1. PICK v : v = [Idle EXCEPT !.pc = pc, !.inv = i, !.doc = invoice[i]]
  OBVIOUS
<1>2. req' = [req EXCEPT ![q] = v]
  BY <1>1 DEF Load
<1>3. req'[q] = v /\ \A p \in Requests \ {q} : req'[p].pc = "idle"
  BY <1>2, AdmittedAlone DEF SoloInv
<1>4. QED BY <1>1, <1>3, LoadSolo

LEMMA ArriveSolo ==
  ASSUME OneAtATime, TypeInv, SoloInv, NEW q \in Requests, Arrive(q)
  PROVE  SoloInv' /\ Kept
<1>0. Alone
  BY DEF SoloInv
<1>1. CASE FindExisting(q) \/ CreateDraft(q)
  <2>1. PICK op, v : Admit(q, op) /\ req' = [req EXCEPT ![q] = v] /\ v.pc = "number"
                     /\ UNCHANGED <<invoice, notices, external>>
    BY <1>1 DEF FindExisting, CreateDraft, Idle
  <2>2. Ready(q)' /\ \A p \in Requests \ {q} : req'[p].pc = "idle"
    BY <1>0, <2>1, AdmittedAlone DEF Ready
  <2>3. QED BY <2>1, <2>2, ReadSolo
<1>2. CASE LoadToSend(q) \/ LoadToVoid(q) \/ LoadToPay(q) \/ LoadToMail(q)
  <2>1. CASE LoadToSend(q)
    BY <2>1, BeginSolo DEF LoadToSend
  <2>2. CASE LoadToVoid(q)
    BY <2>2, BeginSolo DEF LoadToVoid
  <2>3. CASE LoadToPay(q)
    BY <2>3, BeginSolo DEF LoadToPay
  <2>4. CASE LoadToMail(q)
    BY <2>4, BeginSolo DEF LoadToMail, TypeInv, TypeOK
  <2>5. QED BY <1>2, <2>1, <2>2, <2>3, <2>4
<1>3. CASE FindOverdue(q)
  <2>1. PICK v : /\ Admit(q, "sweep") /\ req' = [req EXCEPT ![q] = v] /\ v.pc = "sweep"
                 /\ v.list = {i \in pastDue : invoice[i].status \in Open}
                 /\ UNCHANGED <<invoice, notices, external>>
    BY <1>3 DEF FindOverdue, Idle
  <2>2. req'[q] = v /\ \A p \in Requests \ {q} : req'[p].pc = "idle"
    BY <1>0, <2>1, AdmittedAlone
  <2>3. Ready(q)'
    BY <2>1, <2>2 DEF Ready, external
  <2>4. QED BY <2>1, <2>2, <2>3, ReadSolo
<1>4. ASSUME NEW p \in Payments, FindPending(q, p) \/ FindDeclined(q, p) PROVE SoloInv' /\ Kept
  <2>1. PICK v : /\ Admit(q, "webhook") /\ req' = [req EXCEPT ![q] = v] /\ v.pc \in {"complete", "fail"}
                 /\ UNCHANGED <<invoice, notices, external>>
    BY <1>4 DEF FindPending, FindDeclined, Idle
  <2>2. Ready(q)' /\ \A x \in Requests \ {q} : req'[x].pc = "idle"
    BY <1>0, <2>1, AdmittedAlone DEF Ready
  <2>3. QED BY <2>1, <2>2, ReadSolo
<1>5. QED BY <1>1, <1>2, <1>3, <1>4 DEF Arrive

(* A save that turns the status of i into st. *)
Becomes(i, st) ==
  /\ \A j \in Invoices \ {i} : invoice'[j] = invoice[j]
  /\ invoice'[i].status = st
  /\ invoice'[i].paid = invoice[i].paid /\ invoice'[i].total = invoice[i].total

LEMMA FreshSave ==
  ASSUME TypeInv, NEW q \in Requests, req[q].inv \in Invoices,
         req[q].doc.status = invoice[req[q].inv].status, NEW st, SaveStatus(q, st)
  PROVE  Becomes(req[q].inv, Hooked(req[q].inv, st))
  BY DEF TypeInv, TypeOK, Invoice, SaveStatus, Merged, Becomes

LEMMA StatusSolo ==
  ASSUME TypeInv, SoloInv, NEW i \in Invoices, NEW st, Becomes(i, Hooked(i, st)),
         \/ st = invoice[i].status
         \/ st = "void"
         \/ st = "sent" /\ invoice[i].status = "draft",
         UNCHANGED <<notices, external>>
  PROVE  Kept /\ \A j \in Invoices : Sound(j)'
<1>1. Sound(i) /\ pastDue' = pastDue
  BY DEF SoloInv, external
<1>2. ASSUME NEW j \in Invoices \ {i} PROVE Sound(j)'
  BY <1>1 DEF SoloInv, Sound, Told, Becomes
<1>3. Sound(i)'
  BY <1>1 DEF Sound, Told, Becomes, Hooked, Open
<1>4. Kept
  BY DEF Kept, Becomes, Hooked, Open
<1>5. QED BY <1>2, <1>3, <1>4

LEMMA AnswerSolo ==
  ASSUME TypeInv, SoloInv, NEW q \in Requests, req[q].pc # "idle", Answer(q), \A i \in Invoices : Sound(i)'
  PROVE  SoloInv'
<1>1. req'[q] = Idle /\ \A p \in Requests \ {q} : req'[p].pc = "idle"
  BY OthersIdle DEF SoloInv, Answer
<1>2. Ready(q)'
  BY <1>1 DEF Ready, Idle
<1>3. QED BY <1>1, <1>2, SoloStep

LEMMA NothingSaved ==
  ASSUME SoloInv, UNCHANGED <<invoice, notices, external>>
  PROVE  Kept /\ \A j \in Invoices : Sound(j)'
  BY DEF SoloInv, Sound, Told, external, Kept

(* An invoice is inserted; no one was told of it before. *)
LEMMA InsertSolo ==
  ASSUME TypeInv, SoloInv, NEW q \in Requests, InsertInvoice(q)
  PROVE  SoloInv' /\ Kept
<1>1. PICK i \in Invoices, t \in Totals :
        /\ ~Exists(i)
        /\ invoice' = [invoice EXCEPT ![i] =
                        [status |-> "draft", number |-> req[q].number, total |-> t,
                         paid |-> 0, due |-> t, forJob |-> req[q].forJob]]
        /\ IF req[q].forJob
             THEN req' = [req EXCEPT ![q].pc = "reload", ![q].inv = i]
             ELSE Answer(q)
  BY DEF InsertInvoice
<1>2. /\ invoice[i].status = "absent" /\ invoice'[i].status = "draft"
      /\ \A j \in Invoices \ {i} : invoice'[j] = invoice[j]
  BY <1>1 DEF TypeInv, TypeOK, Exists
<1>3. UNCHANGED <<notices, pastDue>> /\ Sound(i) /\ \A j \in Invoices : Sound(j)
  BY DEF InsertInvoice, external, SoloInv
<1>4. \A j \in Invoices : Sound(j)'
  BY <1>2, <1>3 DEF Sound, Told
<1>5. Kept
  BY <1>2 DEF Kept
<1>6. req[q].pc = "insert" /\ Alone /\ req \in [Requests -> Request]
  BY DEF InsertInvoice, SoloInv, TypeInv, TypeOK
<1>7. PICK v : req' = [req EXCEPT ![q] = v] /\ v.pc \in {"reload", "idle"}
  <2>1. CASE req' = [req EXCEPT ![q].pc = "reload", ![q].inv = i]
    <3>1. PICK v : v = [req[q] EXCEPT !.pc = "reload", !.inv = i]
      OBVIOUS
    <3>2. req' = [req EXCEPT ![q] = v] /\ v.pc = "reload"
      BY <1>6, <2>1, <3>1 DEF Request
    <3>3. QED BY <3>2
  <2>2. CASE Answer(q)
    <3>1. Idle.pc = "idle"
      BY DEF Idle
    <3>2. QED BY <2>2, <3>1 DEF Answer
  <2>3. QED BY <1>1, <2>1, <2>2
<1>8. req'[q] = v /\ \A p \in Requests \ {q} : req'[p].pc = "idle"
  BY <1>6, <1>7, OthersIdle
<1>9. Ready(q)'
  BY <1>7, <1>8 DEF Ready
<1>10. QED BY <1>4, <1>5, <1>8, <1>9, SoloStep

(* A payment is added to the invoice as it is stored. *)
LEMMA RecordSolo ==
  ASSUME TypeInv, SoloInv, NEW q \in Requests, RecordPayment(q)
  PROVE  SoloInv' /\ Kept
<1>1. PICK i, doc : i = req[q].inv /\ doc = req[q].doc
  OBVIOUS
<1>2. PICK paid : paid = doc.paid + payment[req[q].pay].total
  OBVIOUS
<1>3. PICK due : due = Due(doc.total, paid)
  OBVIOUS
<1>4. /\ req[q].pc = "record" /\ Answer(q) /\ UNCHANGED <<notices, pastDue>>
      /\ invoice' = [invoice EXCEPT
           ![i].paid   = paid,
           ![i].due    = Merged(@, doc.due, due),
           ![i].status = Merged(@, doc.status,
                                Hooked(i, IF due = 0 THEN "paid" ELSE "partially_paid"))]
  BY <1>1, <1>2, <1>3 DEF RecordPayment, external
<1>5. /\ i \in Invoices /\ doc = invoice[i] /\ doc \in Invoice
      /\ payment[req[q].pay].total \in Nat
      /\ \A j \in Invoices : Sound(j)
  BY <1>1, <1>4 DEF SoloInv, Ready, TypeInv, TypeOK, RequestShape, Payment
<1>6. /\ paid \in Nat /\ paid >= doc.paid
      /\ due = 0 => paid >= doc.total
      /\ doc.paid >= doc.total => due = 0
  BY <1>2, <1>3, <1>5 DEF Due, Invoice
<1>7. PICK st : st = Hooked(i, IF due = 0 THEN "paid" ELSE "partially_paid")
  OBVIOUS
<1>8. /\ invoice'[i].status = st /\ invoice'[i].paid = paid /\ invoice'[i].total = doc.total
      /\ \A j \in Invoices \ {i} : invoice'[j] = invoice[j]
  BY <1>4, <1>5, <1>7 DEF Merged, TypeInv, TypeOK, Invoice
<1>9. /\ st = "paid" <=> due = 0
      /\ i \in pastDue => st \in {"paid", "overdue"}
  BY <1>7 DEF Hooked, Open
<1>10. Sound(i)'
  BY <1>4, <1>5, <1>6, <1>8, <1>9 DEF Sound, Told
<1>11. \A j \in Invoices \ {i} : Sound(j)'
  BY <1>4, <1>5, <1>8 DEF Sound, Told
<1>12. Kept
  BY <1>5, <1>6, <1>8, <1>9 DEF Kept, Sound
<1>13. SoloInv'
  BY <1>4, <1>10, <1>11, AnswerSolo
<1>14. QED BY <1>12, <1>13

(* The sweep writes "overdue" over an invoice nobody was told of yet. *)
LEMMA MarkSolo ==
  ASSUME TypeInv, SoloInv, NEW q \in Requests, MarkOverdue(q)
  PROVE  SoloInv' /\ Kept
<1>1. PICK i \in req[q].list :
        /\ invoice' = [invoice EXCEPT ![i].status = "overdue"]
        /\ req' = [req EXCEPT ![q].pc = "notice", ![q].inv = i, ![q].list = @ \ {i}]
  BY DEF MarkOverdue
<1>2. /\ req[q].pc = "sweep" /\ UNCHANGED <<notices, pastDue>> /\ Alone
      /\ req \in [Requests -> Request] /\ req[q].list \subseteq Invoices
      /\ invoice \in [Invoices -> Invoice]
      /\ Ready(q) /\ \A j \in Invoices : Sound(j)
  BY DEF MarkOverdue, external, SoloInv, TypeInv, TypeOK, Request
<1>3. /\ i \in Invoices /\ i \in pastDue /\ invoice[i].status \in Open /\ notices[i] = 0
  BY <1>1, <1>2 DEF Ready, Sound, Told, Open
<1>4. /\ invoice'[i].status = "overdue"
      /\ invoice'[i].paid = invoice[i].paid /\ invoice'[i].total = invoice[i].total
      /\ \A j \in Invoices \ {i} : invoice'[j] = invoice[j]
  BY <1>1, <1>2, <1>3 DEF Invoice
<1>5. \A j \in Invoices : Sound(j)'
  BY <1>2, <1>3, <1>4 DEF Sound, Told
<1>6. Kept
  BY <1>3, <1>4 DEF Kept, Open
<1>7. PICK v : v = [req[q] EXCEPT !.pc = "notice", !.inv = i, !.list = @ \ {i}]
  OBVIOUS
<1>8. /\ req' = [req EXCEPT ![q] = v]
      /\ v.pc = "notice" /\ v.inv = i /\ v.list = req[q].list \ {i}
  BY <1>1, <1>2, <1>7 DEF Request
<1>9. req'[q] = v /\ \A p \in Requests \ {q} : req'[p].pc = "idle"
  BY <1>2, <1>8, OthersIdle
<1>10. Ready(q)'
  BY <1>2, <1>3, <1>4, <1>8, <1>9 DEF Ready, Told
<1>11. QED BY <1>5, <1>6, <1>9, <1>10, SoloStep

(* After a notice, or its failure, the sweep goes on with the rest of its list. *)
LEMMA NextInSweepSolo ==
  ASSUME TypeInv, SoloInv, NEW q \in Requests, req[q].pc = "notice", NextInSweep(q),
         UNCHANGED <<invoice, pastDue>>, \A i \in Invoices : Sound(i)'
  PROVE  SoloInv'
<1>1. Alone /\ Ready(q) /\ req \in [Requests -> Request]
  BY DEF SoloInv, TypeInv, TypeOK
<1>2. CASE Answer(q)
  BY <1>2, AnswerSolo
<1>3. CASE req' = [req EXCEPT ![q].pc = "sweep"]
  <2>1. PICK v : v = [req[q] EXCEPT !.pc = "sweep"]
    OBVIOUS
  <2>2. req' = [req EXCEPT ![q] = v] /\ v.pc = "sweep" /\ v.list = req[q].list
    BY <1>1, <1>3, <2>1 DEF Request
  <2>3. req'[q] = v /\ \A p \in Requests \ {q} : req'[p].pc = "idle"
    BY <1>1, <2>2, OthersIdle
  <2>4. Ready(q)'
    BY <1>1, <2>2, <2>3 DEF Ready
  <2>5. QED BY <2>3, <2>4, SoloStep
<1>4. QED BY <1>2, <1>3 DEF NextInSweep

LEMMA NoticeSolo ==
  ASSUME TypeInv, SoloInv, NEW q \in Requests, SendNotice(q)
  PROVE  SoloInv' /\ Kept
<1>1. PICK i : i = req[q].inv
  OBVIOUS
<1>2. /\ req[q].pc = "notice" /\ notices' = [notices EXCEPT ![i] = @ + 1] /\ NextInSweep(q)
      /\ UNCHANGED <<invoice, pastDue>>
  BY <1>1 DEF SendNotice, external
<1>3. /\ i \in Invoices /\ notices \in [Invoices -> Nat]
      /\ Told(i) /\ notices[i] = 0 /\ \A j \in Invoices : Sound(j)
  BY <1>1, <1>2 DEF SoloInv, Ready, TypeInv, TypeOK, RequestShape
<1>4. \A j \in Invoices : Sound(j)'
  BY <1>2, <1>3 DEF Sound, Told
<1>5. SoloInv'
  BY <1>2, <1>4, NextInSweepSolo
<1>6. QED BY <1>2, <1>5 DEF Kept

(* The e-mail job's first save: it holds what it has just written. *)
LEMMA SavePdfSolo ==
  ASSUME TypeInv, SoloInv, NEW q \in Requests, SavePdf(q)
  PROVE  SoloInv' /\ Kept
<1>1. PICK i, st : i = req[q].inv /\ st = req[q].doc.status
  OBVIOUS
<1>2. /\ req[q].pc = "pdf" /\ SaveStatus(q, st) /\ UNCHANGED <<notices, external>>
      /\ \/ Answer(q)
         \/ req' = [req EXCEPT ![q].pc = "mailed", ![q].doc.status = Hooked(i, @)]
  BY <1>1 DEF SavePdf
<1>3. /\ i \in Invoices /\ st = invoice[i].status /\ Alone
      /\ req \in [Requests -> Request]
  BY <1>1, <1>2 DEF SoloInv, Ready, TypeInv, TypeOK, RequestShape
<1>4. Becomes(i, Hooked(i, st))
  BY <1>1, <1>2, <1>3, FreshSave
<1>5. Kept /\ \A j \in Invoices : Sound(j)'
  BY <1>2, <1>3, <1>4, StatusSolo
<1>6. CASE Answer(q)
  BY <1>2, <1>5, <1>6, AnswerSolo
<1>7. CASE req' = [req EXCEPT ![q].pc = "mailed", ![q].doc.status = Hooked(i, @)]
  <2>1. PICK v : v = [req[q] EXCEPT !.pc = "mailed", !.doc.status = Hooked(i, st)]
    OBVIOUS
  <2>2. /\ req' = [req EXCEPT ![q] = v]
        /\ v.pc = "mailed" /\ v.inv = i /\ v.doc.status = Hooked(i, st)
    BY <1>1, <1>3, <1>7, <2>1 DEF Request, Invoice
  <2>3. req'[q] = v /\ \A p \in Requests \ {q} : req'[p].pc = "idle"
    BY <1>2, <1>3, <2>2, OthersIdle
  <2>4. Ready(q)'
    BY <1>4, <2>2, <2>3 DEF Ready, Becomes
  <2>5. QED BY <1>5, <2>3, <2>4, SoloStep
<1>8. QED BY <1>2, <1>6, <1>7

(* The saves that end their handler. *)
LEMMA SaveSolo ==
  ASSUME TypeInv, SoloInv, NEW q \in Requests, SaveSent(q) \/ SaveVoid(q) \/ SaveMailed(q)
  PROVE  SoloInv' /\ Kept
<1>1. PICK i : i = req[q].inv
  OBVIOUS
<1>2. /\ i \in Invoices /\ req[q].doc.status = invoice[i].status /\ req[q].pc # "idle"
      /\ Answer(q) /\ UNCHANGED <<notices, external>>
  BY <1>1 DEF SaveSent, SaveVoid, SaveMailed, SoloInv, Ready, TypeInv, RequestShape
<1>3. PICK st : /\ SaveStatus(q, st)
                /\ \/ st = invoice[i].status
                   \/ st = "void"
                   \/ st = "sent" /\ invoice[i].status = "draft"
  <2>1. CASE SaveSent(q)
    BY <1>2, <2>1 DEF SaveSent
  <2>2. CASE SaveVoid(q)
    BY <2>2 DEF SaveVoid
  <2>3. CASE SaveMailed(q)
    BY <1>2, <2>3 DEF SaveMailed
  <2>4. QED BY <2>1, <2>2, <2>3
<1>4. Becomes(i, Hooked(i, st))
  BY <1>1, <1>2, <1>3, FreshSave
<1>5. Kept /\ \A j \in Invoices : Sound(j)'
  BY <1>2, <1>3, <1>4, StatusSolo
<1>6. QED BY <1>2, <1>5, AnswerSolo

(* The steps that write no invoice and no notice. *)
LEMMA QuietSolo ==
  ASSUME TypeInv, SoloInv, NEW q \in Requests,
         \/ NextNumber(q) \/ Reload(q) \/ InsertPayment(q) \/ CompletePayment(q)
         \/ LoadToCredit(q) \/ FailPayment(q) \/ NoticeFails(q) \/ Abort(q)
  PROVE  SoloInv' /\ Kept
<1>1. UNCHANGED <<invoice, notices, external>> /\ req[q].pc # "idle"
  BY DEF NextNumber, Reload, InsertPayment, CompletePayment, LoadToCredit, FailPayment,
         NoticeFails, Abort, external
<1>2. Kept /\ \A j \in Invoices : Sound(j)'
  BY <1>1, NothingSaved
<1>3. Alone /\ req \in [Requests -> Request]
  BY DEF SoloInv, TypeInv, TypeOK
<1>4. CASE Answer(q)
  BY <1>1, <1>2, <1>4, AnswerSolo
<1>5. CASE NextNumber(q) \/ CompletePayment(q)
  <2>1. PICK v : req' = [req EXCEPT ![q] = v] /\ v.pc \in {"insert", "credit"}
    <3>1. CASE NextNumber(q)
      <4>1. PICK v : v = [req[q] EXCEPT !.pc = "insert", !.number = counter + 1]
        OBVIOUS
      <4>2. req' = [req EXCEPT ![q] = v] /\ v.pc = "insert"
        BY <1>3, <3>1, <4>1 DEF NextNumber, Request
      <4>3. QED BY <4>2
    <3>2. CASE CompletePayment(q)
      <4>1. PICK v : v = [req[q] EXCEPT !.pc = "credit"]
        OBVIOUS
      <4>2. req' = [req EXCEPT ![q] = v] /\ v.pc = "credit"
        BY <1>3, <3>2, <4>1 DEF CompletePayment, Request
      <4>3. QED BY <4>2
    <3>3. QED BY <1>5, <3>1, <3>2
  <2>2. req'[q] = v /\ \A p \in Requests \ {q} : req'[p].pc = "idle"
    BY <1>1, <1>3, <2>1, OthersIdle
  <2>3. Ready(q)'
    BY <2>1, <2>2 DEF Ready
  <2>4. QED BY <1>1, <2>2, <2>3, ReadSolo
<1>6. CASE Reload(q)
  <2>1. PICK i, v : /\ i = req[q].inv
                    /\ v = [Idle EXCEPT !.pc = "send", !.inv = i, !.doc = invoice[i]]
    OBVIOUS
  <2>2. i \in Invoices /\ req' = [req EXCEPT ![q] = v]
    BY <1>6, <2>1 DEF Reload, Load, TypeInv, RequestShape
  <2>3. req'[q] = v /\ \A p \in Requests \ {q} : req'[p].pc = "idle"
    BY <1>1, <1>3, <2>2, OthersIdle
  <2>4. QED BY <1>1, <2>1, <2>2, <2>3, LoadSolo
<1>7. CASE LoadToCredit(q)
  <2>1. PICK i, v : /\ i = payment[req[q].pay].invoice
                    /\ v = [req[q] EXCEPT !.pc = "record", !.inv = i, !.doc = invoice[i]]
    OBVIOUS
  <2>2. /\ req' = [req EXCEPT ![q] = v]
        /\ v.pc = "record" /\ v.inv = i /\ v.doc = invoice[i]
    BY <1>3, <1>7, <2>1 DEF LoadToCredit, Request
  <2>3. req'[q] = v /\ \A p \in Requests \ {q} : req'[p].pc = "idle"
    BY <1>1, <1>3, <2>2, OthersIdle
  <2>4. Ready(q)'
    BY <1>1, <2>2, <2>3 DEF Ready
  <2>5. QED BY <1>1, <2>3, <2>4, ReadSolo
<1>8. CASE NoticeFails(q)
  <2>1. NextInSweep(q) /\ req[q].pc = "notice" /\ UNCHANGED pastDue
    BY <1>8 DEF NoticeFails, external
  <2>2. QED BY <1>1, <1>2, <2>1, NextInSweepSolo
<1>9. QED
  <2>1. CASE InsertPayment(q) \/ FailPayment(q) \/ Abort(q)
    BY <1>4, <2>1 DEF InsertPayment, FailPayment, Abort
  <2>2. QED BY <1>5, <1>6, <1>7, <1>8, <2>1

(* What the gateway and the calendar do disturbs no handler. *)
LEMMA OutsideSolo ==
  ASSUME TypeInv, SoloInv,
         \/ \E p \in Payments : Capture(p) \/ Decline(p)
         \/ \E i \in Invoices : DueDatePasses(i)
         \/ UNCHANGED vars
  PROVE  SoloInv' /\ Kept
<1>1. UNCHANGED <<invoice, notices, req>> /\ pastDue \subseteq pastDue'
  BY DEF Capture, Decline, DueDatePasses, vars, external
<1>2. Alone' /\ Kept
  BY <1>1 DEF SoloInv, Alone, InFlight, Kept
<1>3. \A i \in Invoices : Told(i) => Told(i)'
  BY <1>1 DEF Told
<1>4. \A i \in Invoices : Sound(i)'
  BY <1>1, <1>3 DEF SoloInv, Sound
<1>5. ASSUME NEW q \in Requests PROVE Ready(q)'
  <2>1. Ready(q) /\ RequestShape(req[q])
    BY DEF SoloInv, TypeInv
  <2>2. QED BY <1>1, <1>3, <2>1 DEF Ready, RequestShape, Told
<1>6. QED BY <1>2, <1>4, <1>5 DEF SoloInv

LEMMA NextSolo ==
  ASSUME OneAtATime
  PROVE  TypeInv /\ SoloInv /\ [Next]_vars => SoloInv' /\ Kept
<1>1. SUFFICES ASSUME TypeInv, SoloInv, [Next]_vars PROVE SoloInv' /\ Kept
  OBVIOUS
<1>2. ASSUME NEW q \in Requests, Advance(q) PROVE SoloInv' /\ Kept
  BY <1>1, <1>2, QuietSolo, InsertSolo, SaveSolo, SavePdfSolo, RecordSolo, MarkSolo, NoticeSolo
  DEF Advance
<1>3. ASSUME NEW q \in Requests, Arrive(q) \/ NoticeFails(q) \/ Abort(q) PROVE SoloInv' /\ Kept
  BY <1>1, <1>3, ArriveSolo, QuietSolo
<1>4. QED BY <1>1, <1>2, <1>3, OutsideSolo DEF Next

(* With one handler at a time the billed account is told at most once that *)
(* its invoice is overdue: the overdue sweep of jobs/invoice.job.ts takes  *)
(* only open invoices, and no later save opens one that was noticed.       *)
THEOREM OneNotice ==
  ASSUME OneAtATime
  PROVE  Spec => []NoticeOnce
<1>1. Init => TypeInv /\ SoloInv
  BY InitTypeInv, InitSolo
<1>2. TypeInv /\ SoloInv /\ [Next]_vars => (TypeInv /\ SoloInv)'
  BY NextTypeInv, NextSolo
<1>3. TypeInv /\ SoloInv => NoticeOnce
  BY DEF SoloInv, Sound, NoticeOnce
<1> QED BY <1>1, <1>2, <1>3, PTL DEF Spec

(* With one handler at a time a paid invoice stays paid unless it is       *)
(* voided, even when a further payment for it is captured: its balance is  *)
(* then still zero (recordPayment() of models/Invoice.ts).                 *)
THEOREM PaidStays ==
  ASSUME OneAtATime
  PROVE  Spec => PaidIsKept
<1>1. Init => TypeInv /\ SoloInv
  BY InitTypeInv, InitSolo
<1>2. TypeInv /\ SoloInv /\ [Next]_vars => (TypeInv /\ SoloInv)'
  BY NextTypeInv, NextSolo
<1>3. TypeInv /\ SoloInv /\ [Next]_vars
        => [\A i \in Invoices :
              invoice[i].status = "paid" => invoice'[i].status \in {"paid", "void"}]_vars
  BY NextSolo DEF Kept
<1> QED BY <1>1, <1>2, <1>3, PTL DEF Spec, PaidIsKept

-----------------------------------------------------------------------------
(* Sums over finite sets.  A sum of numbers is the size of a finite set,   *)
(* which gives its value without an induction: what is recursive agrees    *)
(* with the size on every subset, for there is no least one where it does  *)
(* not.                                                                    *)

(* x as often as n[x] says, for every x of S: as many pairs as the sum.     *)
Pile(n, S) == {e \in S \X Nat : e[2] < n[e[1]]}

LEMMA PileEmpty ==
  ASSUME NEW n
  PROVE  IsFiniteSet(Pile(n, {})) /\ Cardinality(Pile(n, {})) = 0
<1>1. Pile(n, {}) = {}
  BY DEF Pile
<1>2. QED BY <1>1, FS_EmptySet

LEMMA PileOne ==
  ASSUME NEW n, NEW x, n[x] \in Nat
  PROVE  IsFiniteSet(Pile(n, {x})) /\ Cardinality(Pile(n, {x})) = n[x]
<1>1. PICK m \in Nat : m = n[x]
  OBVIOUS
<1>2. PICK f : f = [k \in 1..m |-> <<x, k - 1>>]
  OBVIOUS
<1>3. Pile(n, {x}) = {e \in {x} \X Nat : e[2] < m}
  BY <1>1 DEF Pile
<1>4. \A k \in 1..m : f[k] \in Pile(n, {x})
  <2>1. TAKE k \in 1..m
  <2>2. k - 1 \in Nat /\ k - 1 < m
    OBVIOUS
  <2>3. f[k] = <<x, k - 1>>
    BY <1>2
  <2>4. QED BY <1>3, <2>2, <2>3
<1>5. f \in [1..m -> Pile(n, {x})]
  BY <1>2, <1>4
<1>6. \A j, k \in 1..m : f[j] = f[k] => j = k
  BY <1>2
<1>7. \A e \in Pile(n, {x}) : \E k \in 1..m : f[k] = e
  <2>1. TAKE e \in Pile(n, {x})
  <2>2. e = <<x, e[2]>> /\ e[2] \in Nat /\ e[2] < m
    BY <1>3
  <2>3. e[2] + 1 \in 1..m /\ f[e[2] + 1] = e
    BY <1>2, <2>2
  <2>4. QED BY <2>3
<1>8. f \in Bijection(1..m, Pile(n, {x}))
  BY <1>5, <1>6, <1>7 DEF Bijection, Injection, Surjection, IsInjective
<1>9. IsFiniteSet(1..m) /\ Cardinality(1..m) = m
  BY FS_Interval
<1>10. ExistsBijection(1..m, Pile(n, {x}))
  BY <1>8 DEF ExistsBijection
<1>11. QED BY <1>1, <1>9, <1>10, FS_Bijection

LEMMA PileUnion ==
  ASSUME NEW n, NEW S, NEW x, x \notin S, n[x] \in Nat, IsFiniteSet(Pile(n, S))
  PROVE  /\ IsFiniteSet(Pile(n, S \cup {x}))
         /\ Cardinality(Pile(n, S \cup {x})) = n[x] + Cardinality(Pile(n, S))
<1>1. Pile(n, S \cup {x}) = Pile(n, S) \cup Pile(n, {x})
  BY DEF Pile
<1>2. Pile(n, S) \cap Pile(n, {x}) = {}
  BY DEF Pile
<1>3. /\ IsFiniteSet(Pile(n, {x})) /\ Cardinality(Pile(n, {x})) = n[x]
      /\ Cardinality(Pile(n, S)) \in Nat
  BY PileOne, FS_CardinalityType
<1>4. /\ IsFiniteSet(Pile(n, S) \cup Pile(n, {x}))
      /\ Cardinality(Pile(n, S) \cup Pile(n, {x})) =
           Cardinality(Pile(n, S)) + Cardinality(Pile(n, {x})) - Cardinality({})
  BY <1>2, <1>3, FS_Union
<1>5. Cardinality(Pile(n, S)) + n[x] - 0 = n[x] + Cardinality(Pile(n, S))
  BY <1>3
<1>6. QED BY <1>1, <1>3, <1>4, <1>5, FS_EmptySet

(* Some minimal set of a family of finite sets.                            *)
LEMMA LeastSet ==
  ASSUME NEW S, IsFiniteSet(S), NEW F \in SUBSET SUBSET S, F # {}
  PROVE  \E T \in F : \A U \in F : U \subseteq T => U = T
<1>1. IsWellFoundedOn(StrictSubsetOrdering(S), SUBSET S)
  BY FS_StrictSubsetOrderingWellFounded, FS_FiniteSubsetsOfFinite
<1>2. PICK T \in F : \A U \in F : ~(<<U, T>> \in StrictSubsetOrdering(S))
  BY <1>1, WFMin
<1>3. QED BY <1>2 DEF StrictSubsetOrdering

LEMMA PilesFinite ==
  ASSUME NEW S, IsFiniteSet(S), NEW n, \A x \in S : n[x] \in Nat
  PROVE  \A s \in SUBSET S : IsFiniteSet(Pile(n, s))
<1> DEFINE Bad == {s \in SUBSET S : ~IsFiniteSet(Pile(n, s))}
<1>1. ASSUME Bad # {} PROVE FALSE
  <2>1. Bad \in SUBSET SUBSET S
    OBVIOUS
  <2>2. PICK s \in Bad : \A u \in Bad : u \subseteq s => u = s
    <3> HIDE DEF Bad
    <3>1. QED BY <1>1, <2>1, LeastSet
  <2>3. PICK x \in s : TRUE
    BY <2>2, PileEmpty
  <2>4. PICK u : u = s \ {x}
    OBVIOUS
  <2>5. u \in SUBSET S /\ u # s /\ u \subseteq s /\ x \notin u /\ s = u \cup {x} /\ n[x] \in Nat
    BY <2>2, <2>3, <2>4
  <2>6. IsFiniteSet(Pile(n, u))
    BY <2>2, <2>5
  <2>7. IsFiniteSet(Pile(n, u \cup {x}))
    BY <2>5, <2>6, PileUnion
  <2>8. QED BY <2>2, <2>5, <2>7
<1>2. QED BY <1>1

(* What a sum over the subsets of S is.                                    *)
Sums(f, n, S) ==
  \A s \in SUBSET S :
    f[s] = IF s = {} THEN 0 ELSE n[CHOOSE x \in s : TRUE] + f[s \ {CHOOSE x \in s : TRUE}]

LEMMA SumsArePiles ==
  ASSUME NEW S, IsFiniteSet(S), NEW n, \A x \in S : n[x] \in Nat, NEW f, Sums(f, n, S)
  PROVE  IsFiniteSet(Pile(n, S)) /\ f[S] = Cardinality(Pile(n, S))
<1> DEFINE Bad == {s \in SUBSET S : ~(IsFiniteSet(Pile(n, s)) /\ f[s] = Cardinality(Pile(n, s)))}
<1>1. ASSUME Bad # {} PROVE FALSE
  <2>1. PICK s \in Bad : \A u \in Bad : u \subseteq s => u = s
    <3>1. Bad \in SUBSET SUBSET S
      OBVIOUS
    <3> HIDE DEF Bad
    <3>2. QED BY <1>1, <3>1, LeastSet
  <2>2. s # {}
    <3>1. SUFFICES ASSUME s = {} PROVE FALSE
      OBVIOUS
    <3>2. {} \in SUBSET S
      OBVIOUS
    <3>3. f[{}] = 0
      BY <3>2 DEF Sums
    <3>4. QED BY <2>1, <3>1, <3>3, PileEmpty
  <2>3. PICK x : x = CHOOSE y \in s : TRUE
    OBVIOUS
  <2>4. x \in s
    BY <2>2, <2>3
  <2>5. f[s] = n[x] + f[s \ {x}]
    BY <2>1, <2>2, <2>3 DEF Sums
  <2>6. s \ {x} \notin Bad /\ s \ {x} \in SUBSET S
    BY <2>1, <2>4
  <2>7. IsFiniteSet(Pile(n, s \ {x})) /\ f[s \ {x}] = Cardinality(Pile(n, s \ {x}))
    BY <2>6
  <2>8. s = (s \ {x}) \cup {x} /\ x \notin s \ {x} /\ n[x] \in Nat
    BY <2>1, <2>4
  <2>9. IsFiniteSet(Pile(n, s)) /\ Cardinality(Pile(n, s)) = n[x] + Cardinality(Pile(n, s \ {x}))
    <3>1. PICK u : u = s \ {x}
      OBVIOUS
    <3>2. /\ IsFiniteSet(Pile(n, u \cup {x}))
          /\ Cardinality(Pile(n, u \cup {x})) = n[x] + Cardinality(Pile(n, u))
      BY <2>7, <2>8, <3>1, PileUnion
    <3>3. QED BY <2>8, <3>1, <3>2
  <2>10. QED BY <2>1, <2>5, <2>7, <2>9
<1>2. S \notin Bad
  BY <1>1
<1>3. QED BY <1>2

(* Lists of numbers as the models sum them.                                *)
Total(pay, S) == MapThenSumSet(LAMBDA p : pay[p].total, S)

LEMMA SumOfTotals ==
  ASSUME NEW S, IsFiniteSet(S), NEW pay, \A p \in S : pay[p].total \in Nat
  PROVE  LET n == [p \in S |-> pay[p].total]
         IN  IsFiniteSet(Pile(n, S))
             /\ Total(pay, S) = Cardinality(Pile(n, S))
<1> DEFINE c(s) == CHOOSE x \in s : TRUE
           iter == CHOOSE f : f = [s \in SUBSET S |-> IF s = {} THEN 0 ELSE pay[c(s)].total + f[s \ {c(s)}]]
           n == [p \in S |-> pay[p].total]
           h == [s \in SUBSET S |-> Cardinality(Pile(n, s))]
<1>1. Total(pay, S) = iter[S]
  BY DEF Total, MapThenSumSet, MapThenFoldSet
<1>2. ASSUME NEW s \in SUBSET S
      PROVE  h[s] = IF s = {} THEN 0 ELSE pay[c(s)].total + h[s \ {c(s)}]
  <2>1. h[s] = Cardinality(Pile(n, s))
    OBVIOUS
  <2>2. CASE s = {}
    BY <2>1, <2>2, PileEmpty
  <2>3. CASE s # {}
    <3>1. PICK x : x = c(s)
      OBVIOUS
    <3>2. x \in s
      BY <2>3, <3>1
    <3>3. PICK u : u = s \ {x}
      OBVIOUS
    <3>4. u \in SUBSET S /\ s = u \cup {x} /\ x \notin u /\ n[x] = pay[x].total /\ n[x] \in Nat
      BY <3>2, <3>3
    <3>5. IsFiniteSet(Pile(n, u))
      <4>1. \A y \in S : n[y] \in Nat
        OBVIOUS
      <4> HIDE DEF n
      <4>2. QED BY <4>1, <3>4, PilesFinite
    <3>6. Cardinality(Pile(n, u \cup {x})) = n[x] + Cardinality(Pile(n, u))
      <4> HIDE DEF n
      <4>1. QED BY <3>4, <3>5, PileUnion
    <3>7. h[u] = Cardinality(Pile(n, u))
      BY <3>4
    <3> HIDE DEF n, h
    <3>8. h[s] = pay[x].total + h[u]
      BY <2>1, <3>4, <3>6, <3>7
    <3>9. QED BY <2>3, <3>1, <3>3, <3>8
  <2>4. QED BY <2>2, <2>3
<1>3. h = [s \in SUBSET S |-> IF s = {} THEN 0 ELSE pay[c(s)].total + h[s \ {c(s)}]]
  BY <1>2
<1>4. iter = [s \in SUBSET S |-> IF s = {} THEN 0 ELSE pay[c(s)].total + iter[s \ {c(s)}]]
  <2> HIDE DEF h
  <2>1. QED BY <1>3
<1>5. Sums(iter, n, S)
  <2> HIDE DEF iter
  <2>1. SUFFICES ASSUME NEW s \in SUBSET S
                 PROVE  iter[s] = IF s = {} THEN 0 ELSE n[c(s)] + iter[s \ {c(s)}]
    BY DEF Sums
  <2>2. iter[s] = IF s = {} THEN 0 ELSE pay[c(s)].total + iter[s \ {c(s)}]
    BY <1>4
  <2>3. s # {} => n[c(s)] = pay[c(s)].total
    OBVIOUS
  <2>4. QED BY <2>2, <2>3
<1>6. \A y \in S : n[y] \in Nat
  OBVIOUS
<1>7. IsFiniteSet(Pile(n, S)) /\ iter[S] = Cardinality(Pile(n, S))
  <2> HIDE DEF iter, n
  <2>1. QED BY <1>5, <1>6, SumsArePiles
<1>8. QED BY <1>1, <1>7

LEMMA PileSame ==
  ASSUME NEW n, NEW m, NEW S, \A x \in S : n[x] = m[x]
  PROVE  Pile(n, S) = Pile(m, S)
<1>1. \A e \in S \X Nat : e[1] \in S
  OBVIOUS
<1>2. QED BY <1>1 DEF Pile

(* A total is a number, zero of nothing, one more payment adds its own,    *)
(* and it depends on the payments it is of.                                *)
LEMMA TotalType ==
  ASSUME NEW S, IsFiniteSet(S), NEW pay, \A p \in S : pay[p].total \in Nat
  PROVE  Total(pay, S) \in Nat
BY SumOfTotals, FS_CardinalityType

LEMMA TotalSame ==
  ASSUME NEW S, IsFiniteSet(S), NEW pay, NEW was, \A p \in S : pay[p].total \in Nat,
         \A p \in S : pay[p].total = was[p].total
  PROVE  Total(pay, S) = Total(was, S)
<1>1. [p \in S |-> pay[p].total] = [p \in S |-> was[p].total]
  OBVIOUS
<1>2. \A p \in S : was[p].total \in Nat
  OBVIOUS
<1>3. QED BY <1>1, <1>2, SumOfTotals

LEMMA TotalAdds ==
  ASSUME NEW S, IsFiniteSet(S), NEW q, q \notin S, NEW pay,
         \A p \in S \cup {q} : pay[p].total \in Nat
  PROVE  Total(pay, S \cup {q}) = pay[q].total + Total(pay, S)
<1>1. PICK n, m : n = [p \in S \cup {q} |-> pay[p].total] /\ m = [p \in S |-> pay[p].total]
  OBVIOUS
<1>2. IsFiniteSet(S \cup {q})
  BY FS_AddElement
<1>3. Total(pay, S \cup {q}) = Cardinality(Pile(n, S \cup {q}))
  BY <1>1, <1>2, SumOfTotals
<1>4. IsFiniteSet(Pile(m, S)) /\ Total(pay, S) = Cardinality(Pile(m, S))
  BY <1>1, SumOfTotals
<1>5. Pile(n, S) = Pile(m, S)
  <2>1. \A x \in S : n[x] = m[x]
    BY <1>1
  <2>2. QED BY <2>1, PileSame
<1>6. n[q] \in Nat /\ n[q] = pay[q].total
  BY <1>1
<1>7. IsFiniteSet(Pile(n, S)) /\ Cardinality(Pile(n, S)) = Total(pay, S)
  BY <1>4, <1>5
<1>8. Cardinality(Pile(n, S \cup {q})) = n[q] + Cardinality(Pile(n, S))
  BY <1>6, <1>7, PileUnion
<1>9. QED BY <1>3, <1>6, <1>7, <1>8

-----------------------------------------------------------------------------
(* What is credited.  With one handler at a time a payment that has been   *)
(* completed is credited before anything else is: what is paid and the     *)
(* payment at hand stay within the payments completed of the invoice.      *)
(* A handler that stops in between leaves the payment completed and not    *)
(* credited, which no later webhook finds pending.                         *)

Completed(i) == {p \in Payments : payment[p].invoice = i /\ payment[p].status = "completed"}

Credit(i) == Total(payment, Completed(i))

(* What a handler of a webhook holds: its payment is pending until it has  *)
(* completed it, and then not credited yet.                                *)
Holds(rq) ==
  /\ rq.pc \in {"complete", "fail"} => payment[rq.pay].status = "pending"
  /\ rq.pc \in {"credit", "record"} =>
       LET i == payment[rq.pay].invoice
       IN  /\ payment[rq.pay].status = "completed"
           /\ invoice[i].paid + payment[rq.pay].total <= Credit(i)
  /\ rq.pc = "record" => rq.inv = payment[rq.pay].invoice

CreditInv ==
  /\ IsFiniteSet({p \in Payments : payment[p].status = "completed"})
  /\ \A i \in Invoices : invoice[i].paid <= Credit(i)
  /\ \A q \in Requests : Holds(req[q])

LEMMA CompletedFinite ==
  ASSUME CreditInv, NEW i
  PROVE  IsFiniteSet(Completed(i))
BY FS_Subset DEF CreditInv, Completed

LEMMA CreditInit == Init => CreditInv
<1> SUFFICES ASSUME Init PROVE CreditInv
  OBVIOUS
<1>1. {p \in Payments : payment[p].status = "completed"} = {}
  BY DEF Init, NoPayment
<1>2. \A i \in Invoices : Completed(i) = {} /\ invoice[i].paid = 0
  BY DEF Init, NoPayment, NoInvoice, Completed
<1>3. Total(payment, {}) \in Nat
  BY FS_EmptySet, TotalType
<1>4. \A i \in Invoices : invoice[i].paid <= Credit(i)
  BY <1>2, <1>3 DEF Credit
<1>5. \A q \in Requests : Holds(req[q])
  BY DEF Init, Holds, Idle
<1>6. QED BY <1>1, <1>4, <1>5, FS_EmptySet DEF CreditInv

(* No payment is completed, and none that is changes.                      *)
Steady ==
  \A p \in Payments : /\ payment'[p].status = "completed" <=> payment[p].status = "completed"
                      /\ payment[p].status = "completed" => payment'[p] = payment[p]

LEMMA SteadyCredit ==
  ASSUME TypeInv, CreditInv, Steady
  PROVE  /\ IsFiniteSet({p \in Payments : payment'[p].status = "completed"})
         /\ \A i \in Invoices : Credit(i)' = Credit(i)
<1>1. {p \in Payments : payment'[p].status = "completed"}
        = {p \in Payments : payment[p].status = "completed"}
  BY DEF Steady
<1>2. ASSUME NEW i \in Invoices PROVE Credit(i)' = Credit(i)
  <2>1. Completed(i)' = Completed(i)
    BY DEF Steady, Completed
  <2>2. PICK s : s = Completed(i)
    OBVIOUS
  <2>3. IsFiniteSet(s) /\ \A p \in s : payment[p].total \in Nat /\ payment'[p].total = payment[p].total
    BY <2>2, CompletedFinite DEF Completed, Steady, TypeInv, TypeOK, Payment
  <2>4. PICK pay, was : pay = payment' /\ was = payment
    OBVIOUS
  <2>5. Total(was, s) = Total(pay, s)
    BY <2>3, <2>4, TotalSame
  <2>6. QED BY <2>1, <2>2, <2>4, <2>5 DEF Credit
<1>3. QED BY <1>1, <1>2 DEF CreditInv

(* A step of one handler, the others being idle.                           *)
LEMMA CreditStep ==
  ASSUME TypeInv, CreditInv, NEW q \in Requests,
         \A p \in Requests \ {q} : req'[p].pc = "idle",
         Steady, \A i \in Invoices : invoice'[i].paid = invoice[i].paid,
         Holds(req[q])'
  PROVE  CreditInv'
<1>1. ASSUME NEW p \in Requests PROVE Holds(req[p])'
  BY DEF Holds
<1>2. QED BY <1>1, SteadyCredit DEF CreditInv

(* A handler that answers holds nothing, whatever it did to a payment that *)
(* is not completed.                                                       *)
LEMMA CreditAnswer ==
  ASSUME TypeInv, SoloInv, CreditInv, NEW q \in Requests, req[q].pc # "idle", Answer(q),
         Steady, \A i \in Invoices : invoice'[i].paid = invoice[i].paid
  PROVE  CreditInv'
<1>1. req'[q] = Idle /\ \A p \in Requests \ {q} : req'[p].pc = "idle"
  BY OthersIdle DEF SoloInv, Answer
<1>2. Holds(req[q])'
  BY <1>1 DEF Holds, Idle
<1>3. QED BY <1>1, <1>2, CreditStep

(* A handler that goes on, with no payment or one that nobody touches.     *)
LEMMA CreditGoesOn ==
  ASSUME TypeInv, SoloInv, CreditInv, NEW q \in Requests, req[q].pc # "idle",
         NEW v, req' = [req EXCEPT ![q] = v],
         v.pc \notin {"complete", "fail", "credit", "record"},
         payment' = payment, \A i \in Invoices : invoice'[i].paid = invoice[i].paid
  PROVE  CreditInv'
<1>1. req'[q] = v /\ \A p \in Requests \ {q} : req'[p].pc = "idle"
  BY OthersIdle DEF SoloInv
<1>2. Holds(req[q])'
  BY <1>1 DEF Holds
<1>3. Steady
  BY DEF Steady
<1>4. QED BY <1>1, <1>2, <1>3, CreditStep

(* A handler that begins, alone.                                           *)
LEMMA CreditBegins ==
  ASSUME OneAtATime, TypeInv, SoloInv, CreditInv, NEW q \in Requests, NEW op, Admit(q, op),
         NEW v, req' = [req EXCEPT ![q] = v], v.pc \notin {"credit", "record"},
         v.pc \in {"complete", "fail"} => payment[v.pay].status = "pending",
         UNCHANGED <<invoice, payment>>
  PROVE  CreditInv'
<1>1. req'[q] = v /\ \A p \in Requests \ {q} : req'[p].pc = "idle"
  BY AdmittedAlone DEF SoloInv
<1>2. Holds(req[q])' /\ Steady
  BY <1>1 DEF Holds, Steady
<1>3. QED BY <1>1, <1>2, CreditStep

LEMMA CreditArrives ==
  ASSUME OneAtATime, TypeInv, SoloInv, CreditInv, NEW q \in Requests, Arrive(q)
  PROVE  CreditInv'
<1>0. UNCHANGED <<invoice, payment>>
  BY DEF Arrive, FindExisting, CreateDraft, LoadToSend, LoadToVoid, LoadToPay, LoadToMail,
         FindOverdue, FindPending, FindDeclined
<1>1. CASE FindExisting(q)
  <2>1. PICK v : v = [Idle EXCEPT !.pc = "number", !.forJob = TRUE]
    OBVIOUS
  <2>2. v.pc = "number"
    BY <2>1 DEF Idle
  <2>3. Admit(q, "generate") /\ req' = [req EXCEPT ![q] = v]
    BY <1>1, <2>1 DEF FindExisting
  <2>4. QED BY <1>0, <2>2, <2>3, CreditBegins
<1>2. CASE CreateDraft(q)
  <2>1. PICK v : v = [Idle EXCEPT !.pc = "number"]
    OBVIOUS
  <2>2. v.pc = "number"
    BY <2>1 DEF Idle
  <2>3. Admit(q, "create") /\ req' = [req EXCEPT ![q] = v]
    BY <1>2, <2>1 DEF CreateDraft
  <2>4. QED BY <1>0, <2>2, <2>3, CreditBegins
<1>3. ASSUME NEW op, Admit(q, op), NEW i, NEW pc, pc \in {"send", "void", "order", "pdf"}, Load(q, i, pc)
      PROVE  CreditInv'
  <2>1. PICK v : v = [Idle EXCEPT !.pc = pc, !.inv = i, !.doc = invoice[i]]
    OBVIOUS
  <2>2. v.pc = pc
    BY <2>1 DEF Idle
  <2>3. req' = [req EXCEPT ![q] = v]
    BY <1>3, <2>1 DEF Load
  <2>4. QED BY <1>0, <1>3, <2>2, <2>3, CreditBegins
<1>4. CASE LoadToSend(q)
  BY <1>3, <1>4 DEF LoadToSend
<1>5. CASE LoadToVoid(q)
  BY <1>3, <1>5 DEF LoadToVoid
<1>6. CASE LoadToPay(q)
  BY <1>3, <1>6 DEF LoadToPay
<1>7. CASE LoadToMail(q)
  BY <1>3, <1>7 DEF LoadToMail
<1>8. CASE FindOverdue(q)
  <2>1. PICK found : req' = [req EXCEPT ![q] = [Idle EXCEPT !.pc = "sweep", !.list = found]]
    BY <1>8 DEF FindOverdue
  <2>2. PICK v : v = [Idle EXCEPT !.pc = "sweep", !.list = found]
    OBVIOUS
  <2>3. v.pc = "sweep"
    BY <2>2 DEF Idle
  <2>4. Admit(q, "sweep") /\ req' = [req EXCEPT ![q] = v]
    BY <1>8, <2>1, <2>2 DEF FindOverdue
  <2>5. QED BY <1>0, <2>3, <2>4, CreditBegins
<1>9. ASSUME NEW p \in Payments, FindPending(q, p) \/ FindDeclined(q, p) PROVE CreditInv'
  <2>1. PICK pc \in {"complete", "fail"} : req' = [req EXCEPT ![q] = [Idle EXCEPT !.pc = pc, !.pay = p]]
    BY <1>9 DEF FindPending, FindDeclined
  <2>2. PICK v : v = [Idle EXCEPT !.pc = pc, !.pay = p]
    OBVIOUS
  <2>3. v.pc = pc /\ v.pay = p
    BY <2>2 DEF Idle
  <2>4. Admit(q, "webhook") /\ payment[p].status = "pending"
    BY <1>9 DEF FindPending, FindDeclined
  <2>5. req' = [req EXCEPT ![q] = v]
    BY <2>1, <2>2
  <2>6. QED BY <1>0, <2>3, <2>4, <2>5, CreditBegins
<1>10. QED BY <1>1, <1>2, <1>4, <1>5, <1>6, <1>7, <1>8, <1>9 DEF Arrive

(* The saves of an invoice leave what is paid.                             *)
LEMMA SaveKeepsPaid ==
  ASSUME TypeInv, NEW i \in Invoices, NEW st, invoice' = [invoice EXCEPT ![i].status = st]
  PROVE  \A j \in Invoices : invoice'[j].paid = invoice[j].paid
BY DEF TypeInv, TypeOK, Invoice

LEMMA CreditSaves ==
  ASSUME TypeInv, SoloInv, CreditInv, NEW q \in Requests,
         SaveSent(q) \/ SaveVoid(q) \/ SaveMailed(q) \/ SavePdf(q) \/ MarkOverdue(q)
  PROVE  CreditInv'
<1>0. req[q].pc # "idle" /\ payment' = payment /\ req \in [Requests -> Request]
  BY DEF SaveSent, SaveVoid, SaveMailed, SavePdf, MarkOverdue, TypeInv, TypeOK
<1>1. \A i \in Invoices : invoice'[i].paid = invoice[i].paid
  <2>1. CASE SaveSent(q) \/ SaveVoid(q) \/ SaveMailed(q) \/ SavePdf(q)
    <3>1. PICK i \in Invoices : \E st : invoice' = [invoice EXCEPT ![i].status = st]
      BY <2>1 DEF SaveSent, SaveVoid, SaveMailed, SavePdf, SaveStatus, TypeInv, RequestShape
    <3>2. QED BY <3>1, SaveKeepsPaid
  <2>2. CASE MarkOverdue(q)
    <3>1. PICK i \in req[q].list : invoice' = [invoice EXCEPT ![i].status = "overdue"]
      BY <2>2 DEF MarkOverdue
    <3>2. i \in Invoices
      BY <1>0 DEF Request
    <3>3. QED BY <3>1, <3>2, SaveKeepsPaid
  <2>3. QED BY <2>1, <2>2
<1>2. Answer(q) \/ \E v : req' = [req EXCEPT ![q] = v] /\ v.pc \in {"mailed", "notice"}
  <2>1. CASE SaveSent(q) \/ SaveVoid(q) \/ SaveMailed(q)
    BY <2>1 DEF SaveSent, SaveVoid, SaveMailed
  <2>2. CASE SavePdf(q)
    <3>1. PICK v, h : /\ h = Hooked(req[q].inv, req[q].doc.status)
                      /\ v = [req[q] EXCEPT !.pc = "mailed", !.doc.status = h]
      OBVIOUS
    <3>2. v.pc = "mailed"
      BY <1>0, <3>1 DEF Request
    <3>3. Answer(q) \/ req' = [req EXCEPT ![q] = v]
      BY <1>0, <2>2, <3>1 DEF SavePdf, Request, Invoice
    <3>4. QED BY <3>2, <3>3
  <2>3. CASE MarkOverdue(q)
    <3>1. PICK i : req' = [req EXCEPT ![q].pc = "notice", ![q].inv = i, ![q].list = @ \ {i}]
      BY <2>3 DEF MarkOverdue
    <3>2. PICK v : v = [req[q] EXCEPT !.pc = "notice", !.inv = i, !.list = @ \ {i}]
      OBVIOUS
    <3>3. req' = [req EXCEPT ![q] = v] /\ v.pc = "notice"
      BY <1>0, <3>1, <3>2 DEF Request
    <3>4. QED BY <3>3
  <2>4. QED BY <2>1, <2>2, <2>3
<1>3. Steady
  BY <1>0 DEF Steady
<1>4. QED BY <1>0, <1>1, <1>2, <1>3, CreditAnswer, CreditGoesOn

LEMMA CreditIsANumber ==
  ASSUME TypeInv, CreditInv, NEW i \in Invoices
  PROVE  Credit(i) \in Nat
<1>1. PICK s, pay : s = Completed(i) /\ pay = payment
  OBVIOUS
<1>2. IsFiniteSet(s) /\ \A p \in s : pay[p].total \in Nat
  BY <1>1, CompletedFinite DEF Completed, TypeInv, TypeOK, Payment
<1>3. Total(pay, s) \in Nat
  BY <1>2, TotalType
<1>4. QED BY <1>1, <1>3 DEF Credit

(* An invoice is inserted: nothing is paid of it.                         *)
LEMMA CreditInserts ==
  ASSUME TypeInv, SoloInv, CreditInv, NEW q \in Requests, InsertInvoice(q)
  PROVE  CreditInv'
<1>0. /\ req[q].pc = "insert" /\ payment' = payment /\ req \in [Requests -> Request]
      /\ invoice \in [Invoices -> Invoice]
  BY DEF InsertInvoice, TypeInv, TypeOK
<1>1. PICK i \in Invoices, t \in Totals :
        /\ invoice' = [invoice EXCEPT ![i] =
                        [status |-> "draft", number |-> req[q].number, total |-> t,
                         paid |-> 0, due |-> t, forJob |-> req[q].forJob]]
        /\ IF req[q].forJob
             THEN req' = [req EXCEPT ![q].pc = "reload", ![q].inv = i]
             ELSE Answer(q)
  BY DEF InsertInvoice
<1>2. Steady
  BY <1>0 DEF Steady
<1>3. \A j \in Invoices : Credit(j)' = Credit(j) /\ Credit(j) \in Nat
  BY <1>2, SteadyCredit, CreditIsANumber
<1>4. \A j \in Invoices : invoice'[j].paid <= Credit(j)'
  <2>1. ASSUME NEW j \in Invoices PROVE invoice'[j].paid <= Credit(j)'
    <3>1. invoice[j].paid <= Credit(j)
      BY DEF CreditInv
    <3>2. invoice'[j].paid = 0 \/ invoice'[j].paid = invoice[j].paid
      BY <1>0, <1>1
    <3>3. Credit(j)' = Credit(j) /\ Credit(j) \in Nat
      BY <1>3
    <3>4. QED BY <3>1, <3>2, <3>3
  <2>2. QED BY <2>1
<1>5. PICK v : req' = [req EXCEPT ![q] = v] /\ v.pc \in {"reload", "idle"}
  <2>1. CASE req' = [req EXCEPT ![q].pc = "reload", ![q].inv = i]
    <3>1. PICK v : v = [req[q] EXCEPT !.pc = "reload", !.inv = i]
      OBVIOUS
    <3>2. req' = [req EXCEPT ![q] = v] /\ v.pc = "reload"
      BY <1>0, <2>1, <3>1 DEF Request
    <3>3. QED BY <3>2
  <2>2. CASE Answer(q)
    <3>1. PICK v : v = Idle
      OBVIOUS
    <3>2. req' = [req EXCEPT ![q] = v] /\ v.pc = "idle"
      BY <2>2, <3>1 DEF Answer, Idle
    <3>3. QED BY <3>2
  <2>3. QED BY <1>1, <2>1, <2>2
<1>6. req'[q] = v /\ \A p \in Requests \ {q} : req'[p].pc = "idle"
  BY <1>0, <1>5, OthersIdle DEF SoloInv
<1>7. ASSUME NEW p \in Requests PROVE Holds(req[p])'
  BY <1>5, <1>6 DEF Holds
<1>8. QED BY <1>2, <1>4, <1>7, SteadyCredit DEF CreditInv

(* The steps that write neither an invoice nor a payment.                  *)
LEMMA CreditQuiet ==
  ASSUME TypeInv, SoloInv, CreditInv, NEW q \in Requests,
         NextNumber(q) \/ Reload(q) \/ SendNotice(q) \/ NoticeFails(q) \/ Abort(q)
  PROVE  CreditInv'
<1>0. /\ req[q].pc # "idle" /\ payment' = payment /\ invoice' = invoice
      /\ req \in [Requests -> Request]
  BY DEF NextNumber, Reload, SendNotice, NoticeFails, Abort, TypeInv, TypeOK
<1>1. Steady
  BY <1>0 DEF Steady
<1>2. CASE Answer(q)
  BY <1>0, <1>1, <1>2, CreditAnswer
<1>3. CASE NextNumber(q)
  <2>1. PICK v : v = [req[q] EXCEPT !.pc = "insert", !.number = counter + 1]
    OBVIOUS
  <2>2. req' = [req EXCEPT ![q] = v] /\ v.pc = "insert"
    BY <1>0, <1>3, <2>1 DEF NextNumber, Request
  <2>3. QED BY <1>0, <2>2, CreditGoesOn
<1>4. CASE Reload(q)
  <2>1. PICK v : v = [Idle EXCEPT !.pc = "send", !.inv = req[q].inv, !.doc = invoice[req[q].inv]]
    OBVIOUS
  <2>2. v.pc = "send"
    BY <2>1 DEF Idle
  <2>3. req' = [req EXCEPT ![q] = v]
    BY <1>4, <2>1 DEF Reload, Load
  <2>4. QED BY <1>0, <2>2, <2>3, CreditGoesOn
<1>5. CASE req' = [req EXCEPT ![q].pc = "sweep"]
  <2>1. PICK v : v = [req[q] EXCEPT !.pc = "sweep"]
    OBVIOUS
  <2>2. req' = [req EXCEPT ![q] = v] /\ v.pc = "sweep"
    BY <1>0, <1>5, <2>1 DEF Request
  <2>3. QED BY <1>0, <2>2, CreditGoesOn
<1>6. CASE SendNotice(q) \/ NoticeFails(q)
  BY <1>2, <1>5, <1>6 DEF SendNotice, NoticeFails, NextInSweep
<1>7. QED BY <1>2, <1>3, <1>4, <1>6 DEF Abort

(* Orders are opened and declined: nothing is completed.                   *)
LEMMA CreditOrders ==
  ASSUME TypeInv, SoloInv, CreditInv, NEW q \in Requests, InsertPayment(q) \/ FailPayment(q)
  PROVE  CreditInv'
<1>0. req[q].pc # "idle" /\ Answer(q) /\ invoice' = invoice /\ payment \in [Payments -> Payment]
  BY DEF InsertPayment, FailPayment, TypeInv, TypeOK
<1>1. Steady
  <2>1. CASE InsertPayment(q)
    <3>1. PICK p \in Payments :
            /\ payment[p].status = "absent"
            /\ \E r : r.status = "pending" /\ payment' = [payment EXCEPT ![p] = r]
      <4>1. PICK p \in Payments :
              /\ payment[p].status = "absent"
              /\ payment' = [payment EXCEPT ![p] =
                              [status |-> "pending", invoice |-> req[q].inv,
                               order |-> req[q].doc.due, total |-> Charged(req[q].doc.due)]]
        BY <2>1 DEF InsertPayment
      <4>2. PICK r : r = [status |-> "pending", invoice |-> req[q].inv,
                          order |-> req[q].doc.due, total |-> Charged(req[q].doc.due)]
        OBVIOUS
      <4>3. r.status = "pending"
        BY <4>2
      <4>4. QED BY <4>1, <4>2, <4>3
    <3>2. QED BY <1>0, <3>1 DEF Steady
  <2>2. CASE FailPayment(q)
    <3>1. PICK p : p = req[q].pay
      OBVIOUS
    <3>2. p \in Payments /\ payment[p].status = "pending"
      BY <2>2, <3>1 DEF FailPayment, TypeInv, RequestShape, CreditInv, Holds
    <3>3. payment' = [payment EXCEPT ![p].status = "failed"]
      BY <2>2, <3>1 DEF FailPayment
    <3>4. QED BY <1>0, <3>2, <3>3 DEF Steady, Payment
  <2>3. QED BY <2>1, <2>2
<1>2. QED BY <1>0, <1>1, CreditAnswer

(* A payment is completed, not credited yet.                               *)
LEMMA CreditCompletes ==
  ASSUME TypeInv, SoloInv, CreditInv, NEW q \in Requests, CompletePayment(q)
  PROVE  CreditInv'
<1>0. /\ req[q].pc = "complete" /\ invoice' = invoice /\ req \in [Requests -> Request]
      /\ payment \in [Payments -> Payment] /\ invoice \in [Invoices -> Invoice]
  BY DEF CompletePayment, TypeInv, TypeOK
<1>1. PICK p : p = req[q].pay
  OBVIOUS
<1>2. /\ p \in Payments /\ payment[p].status = "pending"
      /\ payment' = [payment EXCEPT ![p].status = "completed"]
  BY <1>0, <1>1 DEF CompletePayment, TypeInv, RequestShape, CreditInv, Holds
<1>3. /\ payment'[p].status = "completed"
      /\ payment'[p].invoice = payment[p].invoice /\ payment'[p].total = payment[p].total
      /\ \A x \in Payments \ {p} : payment'[x] = payment[x]
  BY <1>0, <1>2 DEF Payment
<1>4. PICK i \in Invoices : i = payment[p].invoice
  BY <1>2 DEF TypeInv, PaymentShape
<1>5. IsFiniteSet({x \in Payments : payment'[x].status = "completed"})
  <2>1. {x \in Payments : payment'[x].status = "completed"}
          = {x \in Payments : payment[x].status = "completed"} \cup {p}
    BY <1>2, <1>3
  <2>2. IsFiniteSet({x \in Payments : payment[x].status = "completed"})
    BY DEF CreditInv
  <2>3. QED BY <2>1, <2>2, FS_AddElement
<1>6. ASSUME NEW j \in Invoices, j # i PROVE Credit(j)' = Credit(j)
  <2>1. PICK s, pay, was : s = Completed(j) /\ pay = payment' /\ was = payment
    OBVIOUS
  <2>2. Completed(j)' = Completed(j)
    BY <1>2, <1>3, <1>4, <1>6 DEF Completed
  <2>3. p \notin s
    BY <1>2, <2>1 DEF Completed
  <2>4. IsFiniteSet(s) /\ \A x \in s : was[x].total \in Nat /\ was[x].total = pay[x].total
    BY <1>0, <1>3, <2>1, <2>3, CompletedFinite DEF Completed, Payment
  <2>5. Total(was, s) = Total(pay, s)
    BY <2>4, TotalSame
  <2>6. QED BY <2>1, <2>2, <2>5 DEF Credit
<1>7. Credit(i)' = payment[p].total + Credit(i)
  <2>1. PICK s, pay, was : s = Completed(i) /\ pay = payment' /\ was = payment
    OBVIOUS
  <2>2. Completed(i)' = s \cup {p} /\ p \notin s
    BY <1>2, <1>3, <1>4, <2>1 DEF Completed
  <2>3. /\ IsFiniteSet(s)
        /\ \A x \in s : was[x].total \in Nat /\ was[x].total = pay[x].total
        /\ \A x \in s \cup {p} : pay[x].total \in Nat
    <3>1. IsFiniteSet(s) /\ s \subseteq Payments
      BY <2>1, CompletedFinite DEF Completed
    <3>2. \A x \in Payments : was[x].total \in Nat
      BY <1>0, <2>1 DEF Payment
    <3>3. \A x \in Payments : was[x].total = pay[x].total
      BY <1>3, <2>1
    <3>4. QED BY <1>2, <3>1, <3>2, <3>3
  <2>4. Total(was, s) = Total(pay, s)
    BY <2>3, TotalSame
  <2>5. Total(pay, s \cup {p}) = pay[p].total + Total(pay, s)
    BY <2>2, <2>3, TotalAdds
  <2>6. QED BY <1>3, <2>1, <2>2, <2>4, <2>5 DEF Credit
<1>8. /\ payment[p].total \in Nat
      /\ \A j \in Invoices : /\ Credit(j) \in Nat /\ invoice[j].paid \in Nat
                             /\ invoice[j].paid <= Credit(j)
  BY <1>0, <1>2, CreditIsANumber DEF CreditInv, Payment, Invoice
<1>9. invoice'[i].paid + payment'[p].total <= Credit(i)'
  BY <1>0, <1>3, <1>7, <1>8
<1>10. \A j \in Invoices : invoice'[j].paid <= Credit(j)'
  <2>1. ASSUME NEW j \in Invoices PROVE invoice'[j].paid <= Credit(j)'
    <3>1. CASE j = i
      BY <1>0, <1>7, <1>8, <3>1
    <3>2. CASE j # i
      BY <1>0, <1>6, <1>8, <3>2
    <3>3. QED BY <3>1, <3>2
  <2>2. QED BY <2>1
<1>11. PICK v : v = [req[q] EXCEPT !.pc = "credit"]
  OBVIOUS
<1>12. req' = [req EXCEPT ![q] = v] /\ v.pc = "credit" /\ v.pay = p
  BY <1>0, <1>1, <1>11 DEF CompletePayment, Request
<1>13. req'[q] = v /\ \A x \in Requests \ {q} : req'[x].pc = "idle"
  BY <1>0, <1>12, OthersIdle DEF SoloInv
<1>14. Holds(req[q])'
  BY <1>3, <1>4, <1>9, <1>12, <1>13 DEF Holds
<1>15. ASSUME NEW x \in Requests PROVE Holds(req[x])'
  BY <1>13, <1>14 DEF Holds
<1>16. QED BY <1>5, <1>10, <1>15 DEF CreditInv

(* Its invoice is loaded, and the amount added to what was loaded: with    *)
(* one handler at a time that is what is stored.                           *)
LEMMA CreditLoads ==
  ASSUME TypeInv, SoloInv, CreditInv, NEW q \in Requests, LoadToCredit(q)
  PROVE  CreditInv'
<1>0. /\ req[q].pc = "credit" /\ UNCHANGED <<invoice, payment>>
      /\ req \in [Requests -> Request]
  BY DEF LoadToCredit, TypeInv, TypeOK
<1>1. PICK i, v : /\ i = payment[req[q].pay].invoice
                  /\ v = [req[q] EXCEPT !.pc = "record", !.inv = i, !.doc = invoice[i]]
  OBVIOUS
<1>2. req' = [req EXCEPT ![q] = v] /\ v.pc = "record" /\ v.inv = i /\ v.pay = req[q].pay
  BY <1>0, <1>1 DEF LoadToCredit, Request
<1>3. req'[q] = v /\ \A p \in Requests \ {q} : req'[p].pc = "idle"
  BY <1>0, <1>2, OthersIdle DEF SoloInv
<1>4. Steady
  BY <1>0 DEF Steady
<1>5. \A j \in Invoices : Credit(j)' = Credit(j)
  BY <1>4, SteadyCredit
<1>6. i \in Invoices
  BY <1>0, <1>1 DEF TypeInv, RequestShape, PaymentShape
<1>7. payment[v.pay].status = "completed" /\ invoice[i].paid + payment[v.pay].total <= Credit(i)
  BY <1>0, <1>1, <1>2 DEF CreditInv, Holds
<1>8. invoice'[i].paid + payment'[v.pay].total <= Credit(i)'
  BY <1>0, <1>5, <1>6, <1>7
<1>9. Holds(req[q])'
  BY <1>0, <1>1, <1>2, <1>3, <1>7, <1>8 DEF Holds
<1>10. QED BY <1>0, <1>3, <1>4, <1>9, CreditStep

LEMMA CreditRecords ==
  ASSUME TypeInv, SoloInv, CreditInv, NEW q \in Requests, RecordPayment(q)
  PROVE  CreditInv'
<1>0. /\ req[q].pc = "record" /\ payment' = payment /\ Answer(q) /\ req \in [Requests -> Request]
      /\ invoice \in [Invoices -> Invoice]
  BY DEF RecordPayment, TypeInv, TypeOK
<1>1. PICK i \in Invoices : i = req[q].inv
  BY <1>0 DEF TypeInv, RequestShape
<1>2. /\ req[q].doc = invoice[i] /\ i = payment[req[q].pay].invoice
      /\ invoice[i].paid + payment[req[q].pay].total <= Credit(i)
  BY <1>0, <1>1 DEF SoloInv, Ready, CreditInv, Holds
<1>3. PICK paid, due, st :
        /\ paid = req[q].doc.paid + payment[req[q].pay].total
        /\ invoice' = [invoice EXCEPT ![i].paid = paid, ![i].due = due, ![i].status = st]
  BY <1>1 DEF RecordPayment
<1>4. invoice'[i].paid = paid /\ \A j \in Invoices \ {i} : invoice'[j] = invoice[j]
  BY <1>0, <1>1, <1>3 DEF Invoice
<1>5. Steady
  BY <1>0 DEF Steady
<1>6. \A j \in Invoices : Credit(j)' = Credit(j)
  BY <1>5, SteadyCredit
<1>7. \A j \in Invoices : invoice'[j].paid <= Credit(j)'
  BY <1>2, <1>3, <1>4, <1>6 DEF CreditInv
<1>8. req'[q] = Idle /\ \A p \in Requests \ {q} : req'[p].pc = "idle"
  BY <1>0, OthersIdle DEF SoloInv, Answer
<1>9. ASSUME NEW p \in Requests PROVE Holds(req[p])'
  BY <1>8 DEF Holds, Idle
<1>10. QED BY <1>5, <1>7, <1>9, SteadyCredit DEF CreditInv

LEMMA NextCredit ==
  ASSUME OneAtATime
  PROVE  TypeInv /\ SoloInv /\ CreditInv /\ [Next]_vars => CreditInv'
<1>1. SUFFICES ASSUME TypeInv, SoloInv, CreditInv, [Next]_vars PROVE CreditInv'
  OBVIOUS
<1>2. ASSUME NEW q \in Requests, Advance(q) PROVE CreditInv'
  BY <1>1, <1>2, CreditQuiet, CreditInserts, CreditSaves, CreditOrders, CreditCompletes,
     CreditLoads, CreditRecords
  DEF Advance
<1>3. ASSUME NEW q \in Requests, Arrive(q) \/ NoticeFails(q) \/ Abort(q) PROVE CreditInv'
  BY <1>1, <1>3, CreditArrives, CreditQuiet
<1>4. ASSUME UNCHANGED <<invoice, payment, req>> PROVE CreditInv'
  <2>1. Steady
    BY <1>4 DEF Steady
  <2>2. \A q \in Requests : Holds(req[q])
    BY <1>1 DEF CreditInv
  <2>3. \A i \in Invoices : Credit(i)' = Credit(i)
    BY <1>1, <2>1, SteadyCredit
  <2>4. ASSUME NEW q \in Requests PROVE Holds(req[q])'
    <3>1. Holds(req[q]) /\ RequestShape(req[q])
      BY <1>1, <2>2 DEF TypeInv
    <3>2. req[q].pc \in {"credit", "record"} => payment[req[q].pay].invoice \in Invoices
      BY <1>1, <3>1 DEF TypeInv, RequestShape, PaymentShape
    <3>3. QED BY <1>4, <2>3, <3>1, <3>2 DEF Holds
  <2>5. \A i \in Invoices : invoice'[i].paid <= Credit(i)'
    BY <1>1, <1>4, <2>3 DEF CreditInv
  <2>6. QED BY <1>1, <2>1, <2>4, <2>5, SteadyCredit DEF CreditInv
<1>6. ASSUME \/ \E p \in Payments : Capture(p) \/ Decline(p)
             \/ \E i \in Invoices : DueDatePasses(i)
             \/ UNCHANGED vars
      PROVE  UNCHANGED <<invoice, payment, req>>
  BY <1>6 DEF vars, Capture, Decline, DueDatePasses
<1>7. QED BY <1>1, <1>2, <1>3, <1>4, <1>6 DEF Next

(* With one handler at a time, however often a webhook comes and wherever  *)
(* its handling stops, an invoice is credited with no more than its        *)
(* completed payments (handlePaymentCaptured() of billing.service.ts and   *)
(* recordPayment() of models/Invoice.ts).                                  *)
THEOREM NoOvercredit ==
  ASSUME OneAtATime
  PROVE  Spec => []NeverOvercredited
<1>1. Init => TypeInv /\ SoloInv /\ CreditInv
  BY InitTypeInv, InitSolo, CreditInit
<1>2. TypeInv /\ SoloInv /\ CreditInv /\ [Next]_vars => (TypeInv /\ SoloInv /\ CreditInv)'
  BY NextTypeInv, NextSolo, NextCredit
<1>3. CreditInv => NeverOvercredited
  BY DEF CreditInv, NeverOvercredited, Credit, Completed, Total
<1> QED BY <1>1, <1>2, <1>3, PTL DEF Spec
=============================================================================
