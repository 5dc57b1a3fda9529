-------------------------- MODULE SubscriptionBilling --------------------------
(***************************************************************************)
(* The subscriptions of one tenant: src/services/subscription.service.ts,  *)
(* the subscription webhooks of src/services/billing.service.ts, and the   *)
(* copies of the state that Tenant and ServiceCenter keep for quick reads. *)
(*                                                                         *)
(* The gateway charges a mandate once a cycle and reports each charge at   *)
(* least once, in any order: nothing makes the report of a charge come     *)
(* after the one before it has been handled.  Periods are counted in       *)
(* cycles paid; current_end of the report of charge n is n.                *)
(***************************************************************************)
EXTENDS Integers, FiniteSets, FiniteSetsExt

CONSTANTS
  Subs,        \* subscription documents, each with its mandate
  Plans,       \* the plans on offer
  Paid,        \* the plans with a price
  Trial,       \* the plans with trial days
  Requests,    \* slots for concurrent handlers
  MaxInFlight, \* handlers in progress at once
  MaxCycles,   \* RAZORPAY_TOTAL_COUNT
  MaxRefused,  \* bound on the charges that fail at first
  MaxLapsed,   \* bound on the failures: one each of so many subscriptions
  None

ASSUME SubscriptionConstants ==
  /\ Paid \subseteq Plans /\ Trial \subseteq Plans
  /\ {MaxInFlight, MaxRefused, MaxLapsed} \subseteq Nat /\ MaxCycles \in Nat \ {0}
  /\ None \notin Subs \cup Plans

VARIABLES
  sub,      \* the Subscription collection
  receipt,  \* the Payments of type "subscription"
  failed,   \* those with status "failed"
  tenant,   \* Tenant.subscription
  mandate,  \* the state of each mandate at the gateway
  cycles,   \* how often the gateway has charged each mandate
  refused,  \* charges that were first reported as failed
  req,      \* the handlers in progress
  lapsed,   \* history: subscriptions a handler has died on
  crossed,  \* history: subscriptions two handlers have worked on at once
  overtaken \* history: subscriptions charged before the last charge was handled

charges == <<cycles, refused, overtaken>>
gateway == <<mandate, charges>>
history == <<lapsed, crossed>>
payments == <<receipt, failed>>
vars == <<sub, payments, tenant, gateway, req, history>>

-----------------------------------------------------------------------------
(* Types *)

Live     == {"trialing", "active"}
Statuses == Live \cup {"past_due", "cancelled", "expired"}
Cached   == {"trial", "active", "expired", "suspended", "cancelled"}

Charge  == Subs \X (1..MaxCycles)
(* The k-th Payment recorded for a charge; the second is of a delivery     *)
(* that overlapped the first.                                              *)
Receipt == Charge \X (1..MaxInFlight)

Subscription == [status : Statuses \cup {"absent"}, plan : Plans \cup {None},
                 end : 0..MaxCycles, atEnd : BOOLEAN, receipts : SUBSET Receipt]
Mandate == {"none", "created", "active", "ending", "cancelled", "completed"}

PCs == {"idle", "mandate", "insert", "cache", "gateway", "cancel", "clear",
        "receipt", "renew", "ended", "load", "overdue", "tenant"}

Request == [pc : PCs, sub : Subs \cup {None}, plan : Plans \cup {None}, was : Statuses \cup {"absent"},
            cycle : 0..MaxCycles, receipt : Receipt \cup {None},
            to : Cached \cup {None}, immediate : BOOLEAN]

NoSub == [status |-> "absent", plan |-> None, end |-> 0, atEnd |-> FALSE, receipts |-> {}]
Idle == [pc |-> "idle", sub |-> None, plan |-> None, was |-> "absent", cycle |-> 0,
         receipt |-> None, to |-> None, immediate |-> FALSE]

TypeOK ==
  /\ sub \in [Subs -> Subscription]
  /\ failed \subseteq receipt /\ receipt \subseteq Receipt
  /\ tenant \in [status : Cached, plan : Plans \cup {None}]
  /\ mandate \in [Subs -> Mandate]
  /\ cycles \in [Subs -> 0..MaxCycles]
  /\ refused \subseteq Charge
  /\ req \in [Requests -> Request]
  /\ lapsed \subseteq Subs /\ crossed \subseteq Subs /\ overtaken \subseteq Subs

-----------------------------------------------------------------------------
(* Helpers *)

Exists(s) == sub[s].status # "absent"
ReceiptsOf(c) == {r \in receipt : r[1] = c}

Answer(q)   == req' = [req EXCEPT ![q] = Idle]
Goto(q, pc) == req' = [req EXCEPT ![q].pc = pc]

InFlight  == {q \in Requests : req[q].pc # "idle"}
WorkOn(s) == {q \in InFlight : req[q].sub = s}

(* A handler starts to work on s. *)
Admit(q, s) ==
  /\ req[q].pc = "idle"
  /\ Cardinality(InFlight) < MaxInFlight
  /\ crossed' = IF WorkOn(s) = {} THEN crossed ELSE crossed \cup {s}
  /\ UNCHANGED lapsed

(* The handler has loaded s and waits at `pc`; what it will need of the    *)
(* document is the status.                                                 *)
Load(q, s, pc) == [Idle EXCEPT !.pc = pc, !.sub = s, !.was = sub[s].status]

(* save() writes a status that differs from the one loaded. *)
Saved(q, status) ==
  IF status = req[q].was THEN sub[req[q].sub].status ELSE status

(* The handler has saved the document and goes on to the copy of its status. *)
Sync(q, status) ==
  req' = [req EXCEPT ![q] = [Idle EXCEPT !.pc = "tenant", !.sub = req[q].sub, !.to = status]]

-----------------------------------------------------------------------------
(* createFromPlan() *)

(* The lookup of an active subscription; `s` is the id the document and    *)
(* its mandate will get.                                                   *)
FindActive(q) ==
  /\ \A s \in Subs : sub[s].status \notin Live
  /\ \E s \in Subs, p \in Plans :
       /\ ~Exists(s) /\ mandate[s] = "none" /\ WorkOn(s) = {}
       /\ Admit(q, s)
       /\ req' = [req EXCEPT ![q] = [Load(q, s, IF p \in Paid THEN "mandate" ELSE "insert")
                                       EXCEPT !.plan = p]]
  /\ UNCHANGED <<sub, payments, tenant, gateway>>

RegisterMandate(q) ==
  /\ req[q].pc = "mandate"
  /\ mandate' = [mandate EXCEPT ![req[q].sub] = "created"]
  /\ Goto(q, "insert")
  /\ UNCHANGED <<sub, payments, tenant, charges, history>>

InsertSubscription(q) ==
  /\ req[q].pc = "insert"
  /\ sub' = [sub EXCEPT ![req[q].sub] = [NoSub EXCEPT !.status = "trialing", !.plan = req[q].plan]]
  /\ Goto(q, "cache")
  /\ UNCHANGED <<payments, tenant, gateway, history>>

(* Tenant.findByIdAndUpdate(): the pre-save hook that copies the limits of *)
(* the plan does not run, so the limits are no part of the state.          *)
CacheNew(q) ==
  /\ req[q].pc = "cache"
  /\ tenant' = [tenant EXCEPT !.status = IF req[q].plan \in Trial THEN "trial" ELSE "active",
                              !.plan = req[q].plan]
  /\ Answer(q)
  /\ UNCHANGED <<sub, payments, gateway, history>>

-----------------------------------------------------------------------------
(* cancel() *)

LoadToCancel(q) ==
  /\ \E s \in Subs, immediate \in BOOLEAN :
       /\ Exists(s)
       /\ Admit(q, s)
       /\ req' = [req EXCEPT ![q] =
                    [Load(q, s, IF sub[s].plan \in Paid THEN "gateway" ELSE "cancel")
                       EXCEPT !.immediate = immediate]]
  /\ UNCHANGED <<sub, payments, tenant, gateway>>

(* The gateway refuses to cancel a mandate that has ended; the handler     *)
(* rejects and writes nothing.                                             *)
CancelMandate(q) ==
  /\ req[q].pc = "gateway"
  /\ LET s == req[q].sub
     IN  \/ /\ mandate[s] \in {"created", "active", "ending"}
            /\ mandate' = [mandate EXCEPT ![s] = IF req[q].immediate THEN "cancelled" ELSE "ending"]
            /\ Goto(q, "cancel")
         \/ /\ mandate[s] \in {"cancelled", "completed"}
            /\ Answer(q)
            /\ UNCHANGED mandate
  /\ UNCHANGED <<sub, payments, tenant, charges, history>>

(* Subscription.cancel() *)
SaveCancel(q) ==
  /\ req[q].pc = "cancel"
  /\ LET s == req[q].sub
     IN  IF req[q].immediate
         THEN /\ sub' = [sub EXCEPT ![s].status = Saved(q, "cancelled")]
              /\ Goto(q, "clear")
         ELSE /\ sub' = [sub EXCEPT ![s].atEnd = TRUE]
              /\ Answer(q)
  /\ UNCHANGED <<payments, tenant, gateway, history>>

(* Mutant of ClearCache: an immediate cancellation leaves the copy alone. *)
ForgetCache(q) ==
  /\ req[q].pc = "clear"
  /\ Answer(q)
  /\ UNCHANGED <<sub, payments, tenant, gateway, history>>

ClearCache(q) ==
  /\ req[q].pc = "clear"
  /\ tenant' = [tenant EXCEPT !.status = "cancelled"]
  /\ Answer(q)
  /\ UNCHANGED <<sub, payments, gateway, history>>

-----------------------------------------------------------------------------
(* The gateway *)

(* The customer, who gets the link with the answer of createFromPlan(),    *)
(* has authorised the mandate, or a cycle is over.  With `late`, the       *)
(* attempt failed at first and was captured afterwards.                    *)
ChargeMandate(s) ==
  /\ mandate[s] \in {"created", "active"}
  /\ cycles[s] < MaxCycles
  /\ \A q \in WorkOn(s) : req[q].pc \notin {"insert", "cache"}
  /\ mandate' = [mandate EXCEPT ![s] = "active"]
  /\ cycles' = [cycles EXCEPT ![s] = @ + 1]
  /\ \E late \in BOOLEAN :
       /\ late => Cardinality(refused) < MaxRefused
       /\ refused' = IF late THEN refused \cup {<<s, cycles[s] + 1>>} ELSE refused
  /\ overtaken' = IF cycles[s] = 0 \/ (WorkOn(s) = {} /\ ReceiptsOf(<<s, cycles[s]>>) # {})
                  THEN overtaken ELSE overtaken \cup {s}
  /\ UNCHANGED <<sub, payments, tenant, req, history>>

(* The period ends, or the last of the cycles has been charged. *)
EndMandate(s) ==
  /\ \/ mandate[s] = "ending" /\ mandate' = [mandate EXCEPT ![s] = "cancelled"]
     \/ /\ mandate[s] = "active" /\ cycles[s] = MaxCycles
        /\ mandate' = [mandate EXCEPT ![s] = "completed"]
  /\ UNCHANGED <<sub, payments, tenant, charges, req, history>>

-----------------------------------------------------------------------------
(* handleSubscriptionCharged() *)

(* Mutant of FindCharged: redelivery is not recognised. *)
TakeEveryDelivery(q, s) ==
  /\ Exists(s)
  /\ Admit(q, s)
  /\ \E n \in 1..cycles[s] :
       req' = [req EXCEPT ![q] = [Load(q, s, "receipt") EXCEPT !.cycle = n]]
  /\ UNCHANGED <<sub, payments, tenant, gateway>>

(* Mutant of FindCharged: a charge counts as recorded if it has not failed. *)
FindGoodReceipt(q, s) ==
  /\ Exists(s)
  /\ Admit(q, s)
  /\ \E n \in 1..cycles[s] :
       /\ ReceiptsOf(<<s, n>>) \subseteq failed
       /\ req' = [req EXCEPT ![q] = [Load(q, s, "receipt") EXCEPT !.cycle = n]]
  /\ UNCHANGED <<sub, payments, tenant, gateway>>

(* The lookups of the subscription and of a Payment of the charge: a       *)
(* charge that has one has been handled.                                   *)
FindCharged(q, s) ==
  /\ Exists(s)
  /\ Admit(q, s)
  /\ \E n \in 1..cycles[s] :
       /\ ReceiptsOf(<<s, n>>) = {}
       /\ req' = [req EXCEPT ![q] = [Load(q, s, "receipt") EXCEPT !.cycle = n]]
  /\ UNCHANGED <<sub, payments, tenant, gateway>>

InsertReceipt(q) ==
  /\ req[q].pc = "receipt"
  /\ LET c == <<req[q].sub, req[q].cycle>>
         r == <<c, Cardinality(ReceiptsOf(c)) + 1>>
     IN  /\ receipt' = receipt \cup {r}
         /\ req' = [req EXCEPT ![q].pc = "renew", ![q].receipt = r]
  /\ UNCHANGED <<sub, failed, tenant, gateway, history>>

(* Mutant of Renew: a charge that comes after a cancellation is kept but   *)
(* does not renew.                                                         *)
RenewLiveOnly(q) ==
  /\ req[q].pc = "renew"
  /\ sub' = [sub EXCEPT ![req[q].sub].end = IF req[q].was = "cancelled" THEN @ ELSE req[q].cycle,
                         ![req[q].sub].receipts = @ \cup {req[q].receipt}]
  /\ Sync(q, "active")
  /\ UNCHANGED <<payments, tenant, gateway, history>>

(* paymentIds.push() and Subscription.renew() *)
Renew(q) ==
  /\ req[q].pc = "renew"
  /\ sub' = [sub EXCEPT ![req[q].sub].status = Saved(q, "active"),
                         ![req[q].sub].end = req[q].cycle,
                         ![req[q].sub].receipts = @ \cup {req[q].receipt}]
  /\ Sync(q, "active")
  /\ UNCHANGED <<payments, tenant, gateway, history>>

(* syncSubscriptionCache(); the copy in ServiceCenter follows that in       *)
(* Tenant and is left out.                                                 *)
SyncTenant(q) ==
  /\ req[q].pc = "tenant"
  /\ tenant' = [tenant EXCEPT !.status = req[q].to]
  /\ Answer(q)
  /\ UNCHANGED <<sub, payments, gateway, history>>

-----------------------------------------------------------------------------
(* handleSubscriptionEnded() *)

FindEnded(q, s) ==
  /\ Exists(s)
  /\ mandate[s] \in {"cancelled", "completed"}
  /\ Admit(q, s)
  /\ req' = [req EXCEPT ![q] = Load(q, s, "ended")]
  /\ UNCHANGED <<sub, payments, tenant, gateway>>

SaveEnded(q) ==
  /\ req[q].pc = "ended"
  /\ LET s == req[q].sub
         reason == IF mandate[s] = "cancelled" THEN "cancelled" ELSE "expired"
     IN  /\ sub' = [sub EXCEPT ![s].status = Saved(q, reason)]
         /\ Sync(q, reason)
  /\ UNCHANGED <<payments, tenant, gateway, history>>

-----------------------------------------------------------------------------
(* handlePaymentFailed() for a charge: it has an effect only if the charge *)
(* has been recorded by then.                                              *)

FindRefused(q, s) ==
  /\ Admit(q, s)
  /\ \E c \in refused : \E r \in ReceiptsOf(c) :
       /\ c[1] = s
       /\ failed' = failed \cup {r}
       /\ req' = [req EXCEPT ![q] = [Idle EXCEPT !.pc = "load", !.sub = s]]
  /\ UNCHANGED <<sub, receipt, tenant, gateway>>

LoadRefused(q) ==
  /\ req[q].pc = "load"
  /\ req' = [req EXCEPT ![q] = Load(q, req[q].sub, "overdue")]
  /\ UNCHANGED <<sub, payments, tenant, gateway, history>>

(* Mutant of SaveOverdue: the copy gets the status of the subscription. *)
SyncOverdueAsIs(q) ==
  /\ req[q].pc = "overdue"
  /\ sub' = [sub EXCEPT ![req[q].sub].status = Saved(q, "past_due")]
  /\ Sync(q, "past_due")
  /\ UNCHANGED <<payments, tenant, gateway, history>>

SaveOverdue(q) ==
  /\ req[q].pc = "overdue"
  /\ sub' = [sub EXCEPT ![req[q].sub].status = Saved(q, "past_due")]
  /\ Sync(q, "suspended")
  /\ UNCHANGED <<payments, tenant, gateway, history>>

-----------------------------------------------------------------------------
(* A call rejects, or the process dies.  The webhook controller answers    *)
(* 200 either way it gets to answer.                                       *)
Abort(q) ==
  /\ req[q].pc # "idle"
  /\ req[q].sub \notin lapsed /\ Cardinality(lapsed) < MaxLapsed
  /\ Answer(q)
  /\ lapsed' = lapsed \cup {req[q].sub}
  /\ UNCHANGED <<sub, payments, tenant, gateway, crossed>>

Init ==
  /\ sub = [s \in Subs |-> NoSub]
  /\ receipt = {} /\ failed = {}
  /\ \E p \in Trial : tenant = [status |-> "trial", plan |-> p]
  /\ mandate = [s \in Subs |-> "none"]
  /\ cycles = [s \in Subs |-> 0]
  /\ refused = {}
  /\ req = [q \in Requests |-> Idle]
  /\ lapsed = {} /\ crossed = {} /\ overtaken = {}

Advance(q) ==
  \/ RegisterMandate(q)
  \/ InsertSubscription(q)
  \/ CacheNew(q)
  \/ CancelMandate(q)
  \/ SaveCancel(q)
  \/ ClearCache(q)
  \/ InsertReceipt(q)
  \/ Renew(q)
  \/ SyncTenant(q)
  \/ SaveEnded(q)
  \/ LoadRefused(q)
  \/ SaveOverdue(q)

Next ==
  \/ \E q \in Requests :
       \/ FindActive(q)
       \/ LoadToCancel(q)
       \/ \E s \in Subs : FindCharged(q, s) \/ FindEnded(q, s) \/ FindRefused(q, s)
       \/ Advance(q)
       \/ Abort(q)
  \/ \E s \in Subs : ChargeMandate(s) \/ EndMandate(s)

Spec == Init /\ [][Next]_vars

-----------------------------------------------------------------------------
(* Properties *)

(* A charge is recorded by one Payment however often it is reported, also  *)
(* after a handler died on it, unless two reports were handled at once:    *)
(* the lookup by providerPaymentId is all that recognises a redelivery.    *)
OneReceiptPerCharge ==
  \A c \in Charge : c[1] \notin crossed => Cardinality(ReceiptsOf(c)) <= 1

(* The copy in Tenant that stands for a subscription status.               *)
CacheFor(s) ==
  CASE sub[s].status = "trialing"  -> IF sub[s].plan \in Trial THEN "trial" ELSE "active"
    [] sub[s].status = "active"    -> "active"
    [] sub[s].status = "past_due"  -> "suspended"
    [] sub[s].status = "cancelled" -> "cancelled"
    [] sub[s].status = "expired"   -> "expired"

(* While a tenant has had one subscription, Tenant.subscription.status is  *)
(* the copy of it whenever no handler is at work and none has failed or    *)
(* overlapped another.                                                     *)
CacheAgrees ==
  \A s \in Subs :
    /\ Exists(s) /\ InFlight = {} /\ s \notin lapsed \cup crossed
    /\ \A t \in Subs \ {s} : mandate[t] = "none" /\ ~Exists(t)
    => tenant.status = CacheFor(s)

(* Subscription.renew() sets the end of the period to that of the charge   *)
(* reported, and is not told whether it is later.  A paid period is not    *)
(* taken back, whatever is reported again or died, unless a charge was     *)
(* handled after the next one had been made.  In whatever order the        *)
(* charges are reported, one that the subscription lists never sets the    *)
(* period again, unless two reports were handled at once.                  *)
PeriodOnlyGrows ==
  [][\A s \in Subs :
       sub'[s].end # sub[s].end =>
         /\ s \notin overtaken => sub'[s].end > sub[s].end
         /\ s \notin crossed => \A r \in sub[s].receipts : r[1][2] # sub'[s].end]_vars

(* A recorded charge is listed by the subscription once its handler is     *)
(* through, and has renewed it unless charges overtook one another: after  *)
(* the Payment is there no delivery would do it any more.                  *)
RecordedMeansRenewed ==
  \A r \in receipt :
    LET s == r[1][1]
    IN  WorkOn(s) = {} /\ s \notin lapsed =>
          /\ r \in sub[s].receipts
          /\ s \notin overtaken => sub[s].end >= r[1][2]
=============================================================================
