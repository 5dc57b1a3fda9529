---------------------- MODULE SubscriptionBillingProofs ----------------------
(* Proofs about SubscriptionBilling for every set of subscriptions, plans  *)
(* and concurrent handlers, any number of cycles and of failures.          *)
EXTENDS SubscriptionBilling, FiniteSetTheorems, TLAPS

(* What a handler needs of its record at each step. *)
Shape(r) ==
  /\ r.pc # "idle" => r.sub \in Subs
  /\ r.pc \in {"receipt", "renew"} => r.cycle # 0
  /\ r.pc = "renew" => r.receipt \in Receipt /\ r.receipt[1] = <<r.sub, r.cycle>>
  /\ r.pc = "tenant" => r.to \in Cached

(* The handlers that are about to record charge c. *)
Pending(c) == {q \in Requests : req[q].pc = "receipt" /\ <<req[q].sub, req[q].cycle>> = c}

(* A charge has no more Payments than there are handlers at once, because  *)
(* each handler looked for one when there was none.                        *)
FlightInv ==
  /\ IsFiniteSet(InFlight) /\ Cardinality(InFlight) <= MaxInFlight
  /\ \A c \in Charge :
       /\ IsFiniteSet(ReceiptsOf(c))
       /\ Cardinality(ReceiptsOf(c)) + Cardinality(Pending(c)) <= MaxInFlight

TypeInv == TypeOK /\ (\A q \in Requests : Shape(req[q])) /\ FlightInv

-----------------------------------------------------------------------------
(* A handler works on a subscription that exists, unless it creates it,    *)
(* and then it is alone.                                                   *)
LifeInv ==
  /\ \A s \in Subs : ~Exists(s) => /\ sub[s].end = 0
                                   /\ \A r \in receipt : r[1][1] # s
  /\ \A q \in Requests :
       req[q].pc # "idle" => (Exists(req[q].sub) <=> req[q].pc \notin {"mandate", "insert"})
  /\ \A p, q \in Requests :
       req[q].pc \in {"mandate", "insert"} /\ req[p].pc # "idle" /\ req[p].sub = req[q].sub => p = q

(* On a subscription that has not been crossed there is one handler at     *)
(* most, and the charge it is about to record has no Payment.              *)
CrossInv ==
  \A s \in Subs \ crossed :
    /\ \A p, q \in WorkOn(s) : p = q
    /\ \A q \in WorkOn(s) : req[q].pc = "receipt" => ReceiptsOf(<<s, req[q].cycle>>) = {}
    /\ \A c \in Charge : c[1] = s => Cardinality(ReceiptsOf(c)) <= 1

(* A subscription lists Payments of its own.  Unless a handler has died on *)
(* it, each of them is listed or about to be, and unless it was crossed    *)
(* none is listed twice.                                                   *)
ListInv ==
  /\ \A s \in Subs : \A r \in sub[s].receipts : r \in receipt /\ r[1][1] = s
  /\ \A q \in Requests :
       req[q].pc = "renew" =>
         /\ req[q].receipt \in receipt
         /\ req[q].sub \notin crossed => req[q].receipt \notin sub[req[q].sub].receipts
  /\ \A s \in Subs \ lapsed : \A r \in receipt :
       r[1][1] = s => \/ r \in sub[s].receipts
                      \/ \E q \in WorkOn(s) : req[q].pc = "renew" /\ req[q].receipt = r

(* Unless it was charged again too early, a subscription's charges before  *)
(* the last are recorded, and it has reached the period of each it lists.  *)
RenewInv ==
  /\ \A s \in Subs : sub[s].end <= cycles[s]
  /\ \A r \in receipt : r[1][2] <= cycles[r[1][1]]
  /\ \A q \in Requests : req[q].pc \in {"receipt", "renew"} => req[q].cycle <= cycles[req[q].sub]
  /\ \A s \in Subs \ overtaken :
       /\ \A n \in 1..(cycles[s] - 1) : ReceiptsOf(<<s, n>>) # {}
       /\ \A q \in WorkOn(s) : req[q].pc \in {"receipt", "renew"} => req[q].cycle = cycles[s]
       /\ \A r \in sub[s].receipts : r[1][2] <= sub[s].end

(* The only subscription the tenant has had. *)
Only(s) == \A t \in Subs \ {s} : mandate[t] = "none" /\ ~Exists(t)

(* Tenant.subscription.status follows s, but for the step that the handler *)
(* at work on it has yet to take.                                          *)
CacheOf(s) ==
  /\ (\A q \in WorkOn(s) : req[q].pc \notin {"cache", "clear", "tenant"}) => tenant.status = CacheFor(s)
  /\ \A q \in WorkOn(s) :
       /\ req[q].pc = "cache" => sub[s].status = "trialing" /\ req[q].plan = sub[s].plan
       /\ req[q].pc = "clear" => sub[s].status = "cancelled"
       /\ req[q].pc = "tenant" => req[q].to = CacheFor(s)
       /\ req[q].pc \notin {"cache", "clear", "tenant", "load"} => req[q].was = sub[s].status

CacheInv == \A s \in Subs \ (lapsed \cup crossed) : Exists(s) /\ Only(s) => CacheOf(s)

-----------------------------------------------------------------------------
(* Steps of the handlers.  Each changes the record of one handler.         *)

Others(q) ==
  /\ req' \in [Requests -> Request]
  /\ \A p \in Requests \ {q} : req'[p] = req[p]

(* q begins to work on s. *)
Begins(q, s) ==
  /\ Others(q)
  /\ req[q].pc = "idle" /\ req'[q].pc # "idle" /\ req'[q].sub = s
  /\ Cardinality(InFlight) < MaxInFlight
  /\ lapsed' = lapsed /\ crossed' = IF WorkOn(s) = {} THEN crossed ELSE crossed \cup {s}

(* q goes on, with the same subscription. *)
GoesOn(q) ==
  /\ Others(q)
  /\ req[q].pc # "idle" /\ req'[q].pc # "idle" /\ req'[q].sub = req[q].sub
  /\ req[q].sub \in Subs
  /\ lapsed' = lapsed /\ crossed' = crossed

(* q is done. *)
Stops(q) == Others(q) /\ req[q].pc # "idle" /\ req[q].sub \in Subs /\ req'[q].pc = "idle"

LEMMA IdleIsTyped == Idle \in Request /\ Shape(Idle)
  BY SubscriptionConstants DEF Idle, Request, PCs, Statuses, Live, Shape

LEMMA SetsRecord ==
  ASSUME TypeInv, NEW q \in Requests, NEW v \in Request, req' = [req EXCEPT ![q] = v]
  PROVE  Others(q) /\ req'[q] = v
  BY DEF TypeInv, TypeOK, Others

LEMMA HandlerIsTyped ==
  ASSUME TypeInv, NEW q \in Requests
  PROVE  /\ req[q] \in Request /\ Shape(req[q])
         /\ req[q].pc # "idle" => req[q].sub \in Subs
  BY DEF TypeInv, TypeOK, Shape

LEMMA AnswerForm ==
  ASSUME TypeInv, NEW q \in Requests, req[q].pc # "idle", Answer(q)
  PROVE  Stops(q) /\ Shape(req[q])'
<1>1. Others(q) /\ req'[q] = Idle
  BY IdleIsTyped, SetsRecord DEF Answer
<1>2. QED BY <1>1, IdleIsTyped, HandlerIsTyped DEF Stops, Idle, Shape

LEMMA GotoForm ==
  ASSUME TypeInv, NEW q \in Requests, NEW pc \in PCs \ {"idle"}, req[q].pc # "idle", Goto(q, pc),
         UNCHANGED history
  PROVE  /\ GoesOn(q)
         /\ req'[q].pc = pc /\ req'[q].plan = req[q].plan /\ req'[q].was = req[q].was
         /\ req'[q].cycle = req[q].cycle /\ req'[q].immediate = req[q].immediate
         /\ req'[q].receipt = req[q].receipt /\ req'[q].to = req[q].to
<1> DEFINE v == [req[q] EXCEPT !.pc = pc]
<1>1. v \in Request /\ v.pc = pc /\ v.sub = req[q].sub /\ v.plan = req[q].plan /\ v.was = req[q].was
      /\ v.cycle = req[q].cycle /\ v.immediate = req[q].immediate
      /\ v.receipt = req[q].receipt /\ v.to = req[q].to
  BY HandlerIsTyped DEF Request
<1>2. req' = [req EXCEPT ![q] = v]
  BY DEF Goto
<1>3. Others(q) /\ req'[q] = v
  BY <1>1, <1>2, SetsRecord
<1> HIDE DEF v
<1>4. QED BY <1>1, <1>3, HandlerIsTyped DEF GoesOn, history

LEMMA SyncForm ==
  ASSUME TypeInv, NEW q \in Requests, req[q].pc # "idle", NEW status \in Cached, Sync(q, status),
         UNCHANGED history
  PROVE  GoesOn(q) /\ req'[q].pc = "tenant" /\ req'[q].to = status /\ Shape(req[q])'
<1> DEFINE v == [Idle EXCEPT !.pc = "tenant", !.sub = req[q].sub, !.to = status]
<1>1. v \in Request /\ v.pc = "tenant" /\ v.sub = req[q].sub /\ v.to = status
  BY HandlerIsTyped, IdleIsTyped DEF Request, Idle, PCs, Cached
<1>2. req' = [req EXCEPT ![q] = v]
  BY DEF Sync
<1>3. Others(q) /\ req'[q] = v
  BY <1>1, <1>2, SetsRecord
<1> HIDE DEF v
<1>4. QED BY <1>1, <1>3, HandlerIsTyped DEF GoesOn, history, Shape

LEMMA LoadIsTyped ==
  ASSUME TypeInv, NEW q \in Requests, NEW s \in Subs, NEW pc \in PCs
  PROVE  /\ Load(q, s, pc) \in Request
         /\ Load(q, s, pc).pc = pc /\ Load(q, s, pc).sub = s /\ Load(q, s, pc).was = sub[s].status
<1>1. sub[s].status \in Statuses \cup {"absent"}
  BY DEF TypeInv, TypeOK, Subscription
<1>2. QED BY <1>1, IdleIsTyped DEF Load, Idle, Request

-----------------------------------------------------------------------------
(* The actions, in this form *)

LEMMA FindActiveForm ==
  ASSUME TypeInv, NEW q \in Requests, FindActive(q)
  PROVE  \E s \in Subs, p \in Plans :
           /\ ~Exists(s) /\ mandate[s] = "none" /\ WorkOn(s) = {}
           /\ \A t \in Subs : sub[t].status \notin Live
           /\ Begins(q, s) /\ crossed' = crossed
           /\ req'[q].pc = (IF p \in Paid THEN "mandate" ELSE "insert") /\ req'[q].plan = p
           /\ req'[q].was = sub[s].status
           /\ Shape(req[q])'
<1>1. PICK s \in Subs, p \in Plans :
        /\ ~Exists(s) /\ mandate[s] = "none" /\ WorkOn(s) = {}
        /\ Admit(q, s)
        /\ req' = [req EXCEPT ![q] = [Load(q, s, IF p \in Paid THEN "mandate" ELSE "insert")
                                        EXCEPT !.plan = p]]
  BY DEF FindActive
<1> DEFINE pc == IF p \in Paid THEN "mandate" ELSE "insert"
           v  == [Load(q, s, pc) EXCEPT !.plan = p]
<1>2. pc \in PCs /\ pc \in {"mandate", "insert"}
  BY DEF PCs
<1>3. v \in Request /\ v.pc = pc /\ v.sub = s /\ v.plan = p /\ v.was = sub[s].status
  <2> HIDE DEF pc
  <2>1. QED BY <1>2, LoadIsTyped DEF Request
<1>4. Others(q) /\ req'[q] = v
  BY <1>1, <1>3, SetsRecord
<1> HIDE DEF v
<1>5. Begins(q, s) /\ crossed' = crossed
  BY <1>1, <1>2, <1>3, <1>4 DEF Begins, Admit
<1>6. Shape(req[q])'
  BY <1>2, <1>3, <1>4 DEF Shape
<1>7. QED BY <1>1, <1>3, <1>4, <1>5, <1>6 DEF FindActive

LEMMA LoadToCancelForm ==
  ASSUME TypeInv, NEW q \in Requests, LoadToCancel(q)
  PROVE  \E s \in Subs :
           /\ Exists(s) /\ Begins(q, s)
           /\ req'[q].pc \in {"gateway", "cancel"} /\ req'[q].was = sub[s].status
           /\ Shape(req[q])'
<1>1. PICK s \in Subs, immediate \in BOOLEAN :
        /\ Exists(s)
        /\ Admit(q, s)
        /\ req' = [req EXCEPT ![q] = [Load(q, s, IF sub[s].plan \in Paid THEN "gateway" ELSE "cancel")
                                        EXCEPT !.immediate = immediate]]
  BY DEF LoadToCancel
<1> DEFINE pc == IF sub[s].plan \in Paid THEN "gateway" ELSE "cancel"
           v  == [Load(q, s, pc) EXCEPT !.immediate = immediate]
<1>2. pc \in PCs /\ pc \in {"gateway", "cancel"}
  BY DEF PCs
<1>3. v \in Request /\ v.pc = pc /\ v.sub = s /\ v.was = sub[s].status
  <2> HIDE DEF pc
  <2>1. QED BY <1>2, LoadIsTyped DEF Request
<1>4. Others(q) /\ req'[q] = v
  BY <1>1, <1>3, SetsRecord
<1> HIDE DEF v
<1>5. Begins(q, s)
  BY <1>1, <1>2, <1>3, <1>4 DEF Begins, Admit
<1>6. Shape(req[q])'
  BY <1>2, <1>3, <1>4 DEF Shape
<1>7. QED BY <1>1, <1>2, <1>3, <1>4, <1>5, <1>6

LEMMA FindChargedForm ==
  ASSUME TypeInv, NEW q \in Requests, NEW s \in Subs, FindCharged(q, s)
  PROVE  /\ Exists(s) /\ Begins(q, s)
         /\ req'[q].pc = "receipt" /\ req'[q].was = sub[s].status
         /\ req'[q].cycle \in 1..cycles[s] /\ ReceiptsOf(<<s, req'[q].cycle>>) = {}
         /\ Shape(req[q])'
<1>1. PICK n \in 1..cycles[s] :
        /\ ReceiptsOf(<<s, n>>) = {}
        /\ req' = [req EXCEPT ![q] = [Load(q, s, "receipt") EXCEPT !.cycle = n]]
  BY DEF FindCharged
<1> DEFINE v == [Load(q, s, "receipt") EXCEPT !.cycle = n]
<1>2. n \in 0..MaxCycles /\ n # 0
  BY SubscriptionConstants DEF TypeInv, TypeOK
<1>3. v \in Request /\ v.pc = "receipt" /\ v.sub = s /\ v.cycle = n /\ v.was = sub[s].status
  BY <1>2, LoadIsTyped DEF Request, PCs
<1>4. Others(q) /\ req'[q] = v
  BY <1>1, <1>3, SetsRecord
<1> HIDE DEF v
<1>5. Begins(q, s)
  BY <1>3, <1>4 DEF Begins, Admit, FindCharged
<1>6. Shape(req[q])'
  BY <1>2, <1>3, <1>4 DEF Shape
<1>7. QED BY <1>1, <1>3, <1>4, <1>5, <1>6 DEF FindCharged

LEMMA FindEndedForm ==
  ASSUME TypeInv, NEW q \in Requests, NEW s \in Subs, FindEnded(q, s)
  PROVE  /\ Exists(s) /\ Begins(q, s) /\ mandate[s] \in {"cancelled", "completed"}
         /\ req'[q].pc = "ended" /\ req'[q].was = sub[s].status
         /\ Shape(req[q])'
<1> DEFINE v == Load(q, s, "ended")
<1>1. v \in Request /\ v.pc = "ended" /\ v.sub = s /\ v.was = sub[s].status
  BY LoadIsTyped DEF PCs
<1>2. Others(q) /\ req'[q] = v
  BY <1>1, SetsRecord DEF FindEnded
<1> HIDE DEF v
<1>3. Begins(q, s)
  BY <1>1, <1>2 DEF Begins, Admit, FindEnded
<1>4. QED BY <1>1, <1>2, <1>3 DEF FindEnded, Shape

LEMMA FindRefusedForm ==
  ASSUME TypeInv, NEW q \in Requests, NEW s \in Subs, FindRefused(q, s)
  PROVE  /\ \E r \in receipt : r[1][1] = s /\ failed' = failed \cup {r}
         /\ Begins(q, s)
         /\ req'[q].pc = "load"
         /\ Shape(req[q])'
<1> DEFINE v == [Idle EXCEPT !.pc = "load", !.sub = s]
<1>1. v \in Request /\ v.pc = "load" /\ v.sub = s
  BY IdleIsTyped DEF Idle, Request, PCs
<1>2. req' = [req EXCEPT ![q] = v] /\ Admit(q, s)
  BY DEF FindRefused
<1>3. Others(q) /\ req'[q] = v
  BY <1>1, <1>2, SetsRecord
<1> HIDE DEF v
<1>4. Begins(q, s)
  BY <1>1, <1>2, <1>3 DEF Begins, Admit
<1>5. \E r \in receipt : r[1][1] = s /\ failed' = failed \cup {r}
  BY DEF FindRefused, ReceiptsOf
<1>6. QED BY <1>1, <1>3, <1>4, <1>5 DEF Shape

LEMMA InsertReceiptForm ==
  ASSUME TypeInv, NEW q \in Requests, InsertReceipt(q)
  PROVE  LET c == <<req[q].sub, req[q].cycle>>
             r == <<c, Cardinality(ReceiptsOf(c)) + 1>>
         IN  /\ c \in Charge /\ r \in Receipt /\ receipt' = receipt \cup {r}
             /\ req[q].pc = "receipt" /\ GoesOn(q)
             /\ req'[q].pc = "renew" /\ req'[q].receipt = r /\ req'[q].cycle = req[q].cycle
             /\ req'[q].was = req[q].was
             /\ Shape(req[q])'
<1> DEFINE c == <<req[q].sub, req[q].cycle>>
           r == <<c, Cardinality(ReceiptsOf(c)) + 1>>
           v == [req[q] EXCEPT !.pc = "renew", !.receipt = r]
<1>1. req[q].pc = "receipt" /\ receipt' = receipt \cup {r} /\ UNCHANGED history
  BY DEF InsertReceipt
<1>2. c \in Charge
  BY <1>1, HandlerIsTyped, SubscriptionConstants DEF Charge, Shape, Request
<1>3. Cardinality(ReceiptsOf(c)) + 1 \in 1..MaxInFlight
  <2> HIDE DEF c
  <2>1. IsFiniteSet(ReceiptsOf(c)) /\ IsFiniteSet(InFlight)
        /\ Cardinality(ReceiptsOf(c)) + Cardinality(Pending(c)) <= MaxInFlight
    BY <1>2 DEF TypeInv, FlightInv
  <2>2. q \in Pending(c) /\ Pending(c) \subseteq InFlight
    BY <1>1 DEF Pending, InFlight, c
  <2>3. IsFiniteSet(Pending(c))
    BY <2>1, <2>2, FS_Subset
  <2>4. Cardinality(Pending(c)) \in Nat /\ Cardinality(Pending(c)) # 0
        /\ Cardinality(ReceiptsOf(c)) \in Nat
    BY <2>1, <2>2, <2>3, FS_EmptySet, FS_CardinalityType
  <2>5. QED BY <2>1, <2>4, SubscriptionConstants
<1>4. r \in Receipt
  BY <1>2, <1>3 DEF Receipt
<1>5. req' = [req EXCEPT ![q] = v]
  BY DEF InsertReceipt
<1> DEFINE rr == r
<1> HIDE DEF r
<1>6. v \in Request /\ v.pc = "renew" /\ v.receipt = r /\ v.sub = req[q].sub
      /\ v.cycle = req[q].cycle /\ v.was = req[q].was
  BY <1>4, HandlerIsTyped DEF Request, PCs
<1>7. Others(q) /\ req'[q] = v
  BY <1>5, <1>6, SetsRecord
<1> HIDE DEF v
<1>8. GoesOn(q)
  BY <1>1, <1>6, <1>7, HandlerIsTyped DEF GoesOn, history
<1>9. Shape(req[q])'
  <2>1. r[1] = <<req[q].sub, req[q].cycle>>
    BY DEF r
  <2>2. QED BY <1>1, <1>4, <1>6, <1>7, <2>1, HandlerIsTyped DEF Shape
<1>10. QED BY <1>1, <1>2, <1>4, <1>6, <1>7, <1>8, <1>9 DEF r

LEMMA LoadRefusedForm ==
  ASSUME TypeInv, NEW q \in Requests, LoadRefused(q)
  PROVE  /\ req[q].pc = "load" /\ GoesOn(q)
         /\ req'[q].pc = "overdue" /\ req'[q].was = sub[req[q].sub].status
         /\ Shape(req[q])'
<1> DEFINE v == Load(q, req[q].sub, "overdue")
<1>1. req[q].pc = "load" /\ req[q].sub \in Subs
  BY HandlerIsTyped DEF LoadRefused
<1>2. v \in Request /\ v.pc = "overdue" /\ v.sub = req[q].sub /\ v.was = sub[req[q].sub].status
  BY <1>1, LoadIsTyped DEF PCs
<1>3. Others(q) /\ req'[q] = v
  BY <1>2, SetsRecord DEF LoadRefused
<1> HIDE DEF v
<1>4. QED BY <1>1, <1>2, <1>3 DEF LoadRefused, GoesOn, history, Shape

(* Who is at work after a step *)

LEMMA WorkAfterBegin ==
  ASSUME NEW q \in Requests, NEW s \in Subs, Begins(q, s)
  PROVE  /\ InFlight' = InFlight \cup {q}
         /\ \A t \in Subs : WorkOn(t)' = IF t = s THEN WorkOn(t) \cup {q} ELSE WorkOn(t)
  BY DEF Begins, Others, InFlight, WorkOn

LEMMA WorkAfterGoingOn ==
  ASSUME NEW q \in Requests, GoesOn(q)
  PROVE  /\ InFlight' = InFlight
         /\ \A t \in Subs : WorkOn(t)' = WorkOn(t)
         /\ q \in WorkOn(req[q].sub)
  BY DEF GoesOn, Others, InFlight, WorkOn

LEMMA WorkAfterStop ==
  ASSUME NEW q \in Requests, Stops(q)
  PROVE  /\ InFlight' = InFlight \ {q}
         /\ \A t \in Subs : WorkOn(t)' = WorkOn(t) \ {q}
  BY DEF Stops, Others, InFlight, WorkOn

LEMMA WorkUntouched ==
  ASSUME req' = req
  PROVE  InFlight' = InFlight /\ \A t \in Subs : WorkOn(t)' = WorkOn(t)
  BY DEF InFlight, WorkOn

-----------------------------------------------------------------------------
(* Types *)

LEMMA ShapesKept ==
  ASSUME TypeInv, NEW q \in Requests, Others(q), Shape(req[q])'
  PROVE  \A p \in Requests : Shape(req[p])'
<1>1. ASSUME NEW p \in Requests \ {q} PROVE Shape(req[p])'
  BY <1>1 DEF TypeInv, Others, Shape
<1>2. QED BY <1>1

(* A step that adds no Payment and sends at most one handler to record a   *)
(* charge, one without a Payment.                                          *)
LEMMA FlightFrame ==
  ASSUME TypeInv, receipt' = receipt,
         NEW q \in Requests,
         \/ InFlight' \subseteq InFlight
         \/ InFlight' = InFlight \cup {q} /\ Cardinality(InFlight) < MaxInFlight,
         \A c \in Charge : Pending(c)' \subseteq Pending(c) \/ ReceiptsOf(c) = {}
  PROVE  FlightInv'
<1>1. IsFiniteSet(InFlight) /\ Cardinality(InFlight) \in Nat /\ Cardinality(InFlight) <= MaxInFlight
      /\ MaxInFlight \in Nat
  BY FS_CardinalityType, SubscriptionConstants DEF TypeInv, FlightInv
<1>2. IsFiniteSet(InFlight') /\ Cardinality(InFlight') \in Nat /\ Cardinality(InFlight') <= MaxInFlight
  <2>1. CASE InFlight' \subseteq InFlight
    BY <1>1, <2>1, FS_Subset, FS_CardinalityType
  <2>2. CASE InFlight' = InFlight \cup {q} /\ Cardinality(InFlight) < MaxInFlight
    <3>1. /\ IsFiniteSet(InFlight \cup {q})
          /\ Cardinality(InFlight \cup {q}) \in {Cardinality(InFlight), Cardinality(InFlight) + 1}
      BY <1>1, FS_AddElement
    <3>2. QED BY <1>1, <2>2, <3>1
  <2>3. QED BY <2>1, <2>2
<1>3. ASSUME NEW c \in Charge
      PROVE  /\ IsFiniteSet(ReceiptsOf(c)')
             /\ Cardinality(ReceiptsOf(c)') + Cardinality(Pending(c)') <= MaxInFlight
  <2>1. ReceiptsOf(c)' = ReceiptsOf(c)
    BY DEF ReceiptsOf
  <2>2. /\ IsFiniteSet(ReceiptsOf(c)) /\ Cardinality(ReceiptsOf(c)) \in Nat
        /\ Cardinality(ReceiptsOf(c)) + Cardinality(Pending(c)) <= MaxInFlight
    BY FS_CardinalityType DEF TypeInv, FlightInv
  <2>3. Pending(c)' \subseteq InFlight' /\ Pending(c) \subseteq InFlight
    BY DEF Pending, InFlight
  <2>4. CASE Pending(c)' \subseteq Pending(c)
    <3>1. IsFiniteSet(Pending(c)) /\ Cardinality(Pending(c)) \in Nat
      BY <1>1, <2>3, FS_Subset, FS_CardinalityType
    <3>2. Cardinality(Pending(c)') \in Nat /\ Cardinality(Pending(c)') <= Cardinality(Pending(c))
      BY <2>4, <3>1, FS_Subset, FS_CardinalityType
    <3>3. QED BY <1>1, <2>1, <2>2, <3>1, <3>2
  <2>5. CASE ReceiptsOf(c) = {}
    <3>1. Cardinality(ReceiptsOf(c)) = 0
      BY <2>5, FS_EmptySet
    <3>2. Cardinality(Pending(c)') \in Nat /\ Cardinality(Pending(c)') <= Cardinality(InFlight')
      BY <1>2, <2>3, FS_Subset, FS_CardinalityType
    <3>3. QED BY <1>1, <1>2, <2>1, <2>2, <3>1, <3>2
  <2>6. QED BY <2>4, <2>5
<1>4. QED BY <1>2, <1>3 DEF FlightInv

LEMMA FlightAfterBegin ==
  ASSUME TypeInv, receipt' = receipt, NEW q \in Requests, NEW s \in Subs, Begins(q, s),
         req'[q].pc = "receipt" => ReceiptsOf(<<s, req'[q].cycle>>) = {}
  PROVE  FlightInv'
<1>1. ASSUME NEW c \in Charge, ReceiptsOf(c) # {} PROVE Pending(c)' \subseteq Pending(c)
  BY <1>1 DEF Begins, Others, Pending
<1>2. InFlight' = InFlight \cup {q} /\ Cardinality(InFlight) < MaxInFlight
  BY WorkAfterBegin DEF Begins
<1>3. QED BY <1>1, <1>2, FlightFrame

LEMMA FlightAfterAdvance ==
  ASSUME TypeInv, receipt' = receipt, NEW q \in Requests, GoesOn(q) \/ Stops(q), req'[q].pc # "receipt"
  PROVE  FlightInv'
<1>1. ASSUME NEW c \in Charge PROVE Pending(c)' \subseteq Pending(c)
  BY DEF GoesOn, Stops, Others, Pending
<1>2. InFlight' \subseteq InFlight
  BY WorkAfterGoingOn, WorkAfterStop
<1>3. QED BY <1>1, <1>2, FlightFrame

LEMMA FlightAfterInsert ==
  ASSUME TypeInv, NEW q \in Requests, InsertReceipt(q)
  PROVE  FlightInv'
<1> DEFINE c == <<req[q].sub, req[q].cycle>>
           r == <<c, Cardinality(ReceiptsOf(c)) + 1>>
<1>1. /\ c \in Charge /\ receipt' = receipt \cup {r} /\ r[1] = c
      /\ req[q].pc = "receipt" /\ GoesOn(q) /\ req'[q].pc = "renew"
  BY InsertReceiptForm
<1> HIDE DEF r
<1>2. InFlight' = InFlight
  BY <1>1, WorkAfterGoingOn
<1>3. IsFiniteSet(InFlight) /\ Cardinality(InFlight) <= MaxInFlight /\ MaxInFlight \in Nat
  BY SubscriptionConstants DEF TypeInv, FlightInv
<1>4. ASSUME NEW d \in Charge
      PROVE  /\ IsFiniteSet(ReceiptsOf(d)')
             /\ Cardinality(ReceiptsOf(d)') + Cardinality(Pending(d)') <= MaxInFlight
  <2>1. /\ IsFiniteSet(ReceiptsOf(d)) /\ Cardinality(ReceiptsOf(d)) \in Nat
        /\ Cardinality(ReceiptsOf(d)) + Cardinality(Pending(d)) <= MaxInFlight
    BY FS_CardinalityType DEF TypeInv, FlightInv
  <2>2. IsFiniteSet(Pending(d)) /\ Cardinality(Pending(d)) \in Nat
    <3>1. Pending(d) \subseteq InFlight
      BY DEF Pending, InFlight
    <3>2. QED BY <1>3, <3>1, FS_Subset, FS_CardinalityType
  <2>3. CASE d = c
    <3>1. ReceiptsOf(d)' = ReceiptsOf(d) \cup {r}
      BY <1>1, <2>3 DEF ReceiptsOf
    <3>2. Pending(d)' = Pending(d) \ {q} /\ q \in Pending(d)
      BY <1>1, <2>3 DEF Pending, GoesOn, Others
    <3>3. /\ IsFiniteSet(ReceiptsOf(d)') /\ Cardinality(ReceiptsOf(d)') \in Nat
          /\ Cardinality(ReceiptsOf(d)') <= Cardinality(ReceiptsOf(d)) + 1
      BY <2>1, <3>1, FS_AddElement
    <3>4. Cardinality(Pending(d)') = Cardinality(Pending(d)) - 1
      BY <2>2, <3>2, FS_RemoveElement
    <3>5. QED BY <1>3, <2>1, <2>2, <3>3, <3>4
  <2>4. CASE d # c
    <3>1. ReceiptsOf(d)' = ReceiptsOf(d)
      BY <1>1, <2>4 DEF ReceiptsOf
    <3>2. Pending(d)' = Pending(d)
      BY <1>1, <2>4 DEF Pending, GoesOn, Others
    <3>3. QED BY <2>1, <3>1, <3>2
  <2>5. QED BY <2>3, <2>4
<1>5. QED BY <1>2, <1>3, <1>4 DEF FlightInv

LEMMA FlightUntouched ==
  ASSUME TypeInv, receipt' = receipt, req' = req
  PROVE  FlightInv'
  BY DEF TypeInv, FlightInv, InFlight, ReceiptsOf, Pending

(* What the helpers write is a status *)
LEMMA SavedIsTyped ==
  ASSUME TypeInv, NEW q \in Requests, req[q].sub \in Subs, NEW status \in Statuses
  PROVE  Saved(q, status) \in Statuses \cup {"absent"}
  BY DEF Saved, TypeInv, TypeOK, Subscription

LEMMA SubIsTyped ==
  ASSUME TypeInv, NEW s \in Subs
  PROVE  sub[s] \in Subscription /\ cycles[s] \in 0..MaxCycles /\ cycles[s] \in Nat
         /\ sub[s].end \in 0..MaxCycles /\ sub[s].end \in Nat /\ mandate[s] \in Mandate
  BY SubscriptionConstants DEF TypeInv, TypeOK, Subscription

LEMMA NoSubIsTyped == NoSub \in Subscription
  BY SubscriptionConstants DEF NoSub, Subscription

LEMMA InitTypeInv == Init => TypeInv
<1> SUFFICES ASSUME Init PROVE TypeInv
  OBVIOUS
<1>1. TypeOK
  <2>1. PICK p \in Trial : tenant = [status |-> "trial", plan |-> p]
    BY DEF Init
  <2>2. tenant \in [status : Cached, plan : Plans \cup {None}]
    BY <2>1, SubscriptionConstants DEF Cached
  <2>3. QED BY <2>2, NoSubIsTyped, IdleIsTyped, SubscriptionConstants DEF Init, TypeOK, Mandate
<1>2. \A q \in Requests : Shape(req[q])
  BY IdleIsTyped DEF Init
<1>3. FlightInv
  <2>1. InFlight = {} /\ \A c \in Charge : ReceiptsOf(c) = {} /\ Pending(c) = {}
    BY DEF Init, InFlight, ReceiptsOf, Pending, Idle
  <2>2. QED BY <2>1, FS_EmptySet, SubscriptionConstants DEF FlightInv
<1>4. QED BY <1>1, <1>2, <1>3 DEF TypeInv

LEMMA AtEndIsTyped ==
  ASSUME NEW r \in Subscription, NEW b \in BOOLEAN
  PROVE  [r EXCEPT !.atEnd = b] \in Subscription
  BY DEF Subscription

LEMMA RenewedIsTyped ==
  ASSUME NEW r \in Subscription, NEW status \in Statuses \cup {"absent"}, NEW n \in 0..MaxCycles,
         NEW x \in Receipt
  PROVE  [r EXCEPT !.status = status, !.end = n, !.receipts = r.receipts \cup {x}] \in Subscription
<1>1. r.receipts \cup {x} \in SUBSET Receipt
  BY DEF Subscription
<1>2. QED BY <1>1 DEF Subscription

LEMMA AdvanceTypeInv ==
  ASSUME TypeInv, NEW q \in Requests, Advance(q)
  PROVE  TypeInv'
<1> DEFINE s == req[q].sub
<1>0. TypeOK /\ req[q] \in Request /\ Shape(req[q]) /\ (req[q].pc # "idle" => s \in Subs)
  BY HandlerIsTyped DEF TypeInv
<1>f. ASSUME GoesOn(q) \/ Stops(q), req'[q].pc # "receipt", Shape(req[q])', receipt' = receipt, TypeOK'
      PROVE  TypeInv'
  BY <1>f, FlightAfterAdvance, ShapesKept DEF TypeInv, GoesOn, Stops
<1>1. ASSUME RegisterMandate(q) PROVE TypeInv'
  <2>1. GoesOn(q) /\ req'[q].pc = "insert"
    BY <1>1, GotoForm DEF RegisterMandate, PCs
  <2>2. TypeOK'
    BY <1>0, <1>1, <2>1 DEF RegisterMandate, TypeOK, GoesOn, Others, history, payments, charges, Mandate
  <2>3. QED BY <1>1, <1>f, <2>1, <2>2 DEF RegisterMandate, payments, GoesOn, Shape
<1>2. ASSUME InsertSubscription(q) PROVE TypeInv'
  <2>1. GoesOn(q) /\ req'[q].pc = "cache"
    BY <1>2, GotoForm DEF InsertSubscription, PCs
  <2>2. [NoSub EXCEPT !.status = "trialing", !.plan = req[q].plan] \in Subscription
    <3>1. "trialing" \in Statuses \cup {"absent"} /\ req[q].plan \in Plans \cup {None}
      BY <1>0 DEF Statuses, Live, Request
    <3>2. QED BY <3>1, NoSubIsTyped DEF Subscription
  <2>3. TypeOK'
    BY <1>0, <1>2, <2>1, <2>2 DEF InsertSubscription, TypeOK, GoesOn, Others, history, payments, gateway, charges
  <2>4. QED BY <1>2, <1>f, <2>1, <2>3 DEF InsertSubscription, payments, GoesOn, Shape
<1>3. ASSUME CacheNew(q) PROVE TypeInv'
  <2>1. Stops(q) /\ Shape(req[q])'
    BY <1>3, AnswerForm DEF CacheNew
  <2>2. TypeOK'
    BY <1>0, <1>3, <2>1 DEF CacheNew, TypeOK, Stops, Others, history, payments, gateway, charges, Cached, Request
  <2>3. QED BY <1>3, <1>f, <2>1, <2>2 DEF CacheNew, payments, Stops
<1>4. ASSUME CancelMandate(q) PROVE TypeInv'
  <2>1. CASE Goto(q, "cancel")
    <3>1. GoesOn(q) /\ req'[q].pc = "cancel"
      BY <1>4, <2>1, GotoForm DEF CancelMandate, PCs
    <3>2. mandate' \in [Subs -> Mandate]
      BY <1>0, <1>4 DEF CancelMandate, TypeOK, Mandate
    <3>3. TypeOK'
      BY <1>0, <1>4, <3>1, <3>2 DEF CancelMandate, TypeOK, GoesOn, Others, history, payments, charges
    <3>4. QED BY <1>4, <1>f, <3>1, <3>3 DEF CancelMandate, payments, GoesOn, Shape
  <2>2. CASE Answer(q) /\ UNCHANGED mandate
    <3>1. Stops(q) /\ Shape(req[q])'
      BY <1>4, <2>2, AnswerForm DEF CancelMandate
    <3>2. TypeOK'
      BY <1>0, <1>4, <2>2, <3>1 DEF CancelMandate, TypeOK, Stops, Others, history, payments, charges
    <3>3. QED BY <1>4, <1>f, <3>1, <3>2 DEF CancelMandate, payments, Stops
  <2>3. QED BY <1>4, <2>1, <2>2 DEF CancelMandate
<1>5. ASSUME SaveCancel(q) PROVE TypeInv'
  <2>0. req[q].pc = "cancel" /\ s \in Subs
    BY <1>0, <1>5 DEF SaveCancel
  <2>1. CASE req[q].immediate
    <3>1. GoesOn(q) /\ req'[q].pc = "clear"
      BY <1>5, <2>1, GotoForm DEF SaveCancel, PCs
    <3>2. Saved(q, "cancelled") \in Statuses \cup {"absent"}
      BY <2>0, SavedIsTyped DEF Statuses
    <3>3. sub' \in [Subs -> Subscription]
      BY <1>0, <1>5, <2>1, <3>2 DEF SaveCancel, TypeOK, Subscription
    <3>4. TypeOK'
      BY <1>0, <1>5, <3>1, <3>3 DEF SaveCancel, TypeOK, GoesOn, Others, history, payments, gateway, charges
    <3>5. QED BY <1>5, <1>f, <3>1, <3>4 DEF SaveCancel, payments, GoesOn, Shape
  <2>2. CASE ~req[q].immediate
    <3>1. Stops(q) /\ Shape(req[q])'
      BY <1>5, <2>2, AnswerForm DEF SaveCancel
    <3>2. sub' = [sub EXCEPT ![s].atEnd = TRUE] /\ sub \in [Subs -> Subscription]
      BY <1>0, <1>5, <2>2 DEF SaveCancel, TypeOK
    <3>3. [sub[s] EXCEPT !.atEnd = TRUE] \in Subscription
      BY <2>0, <3>2, AtEndIsTyped
    <3>4. sub' \in [Subs -> Subscription]
      BY <3>2, <3>3
    <3>5. TypeOK'
      BY <1>0, <1>5, <3>1, <3>4 DEF SaveCancel, TypeOK, Stops, Others, history, payments, gateway, charges
    <3>6. QED BY <1>5, <1>f, <3>1, <3>5 DEF SaveCancel, payments, Stops
  <2>3. QED BY <2>1, <2>2
<1>6. ASSUME ClearCache(q) PROVE TypeInv'
  <2>1. Stops(q) /\ Shape(req[q])'
    BY <1>6, AnswerForm DEF ClearCache
  <2>2. TypeOK'
    BY <1>0, <1>6, <2>1 DEF ClearCache, TypeOK, Stops, Others, history, payments, gateway, charges, Cached
  <2>3. QED BY <1>6, <1>f, <2>1, <2>2 DEF ClearCache, payments, Stops
<1>7. ASSUME InsertReceipt(q) PROVE TypeInv'
  <2> DEFINE r == <<<<req[q].sub, req[q].cycle>>, Cardinality(ReceiptsOf(<<req[q].sub, req[q].cycle>>)) + 1>>
  <2>0. GoesOn(q) /\ Shape(req[q])' /\ r \in Receipt /\ receipt' = receipt \cup {r}
    BY <1>7, InsertReceiptForm
  <2> HIDE DEF r
  <2>1. GoesOn(q) /\ Shape(req[q])' /\ receipt' \subseteq Receipt /\ receipt \subseteq receipt'
    BY <1>0, <2>0 DEF TypeOK
  <2>2. TypeOK'
    BY <1>0, <1>7, <2>1 DEF InsertReceipt, TypeOK, GoesOn, Others, history, gateway, charges
  <2>3. QED BY <1>7, <2>1, <2>2, FlightAfterInsert, ShapesKept DEF TypeInv, GoesOn
<1>8. ASSUME Renew(q) PROVE TypeInv'
  <2>1. GoesOn(q) /\ req'[q].pc = "tenant" /\ Shape(req[q])'
    BY <1>8, SyncForm DEF Renew, Cached
  <2>2. Saved(q, "active") \in Statuses \cup {"absent"}
    BY <1>0, <1>8, SavedIsTyped DEF Statuses, Live, Renew
  <2> DEFINE v == [sub[s] EXCEPT !.status = Saved(q, "active"), !.end = req[q].cycle,
                                 !.receipts = sub[s].receipts \cup {req[q].receipt}]
  <2>3. sub' \in [Subs -> Subscription]
    <3>1. s \in Subs /\ sub \in [Subs -> Subscription] /\ sub[s] \in Subscription
          /\ req[q].cycle \in 0..MaxCycles /\ req[q].receipt \in Receipt
      BY <1>0, <1>8 DEF Renew, Shape, TypeOK, Request
    <3>2. v \in Subscription
      BY <2>2, <3>1, RenewedIsTyped
    <3>3. sub' = [sub EXCEPT ![s] = v]
      BY <1>8, <3>1 DEF Renew
    <3> HIDE DEF v
    <3>4. QED BY <3>1, <3>2, <3>3
  <2>4. TypeOK'
    BY <1>0, <1>8, <2>1, <2>3 DEF Renew, TypeOK, GoesOn, Others, history, payments, gateway, charges
  <2>5. QED BY <1>8, <1>f, <2>1, <2>4 DEF Renew, payments
<1>9. ASSUME SyncTenant(q) PROVE TypeInv'
  <2>1. Stops(q) /\ Shape(req[q])'
    BY <1>9, AnswerForm DEF SyncTenant
  <2>2. TypeOK'
    BY <1>0, <1>9, <2>1 DEF SyncTenant, TypeOK, Stops, Others, history, payments, gateway, charges, Shape
  <2>3. QED BY <1>9, <1>f, <2>1, <2>2 DEF SyncTenant, payments, Stops
<1>10. ASSUME SaveEnded(q) PROVE TypeInv'
  <2> DEFINE reason == IF mandate[s] = "cancelled" THEN "cancelled" ELSE "expired"
  <2>1. reason \in Statuses /\ reason \in Cached
    BY DEF Statuses, Cached
  <2>2. req[q].pc = "ended" /\ s \in Subs /\ sub' = [sub EXCEPT ![s].status = Saved(q, reason)]
        /\ Sync(q, reason) /\ UNCHANGED <<payments, tenant, gateway, history>>
    BY <1>0, <1>10 DEF SaveEnded
  <2> HIDE DEF reason
  <2>3. GoesOn(q) /\ req'[q].pc = "tenant" /\ Shape(req[q])'
    BY <2>1, <2>2, SyncForm
  <2>4. sub' \in [Subs -> Subscription]
    BY <1>0, <2>1, <2>2, SavedIsTyped DEF TypeOK, Subscription
  <2>5. TypeOK'
    BY <1>0, <2>2, <2>3, <2>4 DEF TypeOK, GoesOn, Others, history, payments, gateway, charges
  <2>6. QED BY <1>f, <2>2, <2>3, <2>5 DEF payments
<1>11. ASSUME LoadRefused(q) PROVE TypeInv'
  <2>1. GoesOn(q) /\ req'[q].pc = "overdue" /\ Shape(req[q])'
    BY <1>11, LoadRefusedForm
  <2>2. TypeOK'
    BY <1>0, <1>11, <2>1 DEF LoadRefused, TypeOK, GoesOn, Others, history, payments, gateway, charges
  <2>3. QED BY <1>11, <1>f, <2>1, <2>2 DEF LoadRefused, payments
<1>12. ASSUME SaveOverdue(q) PROVE TypeInv'
  <2>1. GoesOn(q) /\ req'[q].pc = "tenant" /\ Shape(req[q])'
    BY <1>12, SyncForm DEF SaveOverdue, Cached
  <2>2. Saved(q, "past_due") \in Statuses \cup {"absent"}
    BY <1>0, <1>12, SavedIsTyped DEF Statuses, SaveOverdue
  <2>3. sub' \in [Subs -> Subscription]
    BY <1>0, <1>12, <2>2 DEF SaveOverdue, TypeOK, Subscription
  <2>4. TypeOK'
    BY <1>0, <1>12, <2>1, <2>3 DEF SaveOverdue, TypeOK, GoesOn, Others, history, payments, gateway, charges
  <2>5. QED BY <1>12, <1>f, <2>1, <2>4 DEF SaveOverdue, payments
<1>13. QED BY <1>1, <1>2, <1>3, <1>4, <1>5, <1>6, <1>7, <1>8, <1>9, <1>10, <1>11, <1>12 DEF Advance

LEMMA NextTypeInv == TypeInv /\ [Next]_vars => TypeInv'
<1> SUFFICES ASSUME TypeInv, [Next]_vars PROVE TypeInv'
  OBVIOUS
<1>0. TypeOK
  BY DEF TypeInv
<1>f. ASSUME NEW q \in Requests, NEW s \in Subs, Begins(q, s), Shape(req[q])',
             req'[q].pc = "receipt" => ReceiptsOf(<<s, req'[q].cycle>>) = {},
             UNCHANGED <<sub, receipt, tenant, gateway>>, failed' \subseteq receipt
      PROVE  TypeInv'
  <2>1. TypeOK'
    BY <1>0, <1>f DEF TypeOK, Begins, Others, gateway, charges
  <2>2. QED BY <1>f, <2>1, FlightAfterBegin, ShapesKept DEF TypeInv, Begins
<1>1. ASSUME NEW q \in Requests, FindActive(q) PROVE TypeInv'
  BY <1>0, <1>1, <1>f, FindActiveForm DEF FindActive, payments, TypeOK
<1>2. ASSUME NEW q \in Requests, LoadToCancel(q) PROVE TypeInv'
  BY <1>0, <1>2, <1>f, LoadToCancelForm DEF LoadToCancel, payments, TypeOK
<1>3. ASSUME NEW q \in Requests, NEW s \in Subs, FindCharged(q, s) PROVE TypeInv'
  BY <1>0, <1>3, <1>f, FindChargedForm DEF FindCharged, payments, TypeOK
<1>4. ASSUME NEW q \in Requests, NEW s \in Subs, FindEnded(q, s) PROVE TypeInv'
  BY <1>0, <1>4, <1>f, FindEndedForm DEF FindEnded, payments, TypeOK
<1>5. ASSUME NEW q \in Requests, NEW s \in Subs, FindRefused(q, s) PROVE TypeInv'
  <2>1. failed' \subseteq receipt /\ Begins(q, s) /\ req'[q].pc = "load" /\ Shape(req[q])'
    BY <1>0, <1>5, FindRefusedForm DEF TypeOK
  <2>2. QED BY <1>5, <1>f, <2>1 DEF FindRefused
<1>6. ASSUME NEW q \in Requests, Abort(q) PROVE TypeInv'
  <2>1. Stops(q) /\ Shape(req[q])'
    BY <1>6, AnswerForm DEF Abort
  <2>2. TypeOK'
    BY <1>0, <1>6, <2>1 DEF Abort, TypeOK, Stops, Others, payments, gateway, charges
  <2>3. QED BY <1>6, <2>1, <2>2, FlightAfterAdvance, ShapesKept DEF Abort, payments, TypeInv, Stops
<1>7. ASSUME NEW s \in Subs, ChargeMandate(s) PROVE TypeInv'
  <2>1. cycles[s] + 1 \in 1..MaxCycles /\ cycles[s] + 1 \in 0..MaxCycles
    BY <1>0, <1>7, SubscriptionConstants DEF TypeOK, ChargeMandate
  <2>2. <<s, cycles[s] + 1>> \in Charge
    BY <2>1 DEF Charge
  <2>3. refused' \subseteq Charge /\ cycles' \in [Subs -> 0..MaxCycles] /\ mandate' \in [Subs -> Mandate]
    BY <1>0, <1>7, <2>1, <2>2 DEF ChargeMandate, TypeOK, Mandate
  <2>4. TypeOK' /\ \A p \in Requests : Shape(req[p])'
    BY <1>0, <1>7, <2>3 DEF ChargeMandate, TypeOK, TypeInv, history, payments, Shape
  <2>5. QED BY <1>7, <2>4, FlightUntouched DEF ChargeMandate, payments, TypeInv
<1>8. ASSUME NEW s \in Subs, EndMandate(s) PROVE TypeInv'
  <2>1. mandate' \in [Subs -> Mandate]
    BY <1>0, <1>8 DEF EndMandate, TypeOK, Mandate
  <2>2. TypeOK' /\ \A p \in Requests : Shape(req[p])'
    BY <1>0, <1>8, <2>1 DEF EndMandate, TypeOK, TypeInv, history, payments, charges, Shape
  <2>3. QED BY <1>8, <2>2, FlightUntouched DEF EndMandate, payments, TypeInv
<1>9. ASSUME UNCHANGED vars PROVE TypeInv'
  <2>1. TypeOK' /\ \A p \in Requests : Shape(req[p])'
    BY <1>0, <1>9 DEF vars, TypeOK, TypeInv, history, payments, gateway, charges, Shape
  <2>2. QED BY <1>9, <2>1, FlightUntouched DEF vars, payments, TypeInv
<1>10. QED BY <1>1, <1>2, <1>3, <1>4, <1>5, <1>6, <1>7, <1>8, <1>9, AdvanceTypeInv DEF Next

(* A charge is recorded no more often than there are handlers at once, the *)
(* fields keep their types, and a handler has what its next step needs.    *)
THEOREM TypeCorrect == Spec => []TypeOK
<1>1. TypeInv => TypeOK
  BY DEF TypeInv
<1>2. QED BY <1>1, InitTypeInv, NextTypeInv, PTL DEF Spec

-----------------------------------------------------------------------------
(* What the later steps of a handler write *)

(* The step writes the status of s and no other field that counts. *)
Writes(s, status) ==
  /\ \A t \in Subs \ {s} : sub'[t] = sub[t]
  /\ sub'[s].status = status
  /\ sub'[s].plan = sub[s].plan /\ sub'[s].end = sub[s].end /\ sub'[s].receipts = sub[s].receipts

LEMMA StatusWritten ==
  ASSUME TypeInv, NEW s \in Subs, NEW status, sub' = [sub EXCEPT ![s].status = status]
  PROVE  Writes(s, status)
  BY DEF TypeInv, TypeOK, Subscription, Writes

LEMMA RegisterMandateForm ==
  ASSUME TypeInv, NEW q \in Requests, RegisterMandate(q)
  PROVE  /\ req[q].pc = "mandate" /\ GoesOn(q)
         /\ req'[q].pc = "insert" /\ req'[q].plan = req[q].plan /\ req'[q].was = req[q].was
         /\ mandate'[req[q].sub] = "created"
         /\ \A t \in Subs \ {req[q].sub} : mandate'[t] = mandate[t]
         /\ UNCHANGED <<sub, receipt, failed, tenant, cycles, overtaken, lapsed, crossed>>
<1>1. req[q].pc = "mandate" /\ req[q].sub \in Subs
  BY HandlerIsTyped DEF RegisterMandate
<1>2. GoesOn(q) /\ req'[q].pc = "insert" /\ req'[q].plan = req[q].plan /\ req'[q].was = req[q].was
  BY <1>1, GotoForm DEF RegisterMandate, PCs
<1>3. QED BY <1>1, <1>2 DEF RegisterMandate, TypeInv, TypeOK, payments, charges, history

LEMMA InsertSubscriptionForm ==
  ASSUME TypeInv, NEW q \in Requests, InsertSubscription(q)
  PROVE  /\ req[q].pc = "insert" /\ GoesOn(q)
         /\ req'[q].pc = "cache" /\ req'[q].plan = req[q].plan
         /\ \A t \in Subs \ {req[q].sub} : sub'[t] = sub[t]
         /\ sub'[req[q].sub].status = "trialing" /\ sub'[req[q].sub].plan = req[q].plan
         /\ sub'[req[q].sub].end = 0 /\ sub'[req[q].sub].receipts = {}
         /\ UNCHANGED <<receipt, failed, tenant, mandate, cycles, overtaken, lapsed, crossed>>
<1>1. req[q].pc = "insert" /\ req[q].sub \in Subs
  BY HandlerIsTyped DEF InsertSubscription
<1>2. GoesOn(q) /\ req'[q].pc = "cache" /\ req'[q].plan = req[q].plan
  BY <1>1, GotoForm DEF InsertSubscription, PCs
<1> DEFINE v == [NoSub EXCEPT !.status = "trialing", !.plan = req[q].plan]
<1>3. v.status = "trialing" /\ v.plan = req[q].plan /\ v.end = 0 /\ v.receipts = {}
  BY DEF NoSub
<1>4. sub' = [sub EXCEPT ![req[q].sub] = v] /\ sub \in [Subs -> Subscription]
  BY DEF InsertSubscription, TypeInv, TypeOK
<1>5. UNCHANGED <<receipt, failed, tenant, mandate, cycles, overtaken, lapsed, crossed>>
  BY DEF InsertSubscription, payments, gateway, charges, history
<1> HIDE DEF v
<1>6. QED BY <1>1, <1>2, <1>3, <1>4, <1>5

LEMMA CacheNewForm ==
  ASSUME TypeInv, NEW q \in Requests, CacheNew(q)
  PROVE  /\ req[q].pc = "cache" /\ Stops(q)
         /\ tenant'.status = IF req[q].plan \in Trial THEN "trial" ELSE "active"
         /\ UNCHANGED <<sub, receipt, failed, mandate, cycles, overtaken, lapsed, crossed>>
<1>1. req[q].pc = "cache" /\ Stops(q)
  BY AnswerForm DEF CacheNew
<1>2. tenant'.status = IF req[q].plan \in Trial THEN "trial" ELSE "active"
  BY DEF CacheNew, TypeInv, TypeOK
<1>3. QED BY <1>1, <1>2 DEF CacheNew, payments, gateway, charges, history

LEMMA CancelMandateForm ==
  ASSUME TypeInv, NEW q \in Requests, CancelMandate(q)
  PROVE  /\ req[q].pc = "gateway"
         /\ \/ /\ GoesOn(q)
               /\ req'[q].pc = "cancel" /\ req'[q].was = req[q].was
               /\ mandate[req[q].sub] # "none" /\ mandate'[req[q].sub] \in {"cancelled", "ending"}
               /\ \A t \in Subs \ {req[q].sub} : mandate'[t] = mandate[t]
            \/ Stops(q) /\ mandate' = mandate
         /\ UNCHANGED <<sub, receipt, failed, tenant, cycles, overtaken, lapsed, crossed>>
<1>1. req[q].pc = "gateway" /\ req[q].sub \in Subs
  BY HandlerIsTyped DEF CancelMandate
<1>2. UNCHANGED <<sub, receipt, failed, tenant, cycles, overtaken, lapsed, crossed>>
  BY DEF CancelMandate, payments, charges, history
<1>3. CASE Answer(q) /\ UNCHANGED mandate
  BY <1>1, <1>2, <1>3, AnswerForm
<1>4. CASE /\ mandate[req[q].sub] \in {"created", "active", "ending"}
           /\ mandate' = [mandate EXCEPT ![req[q].sub] = IF req[q].immediate THEN "cancelled" ELSE "ending"]
           /\ Goto(q, "cancel")
  <2>1. GoesOn(q) /\ req'[q].pc = "cancel" /\ req'[q].was = req[q].was
    BY <1>1, <1>2, <1>4, GotoForm DEF PCs, history
  <2>2. mandate'[req[q].sub] \in {"cancelled", "ending"}
        /\ \A t \in Subs \ {req[q].sub} : mandate'[t] = mandate[t]
    BY <1>1, <1>4 DEF TypeInv, TypeOK
  <2>3. QED BY <1>1, <1>2, <1>4, <2>1, <2>2
<1>5. QED BY <1>3, <1>4 DEF CancelMandate

LEMMA SaveCancelForm ==
  ASSUME TypeInv, NEW q \in Requests, SaveCancel(q)
  PROVE  /\ req[q].pc = "cancel"
         /\ \/ GoesOn(q) /\ req'[q].pc = "clear" /\ Writes(req[q].sub, Saved(q, "cancelled"))
            \/ Stops(q) /\ Writes(req[q].sub, sub[req[q].sub].status)
         /\ UNCHANGED <<receipt, failed, tenant, mandate, cycles, overtaken, lapsed, crossed>>
<1>1. req[q].pc = "cancel" /\ req[q].sub \in Subs
  BY HandlerIsTyped DEF SaveCancel
<1>2. UNCHANGED <<receipt, failed, tenant, mandate, cycles, overtaken, lapsed, crossed>>
  BY DEF SaveCancel, payments, gateway, charges, history
<1>3. CASE req[q].immediate
  <2>1. GoesOn(q) /\ req'[q].pc = "clear"
    BY <1>1, <1>3, GotoForm DEF SaveCancel, PCs
  <2>2. Writes(req[q].sub, Saved(q, "cancelled"))
    BY <1>1, <1>3, StatusWritten DEF SaveCancel
  <2>3. QED BY <1>1, <1>2, <2>1, <2>2
<1>4. CASE ~req[q].immediate
  <2>1. Stops(q) /\ sub' = [sub EXCEPT ![req[q].sub].atEnd = TRUE]
    BY <1>1, <1>4, AnswerForm DEF SaveCancel
  <2>2. Writes(req[q].sub, sub[req[q].sub].status)
    BY <1>1, <2>1 DEF TypeInv, TypeOK, Subscription, Writes
  <2>3. QED BY <1>1, <1>2, <2>1, <2>2
<1>5. QED BY <1>3, <1>4

LEMMA ClearCacheForm ==
  ASSUME TypeInv, NEW q \in Requests, ClearCache(q)
  PROVE  /\ req[q].pc = "clear" /\ Stops(q) /\ tenant'.status = "cancelled"
         /\ UNCHANGED <<sub, receipt, failed, mandate, cycles, overtaken, lapsed, crossed>>
<1>1. req[q].pc = "clear" /\ Stops(q)
  BY AnswerForm DEF ClearCache
<1>2. tenant'.status = "cancelled"
  BY DEF ClearCache, TypeInv, TypeOK
<1>3. QED BY <1>1, <1>2 DEF ClearCache, payments, gateway, charges, history

LEMMA RenewForm ==
  ASSUME TypeInv, NEW q \in Requests, Renew(q)
  PROVE  LET s == req[q].sub
         IN  /\ req[q].pc = "renew" /\ GoesOn(q)
             /\ req'[q].pc = "tenant" /\ req'[q].to = "active"
             /\ \A t \in Subs \ {s} : sub'[t] = sub[t]
             /\ sub'[s].status = Saved(q, "active") /\ sub'[s].plan = sub[s].plan
             /\ sub'[s].end = req[q].cycle /\ sub'[s].receipts = sub[s].receipts \cup {req[q].receipt}
             /\ UNCHANGED <<receipt, failed, tenant, mandate, cycles, overtaken, lapsed, crossed>>
<1> DEFINE s == req[q].sub
<1>1. req[q].pc = "renew" /\ s \in Subs
  BY HandlerIsTyped DEF Renew
<1>2. GoesOn(q) /\ req'[q].pc = "tenant" /\ req'[q].to = "active"
  BY <1>1, SyncForm DEF Renew, Cached
<1>3. /\ \A t \in Subs \ {s} : sub'[t] = sub[t]
      /\ sub'[s].status = Saved(q, "active") /\ sub'[s].plan = sub[s].plan
      /\ sub'[s].end = req[q].cycle /\ sub'[s].receipts = sub[s].receipts \cup {req[q].receipt}
  BY <1>1 DEF Renew, TypeInv, TypeOK, Subscription
<1>4. QED BY <1>1, <1>2, <1>3 DEF Renew, payments, gateway, charges, history

LEMMA SyncTenantForm ==
  ASSUME TypeInv, NEW q \in Requests, SyncTenant(q)
  PROVE  /\ req[q].pc = "tenant" /\ Stops(q) /\ tenant'.status = req[q].to
         /\ UNCHANGED <<sub, receipt, failed, mandate, cycles, overtaken, lapsed, crossed>>
<1>1. req[q].pc = "tenant" /\ Stops(q)
  BY AnswerForm DEF SyncTenant
<1>2. tenant'.status = req[q].to
  BY DEF SyncTenant, TypeInv, TypeOK
<1>3. QED BY <1>1, <1>2 DEF SyncTenant, payments, gateway, charges, history

(* The status a subscription gets and the copy of it, when its mandate     *)
(* has ended.                                                              *)
EndedAs(s) == IF mandate[s] = "cancelled" THEN "cancelled" ELSE "expired"

LEMMA SaveEndedForm ==
  ASSUME TypeInv, NEW q \in Requests, SaveEnded(q)
  PROVE  /\ req[q].pc = "ended" /\ GoesOn(q)
         /\ req'[q].pc = "tenant" /\ req'[q].to = EndedAs(req[q].sub)
         /\ Writes(req[q].sub, Saved(q, EndedAs(req[q].sub)))
         /\ UNCHANGED <<receipt, failed, tenant, mandate, cycles, overtaken, lapsed, crossed>>
<1>1. req[q].pc = "ended" /\ req[q].sub \in Subs
  BY HandlerIsTyped DEF SaveEnded
<1>2. EndedAs(req[q].sub) \in Cached
  BY DEF EndedAs, Cached
<1>3. /\ sub' = [sub EXCEPT ![req[q].sub].status = Saved(q, EndedAs(req[q].sub))]
      /\ Sync(q, EndedAs(req[q].sub)) /\ UNCHANGED <<payments, tenant, gateway, history>>
  BY DEF SaveEnded, EndedAs
<1>4. GoesOn(q) /\ req'[q].pc = "tenant" /\ req'[q].to = EndedAs(req[q].sub)
  BY <1>1, <1>2, <1>3, SyncForm
<1>5. QED BY <1>1, <1>3, <1>4, StatusWritten DEF payments, gateway, charges, history

LEMMA SaveOverdueForm ==
  ASSUME TypeInv, NEW q \in Requests, SaveOverdue(q)
  PROVE  /\ req[q].pc = "overdue" /\ GoesOn(q)
         /\ req'[q].pc = "tenant" /\ req'[q].to = "suspended"
         /\ Writes(req[q].sub, Saved(q, "past_due"))
         /\ UNCHANGED <<receipt, failed, tenant, mandate, cycles, overtaken, lapsed, crossed>>
<1>1. req[q].pc = "overdue" /\ req[q].sub \in Subs
  BY HandlerIsTyped DEF SaveOverdue
<1>2. GoesOn(q) /\ req'[q].pc = "tenant" /\ req'[q].to = "suspended"
  BY <1>1, SyncForm DEF SaveOverdue, Cached
<1>3. QED BY <1>1, <1>2, StatusWritten DEF SaveOverdue, payments, gateway, charges, history

(* A status that is saved is never "absent". *)
LEMMA SavedExists ==
  ASSUME NEW q \in Requests, NEW status \in Statuses, Exists(req[q].sub)
  PROVE  Saved(q, status) # "absent"
  BY DEF Saved, Exists, Statuses, Live

-----------------------------------------------------------------------------
(* LifeInv *)

LEMMA InitLife == Init => LifeInv
  BY DEF Init, LifeInv, Exists, NoSub, Idle

(* A step that creates no subscription and no Payment. *)
LEMMA LifeFrame ==
  ASSUME TypeInv, LifeInv, NEW q \in Requests,
         \/ GoesOn(q) /\ (req'[q].pc \in {"mandate", "insert"} <=> req[q].pc \in {"mandate", "insert"})
         \/ Stops(q),
         receipt' = receipt,
         \A s \in Subs : /\ Exists(s)' <=> Exists(s)
                         /\ ~Exists(s) => sub'[s].end = sub[s].end
  PROVE  LifeInv'
<1>1. \A s \in Subs : ~Exists(s)' => sub'[s].end = 0 /\ \A r \in receipt' : r[1][1] # s
  BY DEF LifeInv
<1>2. ASSUME NEW p \in Requests, req'[p].pc # "idle"
      PROVE  /\ req[p].pc # "idle" /\ req[p].sub \in Subs /\ req'[p].sub = req[p].sub
             /\ req'[p].pc \in {"mandate", "insert"} <=> req[p].pc \in {"mandate", "insert"}
  BY <1>2, HandlerIsTyped DEF GoesOn, Stops, Others
<1>3. ASSUME NEW p \in Requests, req'[p].pc # "idle"
      PROVE  Exists(req[p].sub)' <=> req'[p].pc \notin {"mandate", "insert"}
  <2>1. Exists(req[p].sub) <=> req[p].pc \notin {"mandate", "insert"}
    BY <1>2, <1>3 DEF LifeInv
  <2>2. Exists(req[p].sub)' <=> sub'[req[p].sub].status # "absent"
    BY <1>2, <1>3 DEF Exists
  <2>3. Exists(req[p].sub) <=> sub'[req[p].sub].status # "absent"
    BY <1>2, <1>3 DEF Exists
  <2>4. QED BY <1>2, <1>3, <2>1, <2>2, <2>3
<1>4. QED BY <1>1, <1>2, <1>3 DEF LifeInv

LEMMA WritesLife ==
  ASSUME TypeInv, LifeInv, NEW q \in Requests, req[q].pc \notin {"mandate", "insert", "idle"},
         NEW status, status # "absent", Writes(req[q].sub, status)
  PROVE  \A s \in Subs : (Exists(s)' <=> Exists(s)) /\ sub'[s].end = sub[s].end
  BY HandlerIsTyped DEF LifeInv, Writes, Exists

LEMMA AdvanceLife ==
  ASSUME TypeInv, LifeInv, NEW q \in Requests, Advance(q)
  PROVE  LifeInv'
<1> DEFINE s == req[q].sub
<1>0. req[q].pc # "idle" => s \in Subs
  BY HandlerIsTyped
<1>e. req[q].pc \notin {"idle", "mandate", "insert"} => Exists(s)
  BY DEF LifeInv
<1>1. ASSUME RegisterMandate(q) PROVE LifeInv'
  BY <1>1, RegisterMandateForm, LifeFrame DEF Exists
<1>2. ASSUME InsertSubscription(q) PROVE LifeInv'
  <2>1. /\ req[q].pc = "insert" /\ Others(q) /\ s \in Subs /\ req'[q].pc = "cache" /\ req'[q].sub = s
        /\ \A t \in Subs \ {s} : sub'[t] = sub[t]
        /\ sub'[s].status = "trialing" /\ sub'[s].end = 0 /\ receipt' = receipt
    BY <1>2, InsertSubscriptionForm DEF GoesOn
  <2>2. \A p \in Requests \ {q} : req[p].pc # "idle" => req[p].sub # s
    BY <2>1 DEF LifeInv
  <2>3. \A t \in Subs : ~Exists(t)' => ~Exists(t) /\ sub'[t] = sub[t] /\ t # s
    BY <2>1 DEF Exists
  <2>4. \A t \in Subs \ {s} : Exists(t)' <=> Exists(t)
    BY <2>1 DEF Exists
  <2>5. \A t \in Subs : ~Exists(t)' => sub'[t].end = 0 /\ \A r \in receipt' : r[1][1] # t
    BY <2>1, <2>3 DEF LifeInv
  <2>6. ASSUME NEW p \in Requests, req'[p].pc # "idle"
        PROVE  Exists(req[p].sub)' <=> req'[p].pc \notin {"mandate", "insert"}
    <3>1. CASE p = q
      BY <2>1, <3>1 DEF Exists
    <3>2. CASE p # q
      <4>1. req'[p] = req[p] /\ req[p].sub \in Subs \ {s} /\ req[p].pc # "idle"
        BY <2>1, <2>2, <2>6, <3>2, HandlerIsTyped DEF Others
      <4>2. Exists(req[p].sub) <=> req[p].pc \notin {"mandate", "insert"}
        BY <4>1 DEF LifeInv
      <4>3. QED BY <2>1, <4>1, <4>2 DEF Exists
    <3>3. QED BY <3>1, <3>2
  <2>7. \A p, r \in Requests :
          req'[r].pc \in {"mandate", "insert"} /\ req'[p].pc # "idle" /\ req'[p].sub = req'[r].sub => p = r
    BY <2>1, <2>2 DEF LifeInv, Others
  <2>8. QED BY <2>5, <2>6, <2>7 DEF LifeInv
<1>3. ASSUME CacheNew(q) PROVE LifeInv'
  BY <1>3, CacheNewForm, LifeFrame DEF Exists
<1>4. ASSUME CancelMandate(q) PROVE LifeInv'
  BY <1>4, CancelMandateForm, LifeFrame DEF Exists
<1>5. ASSUME SaveCancel(q) PROVE LifeInv'
  <2>1. Saved(q, "cancelled") # "absent" /\ sub[s].status # "absent"
    BY <1>5, <1>e, SaveCancelForm, SavedExists DEF Statuses, Exists
  <2>2. \A t \in Subs : (Exists(t)' <=> Exists(t)) /\ sub'[t].end = sub[t].end
    BY <1>5, <2>1, SaveCancelForm, WritesLife
  <2>3. QED BY <1>5, <2>2, SaveCancelForm, LifeFrame
<1>6. ASSUME ClearCache(q) PROVE LifeInv'
  BY <1>6, ClearCacheForm, LifeFrame DEF Exists
<1>7. ASSUME InsertReceipt(q) PROVE LifeInv'
  <2> DEFINE c == <<s, req[q].cycle>>
             r == <<c, Cardinality(ReceiptsOf(c)) + 1>>
  <2>1. /\ req[q].pc = "receipt" /\ GoesOn(q) /\ req'[q].pc = "renew"
        /\ receipt' = receipt \cup {r} /\ r[1][1] = s /\ sub' = sub
    BY <1>7, InsertReceiptForm DEF InsertReceipt
  <2> HIDE DEF r
  <2>2. Exists(s)
    BY <1>e, <2>1
  <2>3. QED BY <2>1, <2>2 DEF LifeInv, Exists, GoesOn, Others
<1>8. ASSUME Renew(q) PROVE LifeInv'
  <2>1. /\ req[q].pc = "renew" /\ GoesOn(q) /\ req'[q].pc = "tenant"
        /\ \A t \in Subs \ {s} : sub'[t] = sub[t]
        /\ sub'[s].status = Saved(q, "active") /\ receipt' = receipt
    BY <1>8, RenewForm
  <2>2. Exists(s) /\ Saved(q, "active") # "absent"
    BY <1>e, <2>1, SavedExists DEF Statuses, Live
  <2>3. \A t \in Subs : /\ Exists(t)' <=> Exists(t)
                        /\ ~Exists(t) => sub'[t].end = sub[t].end
    BY <2>1, <2>2 DEF Exists
  <2>4. QED BY <2>1, <2>3, LifeFrame
<1>9. ASSUME SyncTenant(q) PROVE LifeInv'
  BY <1>9, SyncTenantForm, LifeFrame DEF Exists
<1>10. ASSUME SaveEnded(q) PROVE LifeInv'
  <2>1. Saved(q, EndedAs(s)) # "absent"
    BY <1>10, <1>e, SaveEndedForm, SavedExists DEF Statuses, EndedAs
  <2>2. QED BY <1>10, <2>1, SaveEndedForm, WritesLife, LifeFrame
<1>11. ASSUME LoadRefused(q) PROVE LifeInv'
  BY <1>11, LoadRefusedForm, LifeFrame DEF LoadRefused, payments, Exists
<1>12. ASSUME SaveOverdue(q) PROVE LifeInv'
  <2>1. Saved(q, "past_due") # "absent"
    BY <1>12, <1>e, SaveOverdueForm, SavedExists DEF Statuses
  <2>2. QED BY <1>12, <2>1, SaveOverdueForm, WritesLife, LifeFrame
<1>13. QED BY <1>1, <1>2, <1>3, <1>4, <1>5, <1>6, <1>7, <1>8, <1>9, <1>10, <1>11, <1>12 DEF Advance

LEMMA NextLife == TypeInv /\ LifeInv /\ [Next]_vars => LifeInv'
<1> SUFFICES ASSUME TypeInv, LifeInv, [Next]_vars PROVE LifeInv'
  OBVIOUS
<1>f. ASSUME NEW q \in Requests, NEW s \in Subs, Begins(q, s), Exists(s), UNCHANGED <<sub, receipt>>,
             req'[q].pc \notin {"mandate", "insert"}
      PROVE  LifeInv'
  BY <1>f DEF LifeInv, Begins, Others, Exists
<1>1. ASSUME NEW q \in Requests, FindActive(q) PROVE LifeInv'
  <2>1. PICK s \in Subs : /\ ~Exists(s) /\ WorkOn(s) = {} /\ Begins(q, s)
                         /\ req'[q].pc \in {"mandate", "insert"}
    BY <1>1, FindActiveForm
  <2>2. \A p \in Requests \ {q} : req[p].pc # "idle" => req[p].sub # s
    BY <2>1 DEF WorkOn, InFlight
  <2>3. UNCHANGED <<sub, receipt>>
    BY <1>1 DEF FindActive, payments
  <2>4. QED BY <2>1, <2>2, <2>3 DEF LifeInv, Begins, Others, Exists
<1>2. ASSUME NEW q \in Requests, LoadToCancel(q) PROVE LifeInv'
  <2>1. PICK s \in Subs : Exists(s) /\ Begins(q, s) /\ req'[q].pc \in {"gateway", "cancel"}
    BY <1>2, LoadToCancelForm
  <2>2. QED BY <1>2, <1>f, <2>1 DEF LoadToCancel, payments
<1>3. ASSUME NEW q \in Requests, NEW s \in Subs, FindCharged(q, s) PROVE LifeInv'
  BY <1>3, <1>f, FindChargedForm DEF FindCharged, payments
<1>4. ASSUME NEW q \in Requests, NEW s \in Subs, FindEnded(q, s) PROVE LifeInv'
  BY <1>4, <1>f, FindEndedForm DEF FindEnded, payments
<1>5. ASSUME NEW q \in Requests, NEW s \in Subs, FindRefused(q, s) PROVE LifeInv'
  <2>1. Begins(q, s) /\ req'[q].pc = "load" /\ \E r \in receipt : r[1][1] = s
    BY <1>5, FindRefusedForm
  <2>2. Exists(s)
    BY <2>1 DEF LifeInv
  <2>3. QED BY <1>5, <1>f, <2>1, <2>2 DEF FindRefused
<1>6. ASSUME NEW q \in Requests, Abort(q) PROVE LifeInv'
  BY <1>6, AnswerForm, LifeFrame DEF Abort, payments, Exists
<1>7. ASSUME NEW s \in Subs, ChargeMandate(s) PROVE LifeInv'
  BY <1>7 DEF ChargeMandate, payments, LifeInv, Exists
<1>8. ASSUME NEW s \in Subs, EndMandate(s) PROVE LifeInv'
  BY <1>8 DEF EndMandate, payments, LifeInv, Exists
<1>9. ASSUME UNCHANGED vars PROVE LifeInv'
  BY <1>9 DEF vars, payments, LifeInv, Exists
<1>10. QED BY <1>1, <1>2, <1>3, <1>4, <1>5, <1>6, <1>7, <1>8, <1>9, AdvanceLife DEF Next

-----------------------------------------------------------------------------
(* CrossInv *)

LEMMA InitCross == Init => CrossInv
<1> SUFFICES ASSUME Init PROVE CrossInv
  OBVIOUS
<1>1. \A s \in Subs : WorkOn(s) = {}
  BY DEF Init, WorkOn, InFlight, Idle
<1>2. \A c \in Charge : Cardinality(ReceiptsOf(c)) = 0
  BY FS_EmptySet DEF Init, ReceiptsOf
<1>3. QED BY <1>1, <1>2 DEF CrossInv

LEMMA CrossAfterBegin ==
  ASSUME CrossInv, NEW q \in Requests, NEW s \in Subs, Begins(q, s), receipt' = receipt,
         req'[q].pc = "receipt" => ReceiptsOf(<<s, req'[q].cycle>>) = {}
  PROVE  CrossInv'
<1>1. \A c : ReceiptsOf(c)' = ReceiptsOf(c)
  BY DEF ReceiptsOf
<1>2. ASSUME NEW t \in Subs, t \notin crossed'
      PROVE  /\ t \notin crossed /\ (t = s => WorkOn(s) = {})
             /\ WorkOn(t)' = IF t = s THEN {q} ELSE WorkOn(t)
             /\ \A p \in Requests \ {q} : req'[p] = req[p]
             /\ req[q].pc = "idle" /\ q \notin WorkOn(t)
  BY <1>2, WorkAfterBegin DEF Begins, Others, WorkOn, InFlight
<1>3. ASSUME NEW t \in Subs, t \notin crossed'
      PROVE  /\ \A p, r \in WorkOn(t)' : p = r
             /\ \A p \in WorkOn(t)' : req'[p].pc = "receipt" => ReceiptsOf(<<t, req'[p].cycle>>) = {}
  <2>1. CASE t = s
    BY <1>2, <1>3, <2>1
  <2>2. CASE t # s
    <3>1. WorkOn(t) \subseteq Requests \ {q}
      BY <1>2, <1>3 DEF WorkOn, InFlight
    <3>2. QED BY <1>2, <1>3, <2>2, <3>1 DEF CrossInv
  <2>3. QED BY <2>1, <2>2
<1>4. QED BY <1>1, <1>2, <1>3 DEF CrossInv

LEMMA CrossAfterAdvance ==
  ASSUME CrossInv, NEW q \in Requests, GoesOn(q) \/ Stops(q), req'[q].pc # "receipt",
         receipt' = receipt, crossed' = crossed
  PROVE  CrossInv'
<1>1. \A c : ReceiptsOf(c)' = ReceiptsOf(c)
  BY DEF ReceiptsOf
<1>2. \A s \in Subs : WorkOn(s)' \subseteq WorkOn(s) /\ WorkOn(s) \subseteq Requests
  BY WorkAfterGoingOn, WorkAfterStop DEF WorkOn, InFlight
<1>3. \A p \in Requests : req'[p].pc = "receipt" => req'[p] = req[p]
  BY DEF GoesOn, Stops, Others
<1>4. QED BY <1>1, <1>2, <1>3 DEF CrossInv

LEMMA CrossUntouched ==
  ASSUME CrossInv, req' = req, receipt' = receipt, crossed' = crossed
  PROVE  CrossInv'
<1>1. \A c : ReceiptsOf(c)' = ReceiptsOf(c)
  BY DEF ReceiptsOf
<1>2. QED BY <1>1, WorkUntouched DEF CrossInv

LEMMA CrossAfterInsert ==
  ASSUME TypeInv, CrossInv, NEW q \in Requests, InsertReceipt(q)
  PROVE  CrossInv'
<1>1. PICK s \in Subs, c \in Charge, r \in Receipt :
        /\ s = req[q].sub /\ c = <<s, req[q].cycle>>
        /\ receipt' = receipt \cup {r} /\ r[1] = c
        /\ req[q].pc = "receipt" /\ GoesOn(q) /\ req'[q].pc = "renew"
  BY InsertReceiptForm, HandlerIsTyped
<1>2. Others(q) /\ crossed' = crossed /\ (\A t \in Subs : WorkOn(t)' = WorkOn(t)) /\ q \in WorkOn(s)
  BY <1>1, WorkAfterGoingOn DEF GoesOn
<1>3. /\ ReceiptsOf(c)' = ReceiptsOf(c) \cup {r}
      /\ \A d \in Charge \ {c} : ReceiptsOf(d)' = ReceiptsOf(d)
  <2>1. ReceiptsOf(c)' = ReceiptsOf(c) \cup {r}
    BY <1>1 DEF ReceiptsOf
  <2>2. ASSUME NEW d \in Charge \ {c} PROVE ReceiptsOf(d)' = ReceiptsOf(d)
    BY <1>1 DEF ReceiptsOf
  <2>3. QED BY <2>1, <2>2
<1>4. ASSUME NEW t \in Subs \ crossed
      PROVE  /\ \A p, x \in WorkOn(t) : p = x
             /\ \A p \in WorkOn(t) : req'[p].pc = "receipt" => ReceiptsOf(<<t, req[p].cycle>>)' = {}
             /\ \A d \in Charge : d[1] = t => Cardinality(ReceiptsOf(d)') <= 1
  <2>1. CASE t = s
    <3>1. \A p \in WorkOn(t) : p = q
      BY <1>2, <1>4, <2>1 DEF CrossInv
    <3>2. ReceiptsOf(c) = {}
      BY <1>1, <1>2, <1>4, <2>1 DEF CrossInv
    <3>3. Cardinality(ReceiptsOf(c)') <= 1
      <4>1. ReceiptsOf(c)' = {r}
        BY <1>3, <3>2
      <4>2. Cardinality({r}) = 1
        BY FS_Singleton
      <4>3. QED BY <4>1, <4>2
    <3>4. \A d \in Charge \ {c} : d[1] = t => Cardinality(ReceiptsOf(d)') <= 1
      BY <1>3, <1>4 DEF CrossInv
    <3>5. \A p \in WorkOn(t) : req'[p].pc # "receipt"
      BY <1>1, <3>1
    <3>6. QED BY <3>1, <3>3, <3>4, <3>5
  <2>2. CASE t # s
    <3>1. WorkOn(t) \subseteq Requests \ {q} /\ \A p \in WorkOn(t) : req'[p] = req[p]
      BY <1>2, <2>2 DEF WorkOn, InFlight, Others
    <3>2. c[1] = s /\ \A d : d[1] = t => d # c
      BY <1>1, <2>2
    <3>3. \A d \in Charge : d[1] = t => Cardinality(ReceiptsOf(d)') <= 1
      BY <1>3, <1>4, <3>2 DEF CrossInv
    <3>4. \A n : ReceiptsOf(<<t, n>>)' = ReceiptsOf(<<t, n>>)
      <4>1. ASSUME NEW n PROVE ReceiptsOf(<<t, n>>)' = ReceiptsOf(<<t, n>>)
        <5>1. <<t, n>> # c
          BY <1>1, <2>2
        <5>2. QED BY <1>1, <5>1 DEF ReceiptsOf
      <4>2. QED BY <4>1
    <3>5. ASSUME NEW p \in WorkOn(t), req'[p].pc = "receipt" PROVE ReceiptsOf(<<t, req[p].cycle>>)' = {}
      <4>1. ReceiptsOf(<<t, req[p].cycle>>) = {}
        BY <1>4, <3>1, <3>5 DEF CrossInv
      <4>2. ReceiptsOf(<<t, req[p].cycle>>)' = {y \in receipt' : y[1] = <<t, req'[p].cycle>>}
        BY DEF ReceiptsOf
      <4>3. {y \in receipt' : y[1] = <<t, req[p].cycle>>} = {}
        <5>1. <<t, req[p].cycle>> # c
          BY <1>1, <2>2
        <5>2. QED BY <1>1, <4>1, <5>1 DEF ReceiptsOf
      <4>4. QED BY <3>1, <4>2, <4>3
    <3>6. QED BY <1>4, <3>1, <3>3, <3>5 DEF CrossInv
  <2>3. QED BY <2>1, <2>2
<1>5. QED BY <1>2, <1>4 DEF CrossInv

LEMMA AdvanceKeeps ==
  ASSUME TypeInv, NEW q \in Requests, Advance(q), ~InsertReceipt(q)
  PROVE  /\ GoesOn(q) \/ Stops(q)
         /\ req'[q].pc # "receipt" /\ receipt' = receipt
         /\ lapsed' = lapsed /\ crossed' = crossed /\ cycles' = cycles /\ overtaken' = overtaken
<1>1. CASE RegisterMandate(q)
  BY <1>1, RegisterMandateForm
<1>2. CASE InsertSubscription(q)
  BY <1>2, InsertSubscriptionForm
<1>3. CASE CacheNew(q)
  BY <1>3, CacheNewForm DEF Stops
<1>4. CASE CancelMandate(q)
  BY <1>4, CancelMandateForm DEF Stops
<1>5. CASE SaveCancel(q)
  BY <1>5, SaveCancelForm DEF Stops
<1>6. CASE ClearCache(q)
  BY <1>6, ClearCacheForm DEF Stops
<1>7. CASE Renew(q)
  BY <1>7, RenewForm
<1>8. CASE SyncTenant(q)
  BY <1>8, SyncTenantForm DEF Stops
<1>9. CASE SaveEnded(q)
  BY <1>9, SaveEndedForm
<1>10. CASE LoadRefused(q)
  BY <1>10, LoadRefusedForm DEF LoadRefused, payments, gateway, charges, history
<1>11. CASE SaveOverdue(q)
  BY <1>11, SaveOverdueForm
<1>12. QED BY <1>1, <1>2, <1>3, <1>4, <1>5, <1>6, <1>7, <1>8, <1>9, <1>10, <1>11 DEF Advance

LEMMA NextCross == TypeInv /\ CrossInv /\ [Next]_vars => CrossInv'
<1> SUFFICES ASSUME TypeInv, CrossInv, [Next]_vars PROVE CrossInv'
  OBVIOUS
<1>1. ASSUME NEW q \in Requests, FindActive(q) PROVE CrossInv'
  <2>1. PICK s \in Subs : Begins(q, s) /\ req'[q].pc \in {"mandate", "insert"}
    BY <1>1, FindActiveForm
  <2>2. QED BY <1>1, <2>1, CrossAfterBegin DEF FindActive, payments
<1>2. ASSUME NEW q \in Requests, LoadToCancel(q) PROVE CrossInv'
  <2>1. PICK s \in Subs : Begins(q, s) /\ req'[q].pc \in {"gateway", "cancel"}
    BY <1>2, LoadToCancelForm
  <2>2. QED BY <1>2, <2>1, CrossAfterBegin DEF LoadToCancel, payments
<1>3. ASSUME NEW q \in Requests, NEW s \in Subs, FindCharged(q, s) PROVE CrossInv'
  BY <1>3, FindChargedForm, CrossAfterBegin DEF FindCharged, payments
<1>4. ASSUME NEW q \in Requests, NEW s \in Subs, FindEnded(q, s) PROVE CrossInv'
  BY <1>4, FindEndedForm, CrossAfterBegin DEF FindEnded, payments
<1>5. ASSUME NEW q \in Requests, NEW s \in Subs, FindRefused(q, s) PROVE CrossInv'
  BY <1>5, FindRefusedForm, CrossAfterBegin DEF FindRefused
<1>6. ASSUME NEW q \in Requests, Abort(q) PROVE CrossInv'
  BY <1>6, AnswerForm, CrossAfterAdvance DEF Abort, payments, Stops
<1>7. ASSUME NEW s \in Subs, ChargeMandate(s) PROVE CrossInv'
  BY <1>7, CrossUntouched DEF ChargeMandate, payments, history
<1>8. ASSUME NEW s \in Subs, EndMandate(s) PROVE CrossInv'
  BY <1>8, CrossUntouched DEF EndMandate, payments, history
<1>9. ASSUME UNCHANGED vars PROVE CrossInv'
  BY <1>9, CrossUntouched DEF vars, payments, history
<1>10. ASSUME NEW q \in Requests, Advance(q) PROVE CrossInv'
  <2>1. CASE InsertReceipt(q)
    BY <2>1, CrossAfterInsert
  <2>2. CASE ~InsertReceipt(q)
    BY <1>10, <2>2, AdvanceKeeps, CrossAfterAdvance
  <2>3. QED BY <2>1, <2>2
<1>11. QED BY <1>1, <1>2, <1>3, <1>4, <1>5, <1>6, <1>7, <1>8, <1>9, <1>10 DEF Next

(* A charge gets one Payment however often it is reported, whatever fails, *)
(* as long as no two handlers have worked on its subscription at once.     *)
THEOREM OneReceipt == Spec => []OneReceiptPerCharge
<1>1. CrossInv => OneReceiptPerCharge
  <2>1. \A c \in Charge : c[1] \in Subs
    BY DEF Charge
  <2>2. QED BY <2>1 DEF CrossInv, OneReceiptPerCharge
<1>2. QED BY <1>1, InitTypeInv, NextTypeInv, InitCross, NextCross, PTL DEF Spec

-----------------------------------------------------------------------------
(* A later step of a handler touches no subscription but its own, which    *)
(* exists afterwards unless its mandate has just been registered.          *)
LEMMA AdvanceEffects ==
  ASSUME TypeInv, LifeInv, NEW q \in Requests, Advance(q), NEW s, s = req[q].sub
  PROVE  /\ s \in Subs /\ req[q].pc # "idle"
         /\ \A t \in Subs \ {s} : sub'[t] = sub[t] /\ mandate'[t] = mandate[t]
         /\ Exists(s) => Exists(s)'
         /\ req[q].pc # "mandate" => Exists(s)'
         /\ mandate[s] # "none" => mandate'[s] # "none"
         /\ req[q].pc \notin {"insert", "renew"} =>
              sub'[s].end = sub[s].end /\ sub'[s].receipts = sub[s].receipts /\ sub'[s].plan = sub[s].plan
<1>0. /\ req[q].pc # "idle" => s \in Subs
      /\ req[q].pc \notin {"idle", "mandate", "insert"} => Exists(s)
  BY HandlerIsTyped DEF LifeInv
<1>s. \A st \in Statuses : Exists(s) => Saved(q, st) # "absent"
  BY SavedExists
<1>1. CASE RegisterMandate(q)
  BY <1>0, <1>1, RegisterMandateForm DEF Exists
<1>2. CASE InsertSubscription(q)
  BY <1>0, <1>2, InsertSubscriptionForm DEF Exists
<1>3. CASE CacheNew(q)
  BY <1>0, <1>3, CacheNewForm DEF Exists
<1>4. CASE CancelMandate(q)
  BY <1>0, <1>4, CancelMandateForm DEF Exists
<1>5. CASE SaveCancel(q)
  BY <1>0, <1>5, <1>s, SaveCancelForm DEF Exists, Writes, Statuses
<1>6. CASE ClearCache(q)
  BY <1>0, <1>6, ClearCacheForm DEF Exists
<1>7. CASE InsertReceipt(q)
  BY <1>0, <1>7 DEF InsertReceipt, gateway, charges, Exists
<1>8. CASE Renew(q)
  BY <1>0, <1>8, <1>s, RenewForm DEF Exists, Statuses, Live
<1>9. CASE SyncTenant(q)
  BY <1>0, <1>9, SyncTenantForm DEF Exists
<1>10. CASE SaveEnded(q)
  BY <1>0, <1>10, <1>s, SaveEndedForm DEF Exists, Writes, Statuses, EndedAs
<1>11. CASE LoadRefused(q)
  BY <1>0, <1>11 DEF LoadRefused, gateway, charges, Exists
<1>12. CASE SaveOverdue(q)
  BY <1>0, <1>12, <1>s, SaveOverdueForm DEF Exists, Writes, Statuses
<1>13. QED BY <1>1, <1>2, <1>3, <1>4, <1>5, <1>6, <1>7, <1>8, <1>9, <1>10, <1>11, <1>12 DEF Advance

-----------------------------------------------------------------------------
(* ListInv *)

LEMMA InitList == Init => ListInv
<1> SUFFICES ASSUME Init PROVE ListInv
  OBVIOUS
<1>1. receipt = {} /\ (\A q \in Requests : req[q].pc = "idle") /\ \A s \in Subs : sub[s].receipts = {}
  BY DEF Init, Idle, NoSub
<1>2. QED BY <1>1 DEF ListInv

(* A step of q that records no charge and lists none.                      *)
LEMMA ListFrame ==
  ASSUME ListInv, NEW q \in Requests, Others(q),
         receipt' = receipt, lapsed \subseteq lapsed', crossed \subseteq crossed',
         req'[q].pc # "renew",
         req[q].pc = "renew" => req[q].sub \in lapsed',
         \A t \in Subs : sub'[t].receipts = sub[t].receipts,
         \A p \in Requests : req[p].pc # "idle" => req[p].sub \in Subs
  PROVE  ListInv'
<1>1. \A s \in Subs : \A r \in sub'[s].receipts : r \in receipt' /\ r[1][1] = s
  BY DEF ListInv
<1>2. ASSUME NEW p \in Requests, req'[p].pc = "renew"
      PROVE  /\ req'[p].receipt \in receipt'
             /\ req'[p].sub \notin crossed' => req'[p].receipt \notin sub'[req'[p].sub].receipts
  <2>1. p # q /\ req'[p] = req[p]
    BY <1>2 DEF Others
  <2>2. req[p].sub \in Subs
    BY <1>2, <2>1
  <2>3. QED BY <1>2, <2>1, <2>2 DEF ListInv
<1>3. ASSUME NEW s \in Subs, s \notin lapsed', NEW r \in receipt, r[1][1] = s
      PROVE  \/ r \in sub'[s].receipts
             \/ \E p \in WorkOn(s)' : req'[p].pc = "renew" /\ req'[p].receipt = r
  <2>1. CASE r \in sub[s].receipts
    BY <2>1
  <2>2. ASSUME NEW p \in WorkOn(s), req[p].pc = "renew", req[p].receipt = r
        PROVE  p \in WorkOn(s)' /\ req'[p] = req[p]
    <3>1. p \in Requests /\ req[p].sub = s /\ p # q
      BY <1>3, <2>2 DEF WorkOn, InFlight
    <3>2. QED BY <2>2, <3>1 DEF WorkOn, InFlight, Others
  <2>3. s \notin lapsed
    BY <1>3
  <2>4. QED BY <1>3, <2>1, <2>2, <2>3 DEF ListInv
<1>4. QED BY <1>1, <1>2, <1>3 DEF ListInv

(* The new Payment is listed by no subscription; who inserts it lists it.  *)
LEMMA ListAfterInsert ==
  ASSUME TypeInv, CrossInv, ListInv, NEW q \in Requests, InsertReceipt(q)
  PROVE  ListInv'
<1>1. PICK s \in Subs, c \in Charge, x \in Receipt :
        /\ s = req[q].sub /\ c = <<s, req[q].cycle>>
        /\ receipt' = receipt \cup {x} /\ x[1] = c
        /\ req[q].pc = "receipt" /\ GoesOn(q)
        /\ req'[q].pc = "renew" /\ req'[q].receipt = x
  <2> DEFINE c == <<req[q].sub, req[q].cycle>>
             x == <<c, Cardinality(ReceiptsOf(c)) + 1>>
  <2>1. /\ c \in Charge /\ x \in Receipt /\ receipt' = receipt \cup {x} /\ x[1] = c
        /\ req[q].pc = "receipt" /\ GoesOn(q)
        /\ req'[q].pc = "renew" /\ req'[q].receipt = x
    BY InsertReceiptForm
  <2>2. req[q].sub \in Subs
    BY <2>1, HandlerIsTyped
  <2> HIDE DEF x
  <2>3. QED BY <2>1, <2>2
<1>2. /\ Others(q) /\ req'[q].sub = s /\ q \in WorkOn(s)
      /\ UNCHANGED <<sub, lapsed, crossed>> /\ \A t \in Subs : WorkOn(t)' = WorkOn(t)
  BY <1>1, WorkAfterGoingOn DEF GoesOn, InsertReceipt, history
<1>3. \A t \in Subs : \A r \in sub'[t].receipts : r \in receipt' /\ r[1][1] = t
  BY <1>1, <1>2 DEF ListInv
<1>4. s \notin crossed => x \notin receipt
  BY <1>1, <1>2 DEF CrossInv, ReceiptsOf
<1>5. ASSUME NEW p \in Requests, req'[p].pc = "renew"
      PROVE  /\ req'[p].receipt \in receipt'
             /\ req'[p].sub \notin crossed' => req'[p].receipt \notin sub'[req'[p].sub].receipts
  <2>1. CASE p = q
    BY <1>1, <1>2, <1>4, <2>1 DEF ListInv
  <2>2. CASE p # q
    <3>1. req'[p] = req[p]
      BY <1>2, <2>2 DEF Others
    <3>2. QED BY <1>1, <1>2, <1>5, <3>1 DEF ListInv
  <2>3. QED BY <2>1, <2>2
<1>6. ASSUME NEW t \in Subs, t \notin lapsed', NEW r \in receipt', r[1][1] = t
      PROVE  \/ r \in sub'[t].receipts
             \/ \E p \in WorkOn(t)' : req'[p].pc = "renew" /\ req'[p].receipt = r
  <2>1. CASE r = x
    <3>1. t = s
      BY <1>1, <1>6, <2>1
    <3>2. QED BY <1>1, <1>2, <2>1, <3>1
  <2>2. CASE r # x
    <3>1. r \in receipt /\ t \notin lapsed
      BY <1>1, <1>2, <1>6, <2>2
    <3>2. ASSUME NEW p \in WorkOn(t), req[p].pc = "renew", req[p].receipt = r
          PROVE  p \in WorkOn(t)' /\ req'[p] = req[p]
      <4>1. p \in Requests /\ p # q
        BY <1>1, <3>2 DEF WorkOn, InFlight
      <4>2. QED BY <1>2, <3>2, <4>1 DEF Others
    <3>3. QED BY <1>2, <1>6, <3>1, <3>2 DEF ListInv
  <2>3. QED BY <2>1, <2>2
<1>7. QED BY <1>3, <1>5, <1>6 DEF ListInv

(* A renewal lists the Payment its handler holds.                          *)
LEMMA ListAfterRenew ==
  ASSUME TypeInv, CrossInv, ListInv, NEW q \in Requests, Renew(q)
  PROVE  ListInv'
<1>1. PICK s \in Subs :
        /\ s = req[q].sub /\ req[q].pc = "renew" /\ GoesOn(q) /\ req'[q].pc = "tenant"
        /\ \A t \in Subs \ {s} : sub'[t] = sub[t]
        /\ sub'[s].receipts = sub[s].receipts \cup {req[q].receipt}
        /\ UNCHANGED <<receipt, lapsed, crossed>>
  BY RenewForm, HandlerIsTyped DEF Renew
<1>2. /\ Others(q) /\ q \in WorkOn(s) /\ \A t \in Subs : WorkOn(t)' = WorkOn(t)
  BY <1>1, WorkAfterGoingOn DEF GoesOn
<1>3. req[q].receipt \in receipt /\ req[q].receipt[1][1] = s
  BY <1>1, HandlerIsTyped DEF ListInv, Shape
<1>4. \A t \in Subs : \A r \in sub'[t].receipts : r \in receipt' /\ r[1][1] = t
  BY <1>1, <1>3 DEF ListInv
<1>5. ASSUME NEW p \in Requests, req'[p].pc = "renew"
      PROVE  /\ req'[p].receipt \in receipt'
             /\ req'[p].sub \notin crossed' => req'[p].receipt \notin sub'[req'[p].sub].receipts
  <2>1. p # q /\ req'[p] = req[p] /\ req[p].sub \in Subs
    BY <1>1, <1>2, <1>5, HandlerIsTyped DEF Others
  <2>2. CASE req[p].sub = s
    <3>1. p \in WorkOn(s)
      BY <1>5, <2>1, <2>2 DEF WorkOn, InFlight
    <3>2. s \in crossed
      BY <1>2, <2>1, <3>1 DEF CrossInv
    <3>3. QED BY <1>1, <1>5, <2>1, <2>2, <3>2 DEF ListInv
  <2>3. CASE req[p].sub # s
    BY <1>1, <1>5, <2>1, <2>3 DEF ListInv
  <2>4. QED BY <2>2, <2>3
<1>6. ASSUME NEW t \in Subs, t \notin lapsed', NEW r \in receipt, r[1][1] = t
      PROVE  \/ r \in sub'[t].receipts
             \/ \E p \in WorkOn(t)' : req'[p].pc = "renew" /\ req'[p].receipt = r
  <2>1. CASE r \in sub[t].receipts
    BY <1>1, <2>1
  <2>2. ASSUME NEW p \in WorkOn(t), req[p].pc = "renew", req[p].receipt = r
        PROVE  \/ r \in sub'[t].receipts
               \/ \E p1 \in WorkOn(t)' : req'[p1].pc = "renew" /\ req'[p1].receipt = r
    <3>1. CASE p = q
      <4>1. t = s
        BY <1>1, <2>2, <3>1 DEF WorkOn
      <4>2. QED BY <1>1, <2>2, <3>1, <4>1
    <3>2. CASE p # q
      <4>1. req'[p] = req[p] /\ p \in WorkOn(t)'
        BY <1>2, <2>2, <3>2 DEF WorkOn, InFlight, Others
      <4>2. QED BY <2>2, <4>1
    <3>3. QED BY <3>1, <3>2
  <2>3. QED BY <1>1, <1>6, <2>1, <2>2 DEF ListInv
<1>7. QED BY <1>1, <1>4, <1>5, <1>6 DEF ListInv

LEMMA ListUntouched ==
  ASSUME ListInv, UNCHANGED <<sub, receipt, req, lapsed, crossed>>
  PROVE  ListInv'
<1>1. \A t \in Subs : WorkOn(t)' = WorkOn(t)
  BY WorkUntouched
<1>2. QED BY <1>1 DEF ListInv

(* What a handler does beside recording a charge and renewing leaves the   *)
(* lists and the periods alone.                                            *)
LEMMA AdvanceElse ==
  ASSUME TypeInv, LifeInv, ListInv, NEW q \in Requests, Advance(q), ~InsertReceipt(q), ~Renew(q)
  PROVE  /\ Others(q) /\ req'[q].pc \notin {"receipt", "renew"} /\ req[q].pc # "renew"
         /\ UNCHANGED <<receipt, lapsed, crossed, cycles, overtaken>>
         /\ \A t \in Subs : sub'[t].end = sub[t].end /\ sub'[t].receipts = sub[t].receipts
<1>1. /\ Others(q) /\ req'[q].pc \notin {"receipt", "renew"}
      /\ UNCHANGED <<receipt, lapsed, crossed, cycles, overtaken>>
  <2>1. /\ GoesOn(q) \/ Stops(q)
        /\ req'[q].pc # "receipt" /\ UNCHANGED <<receipt, lapsed, crossed, cycles, overtaken>>
    BY AdvanceKeeps
  <2>2. req'[q].pc # "renew"
    BY RegisterMandateForm, InsertSubscriptionForm, CacheNewForm, CancelMandateForm, SaveCancelForm,
       ClearCacheForm, SyncTenantForm, SaveEndedForm, LoadRefusedForm, SaveOverdueForm DEF Advance, Stops
  <2>3. QED BY <2>1, <2>2 DEF GoesOn, Stops
<1>2. req[q].pc # "renew"
  BY RegisterMandateForm, InsertSubscriptionForm, CacheNewForm, CancelMandateForm, SaveCancelForm,
     ClearCacheForm, SyncTenantForm, SaveEndedForm, LoadRefusedForm, SaveOverdueForm DEF Advance
<1>3. PICK s \in Subs :
        /\ s = req[q].sub
        /\ \A t \in Subs \ {s} : sub'[t] = sub[t]
        /\ req[q].pc # "insert" => sub'[s].end = sub[s].end /\ sub'[s].receipts = sub[s].receipts
  BY <1>2, AdvanceEffects
<1>4. CASE InsertSubscription(q)
  <2>1. req[q].pc = "insert" /\ sub'[s].end = 0 /\ sub'[s].receipts = {}
    <3>1. s = req[q].sub
      BY <1>3
    <3>2. QED BY <1>4, <3>1, InsertSubscriptionForm
  <2>2. ~Exists(s)
    BY <1>3, <2>1 DEF LifeInv
  <2>3. sub[s].end = 0 /\ \A r \in receipt : r[1][1] # s
    BY <2>2 DEF LifeInv
  <2>4. sub[s].receipts = {}
    BY <2>3 DEF ListInv
  <2>5. QED BY <1>1, <1>2, <1>3, <2>1, <2>3, <2>4
<1>5. CASE ~InsertSubscription(q)
  <2>1. req[q].pc # "insert"
    BY <1>5, RegisterMandateForm, CacheNewForm, CancelMandateForm, SaveCancelForm,
       ClearCacheForm, SyncTenantForm, SaveEndedForm, LoadRefusedForm, SaveOverdueForm DEF Advance
  <2>2. QED BY <1>1, <1>2, <1>3, <2>1
<1>6. QED BY <1>4, <1>5

LEMMA NextList == TypeInv /\ LifeInv /\ CrossInv /\ ListInv /\ [Next]_vars => ListInv'
<1> SUFFICES ASSUME TypeInv, LifeInv, CrossInv, ListInv, [Next]_vars PROVE ListInv'
  OBVIOUS
<1>0. \A p \in Requests : req[p].pc # "idle" => req[p].sub \in Subs
  BY HandlerIsTyped
<1>b. ASSUME NEW q \in Requests, NEW s \in Subs, Begins(q, s), UNCHANGED <<sub, receipt>>,
             req'[q].pc # "renew"
      PROVE  ListInv'
  <2>1. /\ Others(q) /\ lapsed' = lapsed /\ crossed \subseteq crossed'
        /\ req[q].pc # "renew" /\ \A t \in Subs : sub'[t].receipts = sub[t].receipts
    BY <1>b DEF Begins
  <2>2. QED BY <1>0, <1>b, <2>1, ListFrame
<1>1. ASSUME NEW q \in Requests, FindActive(q) PROVE ListInv'
  <2>1. PICK s \in Subs : Begins(q, s) /\ req'[q].pc \in {"mandate", "insert"}
    BY <1>1, FindActiveForm
  <2>2. QED BY <1>1, <1>b, <2>1 DEF FindActive, payments
<1>2. ASSUME NEW q \in Requests, LoadToCancel(q) PROVE ListInv'
  <2>1. PICK s \in Subs : Begins(q, s) /\ req'[q].pc \in {"gateway", "cancel"}
    BY <1>2, LoadToCancelForm
  <2>2. QED BY <1>2, <1>b, <2>1 DEF LoadToCancel, payments
<1>3. ASSUME NEW q \in Requests, NEW s \in Subs, FindCharged(q, s) PROVE ListInv'
  BY <1>3, <1>b, FindChargedForm DEF FindCharged, payments
<1>4. ASSUME NEW q \in Requests, NEW s \in Subs, FindEnded(q, s) PROVE ListInv'
  BY <1>4, <1>b, FindEndedForm DEF FindEnded, payments
<1>5. ASSUME NEW q \in Requests, NEW s \in Subs, FindRefused(q, s) PROVE ListInv'
  BY <1>5, <1>b, FindRefusedForm DEF FindRefused
<1>6. ASSUME NEW q \in Requests, Abort(q) PROVE ListInv'
  <2>1. /\ UNCHANGED <<sub, receipt, crossed>> /\ lapsed' = lapsed \cup {req[q].sub} /\ Stops(q)
    BY <1>6, AnswerForm DEF Abort, payments
  <2>2. QED BY <1>0, <2>1, ListFrame DEF Stops
<1>7. ASSUME NEW s \in Subs, ChargeMandate(s) \/ EndMandate(s) PROVE ListInv'
  BY <1>7, ListUntouched DEF ChargeMandate, EndMandate, payments, history
<1>8. ASSUME UNCHANGED vars PROVE ListInv'
  BY <1>8, ListUntouched DEF vars, payments, history
<1>9. ASSUME NEW q \in Requests, Advance(q) PROVE ListInv'
  <2>1. CASE InsertReceipt(q)
    BY <2>1, ListAfterInsert
  <2>2. CASE Renew(q)
    BY <2>2, ListAfterRenew
  <2>3. CASE ~InsertReceipt(q) /\ ~Renew(q)
    BY <1>0, <1>9, <2>3, AdvanceElse, ListFrame
  <2>4. QED BY <2>1, <2>2, <2>3
<1>10. QED BY <1>1, <1>2, <1>3, <1>4, <1>5, <1>6, <1>7, <1>8, <1>9 DEF Next

-----------------------------------------------------------------------------
(* RenewInv *)

LEMMA InitRenew == Init => RenewInv
<1> SUFFICES ASSUME Init PROVE RenewInv
  OBVIOUS
<1>1. \A s \in Subs : WorkOn(s) = {}
  BY DEF Init, WorkOn, InFlight, Idle
<1>2. \A s \in Subs : cycles[s] = 0 /\ sub[s].end = 0 /\ 1..(cycles[s] - 1) = {} /\ sub[s].receipts = {}
  BY DEF Init, NoSub
<1>3. receipt = {} /\ \A q \in Requests : req[q].pc = "idle"
  BY DEF Init, Idle
<1>4. QED BY <1>1, <1>2, <1>3 DEF RenewInv

(* A step of q that records no charge and renews nothing. *)
LEMMA RenewFrame ==
  ASSUME TypeInv, RenewInv, NEW q \in Requests, Others(q),
         receipt' = receipt, cycles' = cycles, overtaken' = overtaken,
         req'[q].pc # "renew",
         req'[q].pc = "receipt" => /\ req'[q].sub \in Subs /\ req'[q].cycle <= cycles[req'[q].sub]
                                   /\ req'[q].sub \notin overtaken => req'[q].cycle = cycles[req'[q].sub],
         \A t \in Subs : sub'[t].end = sub[t].end /\ sub'[t].receipts = sub[t].receipts
  PROVE  RenewInv'
<1>1. \A s \in Subs : sub'[s].end <= cycles'[s]
  BY DEF RenewInv
<1>2. \A r \in receipt' : r[1][2] <= cycles'[r[1][1]]
  BY DEF RenewInv
<1>3. ASSUME NEW p \in Requests, req'[p].pc \in {"receipt", "renew"}
      PROVE  req'[p].cycle <= cycles'[req'[p].sub]
  BY <1>3 DEF RenewInv, Others
<1>4. ASSUME NEW s \in Subs, s \notin overtaken
      PROVE  /\ \A n \in 1..(cycles'[s] - 1) : ReceiptsOf(<<s, n>>)' # {}
             /\ \A p \in WorkOn(s)' : req'[p].pc \in {"receipt", "renew"} => req'[p].cycle = cycles'[s]
             /\ \A r \in sub'[s].receipts : r[1][2] <= sub'[s].end
  <2>1. \A n \in 1..(cycles'[s] - 1) : ReceiptsOf(<<s, n>>)' # {}
    <3>1. \A n : ReceiptsOf(<<s, n>>)' = ReceiptsOf(<<s, n>>)
      BY DEF ReceiptsOf
    <3>2. QED BY <1>4, <3>1 DEF RenewInv
  <2>2. ASSUME NEW p \in WorkOn(s)', req'[p].pc \in {"receipt", "renew"}
        PROVE  req'[p].cycle = cycles'[s]
    <3>1. p \in Requests /\ req'[p].sub = s /\ (p # q => req'[p] = req[p] /\ p \in WorkOn(s))
      BY <2>2 DEF WorkOn, InFlight, Others
    <3>2. CASE p = q
      BY <1>4, <2>2, <3>1, <3>2
    <3>3. CASE p # q
      BY <1>4, <2>2, <3>1, <3>3 DEF RenewInv
    <3>4. QED BY <3>2, <3>3
  <2>3. \A r \in sub'[s].receipts : r[1][2] <= sub'[s].end
    BY <1>4 DEF RenewInv
  <2>4. QED BY <2>1, <2>2, <2>3
<1>5. QED BY <1>1, <1>2, <1>3, <1>4 DEF RenewInv

(* The Payment of a charge that is being recorded is of the last cycle.    *)
LEMMA RenewAfterInsert ==
  ASSUME TypeInv, RenewInv, NEW q \in Requests, InsertReceipt(q)
  PROVE  RenewInv'
<1>1. PICK s \in Subs, c \in Charge, x \in Receipt :
        /\ s = req[q].sub /\ c = <<s, req[q].cycle>>
        /\ receipt' = receipt \cup {x} /\ x[1] = c
        /\ req[q].pc = "receipt" /\ GoesOn(q)
        /\ req'[q].pc = "renew" /\ req'[q].receipt = x /\ req'[q].cycle = req[q].cycle
  <2> DEFINE c == <<req[q].sub, req[q].cycle>>
             x == <<c, Cardinality(ReceiptsOf(c)) + 1>>
  <2>1. /\ c \in Charge /\ x \in Receipt /\ receipt' = receipt \cup {x} /\ x[1] = c
        /\ req[q].pc = "receipt" /\ GoesOn(q)
        /\ req'[q].pc = "renew" /\ req'[q].receipt = x /\ req'[q].cycle = req[q].cycle
    BY InsertReceiptForm
  <2>2. req[q].sub \in Subs
    BY <2>1, HandlerIsTyped
  <2> HIDE DEF x
  <2>3. QED BY <2>1, <2>2
<1>2. /\ Others(q) /\ req'[q].sub = s /\ q \in WorkOn(s)
      /\ UNCHANGED <<sub, cycles, overtaken>> /\ \A t \in Subs : WorkOn(t)' = WorkOn(t)
  BY <1>1, WorkAfterGoingOn DEF GoesOn, InsertReceipt, gateway, charges
<1>3. \A t \in Subs : sub'[t].end <= cycles'[t]
  BY <1>2 DEF RenewInv
<1>4. \A r \in receipt' : r[1][2] <= cycles'[r[1][1]]
  <2>1. x[1][1] = s /\ x[1][2] = req[q].cycle
    BY <1>1
  <2>2. req[q].cycle <= cycles[s]
    BY <1>1 DEF RenewInv
  <2>3. QED BY <1>1, <1>2, <2>1, <2>2 DEF RenewInv
<1>5. ASSUME NEW p \in Requests, req'[p].pc \in {"receipt", "renew"}
      PROVE  req'[p].cycle <= cycles'[req'[p].sub]
  BY <1>1, <1>2, <1>5 DEF RenewInv, Others
<1>6. ASSUME NEW t \in Subs, t \notin overtaken
      PROVE  /\ \A n \in 1..(cycles'[t] - 1) : ReceiptsOf(<<t, n>>)' # {}
             /\ \A p \in WorkOn(t)' : req'[p].pc \in {"receipt", "renew"} => req'[p].cycle = cycles'[t]
             /\ \A r \in sub'[t].receipts : r[1][2] <= sub'[t].end
  <2>1. \A n \in 1..(cycles'[t] - 1) : ReceiptsOf(<<t, n>>)' # {}
    <3>1. \A n : ReceiptsOf(<<t, n>>) \subseteq ReceiptsOf(<<t, n>>)'
      BY <1>1 DEF ReceiptsOf
    <3>2. QED BY <1>2, <1>6, <3>1 DEF RenewInv
  <2>2. \A p \in WorkOn(t)' : req'[p].pc \in {"receipt", "renew"} => req'[p].cycle = cycles'[t]
    <3>1. ASSUME NEW p \in WorkOn(t), req'[p].pc \in {"receipt", "renew"}
          PROVE  req'[p].cycle = cycles[t]
      <4>1. p \in Requests /\ req[p].sub = t /\ req[p].pc \in {"receipt", "renew"} /\ req'[p].cycle = req[p].cycle
        BY <1>1, <1>2, <3>1 DEF WorkOn, InFlight, Others
      <4>2. QED BY <1>2, <1>6, <3>1, <4>1 DEF RenewInv
    <3>2. QED BY <1>2, <3>1
  <2>3. \A r \in sub'[t].receipts : r[1][2] <= sub'[t].end
    BY <1>2, <1>6 DEF RenewInv
  <2>4. QED BY <2>1, <2>2, <2>3
<1>7. QED BY <1>2, <1>3, <1>4, <1>5, <1>6 DEF RenewInv

(* A renewal, to the last cycle unless charges overtook one another.       *)
LEMMA RenewAfterRenew ==
  ASSUME TypeInv, ListInv, RenewInv, NEW q \in Requests, Renew(q)
  PROVE  RenewInv'
<1>1. PICK s \in Subs :
        /\ s = req[q].sub /\ req[q].pc = "renew" /\ GoesOn(q) /\ req'[q].pc = "tenant"
        /\ \A t \in Subs \ {s} : sub'[t] = sub[t]
        /\ sub'[s].end = req[q].cycle /\ sub'[s].receipts = sub[s].receipts \cup {req[q].receipt}
        /\ UNCHANGED <<receipt, cycles, overtaken>>
  BY RenewForm, HandlerIsTyped DEF Renew
<1>2. /\ Others(q) /\ q \in WorkOn(s) /\ \A t \in Subs : WorkOn(t)' = WorkOn(t)
  BY <1>1, WorkAfterGoingOn DEF GoesOn
<1>3. req[q].cycle <= cycles[s] /\ (s \notin overtaken => req[q].cycle = cycles[s])
  BY <1>1, <1>2 DEF RenewInv
<1>4. \A t \in Subs : sub'[t].end <= cycles'[t]
  BY <1>1, <1>3 DEF RenewInv
<1>5. \A r \in receipt' : r[1][2] <= cycles'[r[1][1]]
  BY <1>1 DEF RenewInv
<1>6. ASSUME NEW p \in Requests, req'[p].pc \in {"receipt", "renew"}
      PROVE  req'[p].cycle <= cycles'[req'[p].sub]
  BY <1>1, <1>2, <1>6 DEF RenewInv, Others
<1>7. ASSUME NEW t \in Subs, t \notin overtaken
      PROVE  /\ \A n \in 1..(cycles'[t] - 1) : ReceiptsOf(<<t, n>>)' # {}
             /\ \A p \in WorkOn(t)' : req'[p].pc \in {"receipt", "renew"} => req'[p].cycle = cycles'[t]
             /\ \A r \in sub'[t].receipts : r[1][2] <= sub'[t].end
  <2>1. \A n \in 1..(cycles'[t] - 1) : ReceiptsOf(<<t, n>>)' # {}
    <3>1. \A n : ReceiptsOf(<<t, n>>)' = ReceiptsOf(<<t, n>>)
      BY <1>1 DEF ReceiptsOf
    <3>2. QED BY <1>1, <1>7, <3>1 DEF RenewInv
  <2>2. \A p \in WorkOn(t)' : req'[p].pc \in {"receipt", "renew"} => req'[p].cycle = cycles'[t]
    <3>1. ASSUME NEW p \in WorkOn(t), req'[p].pc \in {"receipt", "renew"}
          PROVE  req'[p].cycle = cycles[t]
      <4>1. p \in Requests /\ req'[p] = req[p]
        BY <1>1, <1>2, <3>1 DEF WorkOn, InFlight, Others
      <4>2. QED BY <1>1, <1>7, <3>1, <4>1 DEF RenewInv
    <3>2. QED BY <1>1, <1>2, <3>1
  <2>3. ASSUME NEW r \in sub'[t].receipts
        PROVE  r[1][2] <= sub'[t].end
    <3>1. CASE t # s
      BY <1>1, <1>7, <2>3, <3>1 DEF RenewInv
    <3>2. CASE t = s
      <4>1. r \in receipt /\ r[1][1] = s
        BY <1>1, <2>3, <3>2, HandlerIsTyped DEF ListInv, Shape
      <4>2. r[1][2] <= cycles[s]
        BY <4>1 DEF RenewInv
      <4>3. QED BY <1>1, <1>3, <1>7, <3>2, <4>2
    <3>3. QED BY <3>1, <3>2
  <2>4. QED BY <1>1, <2>1, <2>2, <2>3
<1>8. QED BY <1>1, <1>4, <1>5, <1>6, <1>7 DEF RenewInv

(* A charge that does not overtake the one before finds it recorded, and   *)
(* no handler at work.                                                     *)
LEMMA RenewAfterCharge ==
  ASSUME TypeInv, RenewInv, NEW s \in Subs, ChargeMandate(s)
  PROVE  RenewInv'
<1>1. /\ UNCHANGED <<sub, receipt, req>>
      /\ cycles'[s] = cycles[s] + 1 /\ \A t \in Subs \ {s} : cycles'[t] = cycles[t]
  BY DEF ChargeMandate, TypeInv, TypeOK, payments
<1>2. \A t \in Subs : cycles[t] \in Nat /\ cycles[t] <= cycles'[t] /\ cycles'[t] \in Nat
  BY <1>1, SubIsTyped
<1>o. /\ overtaken \subseteq overtaken'
      /\ s \notin overtaken' => cycles[s] = 0 \/ (WorkOn(s) = {} /\ ReceiptsOf(<<s, cycles[s]>>) # {})
  BY DEF ChargeMandate
<1>3. \A t \in Subs : sub'[t].end <= cycles'[t]
  BY <1>1, <1>2, SubIsTyped DEF RenewInv
<1>4. ASSUME NEW r \in receipt PROVE r[1][2] <= cycles'[r[1][1]]
  <2>1. r[1][1] \in Subs /\ r[1][2] \in Int /\ r[1][2] <= cycles[r[1][1]]
    BY DEF TypeInv, TypeOK, Receipt, Charge, RenewInv
  <2>2. QED BY <1>2, <2>1
<1>5. ASSUME NEW p \in Requests, req[p].pc \in {"receipt", "renew"}
      PROVE  req[p].cycle <= cycles'[req[p].sub]
  <2>1. req[p].sub \in Subs /\ req[p].cycle \in Nat /\ req[p].cycle <= cycles[req[p].sub]
    BY <1>5, HandlerIsTyped, SubscriptionConstants DEF Request, RenewInv
  <2>2. QED BY <1>2, <2>1
<1>6. \A t \in Subs : WorkOn(t)' = WorkOn(t)
  BY <1>1, WorkUntouched
<1>7. \A c : ReceiptsOf(c)' = ReceiptsOf(c)
  BY <1>1 DEF ReceiptsOf
<1>8. ASSUME NEW t \in Subs, t \notin overtaken'
      PROVE  /\ \A n \in 1..(cycles'[t] - 1) : ReceiptsOf(<<t, n>>) # {}
             /\ \A p \in WorkOn(t) : req[p].pc \in {"receipt", "renew"} => req[p].cycle = cycles'[t]
             /\ \A r \in sub[t].receipts : r[1][2] <= sub[t].end
  <2>0. t \notin overtaken
    BY <1>o, <1>8
  <2>1. \A n \in 1..(cycles[t] - 1) : ReceiptsOf(<<t, n>>) # {}
    BY <2>0 DEF RenewInv
  <2>2. ASSUME NEW n \in 1..(cycles'[t] - 1) PROVE ReceiptsOf(<<t, n>>) # {}
    <3>1. CASE t # s
      BY <1>1, <2>1, <2>2, <3>1
    <3>2. CASE t = s
      <4>1. cycles[s] = 0 \/ ReceiptsOf(<<s, cycles[s]>>) # {}
        BY <1>o, <1>8, <3>2
      <4>2. n \in 1..cycles[s]
        BY <1>1, <1>2, <2>2, <3>2
      <4>3. n = cycles[s] \/ n \in 1..(cycles[s] - 1)
        BY <1>2, <4>2
      <4>4. QED BY <1>2, <2>1, <3>2, <4>1, <4>2, <4>3
    <3>3. QED BY <3>1, <3>2
  <2>3. ASSUME NEW p \in WorkOn(t), req[p].pc \in {"receipt", "renew"} PROVE req[p].cycle = cycles'[t]
    <3>0. req[p].cycle = cycles[t] /\ p \in Requests
      BY <2>0, <2>3 DEF RenewInv, WorkOn, InFlight
    <3>1. CASE t # s
      BY <1>1, <3>0, <3>1
    <3>2. CASE t = s
      <4>1. cycles[s] = 0
        BY <1>o, <1>8, <2>3, <3>2
      <4>2. req[p].cycle # 0
        BY <2>3, <3>0, HandlerIsTyped DEF Shape
      <4>3. QED BY <3>0, <3>2, <4>1, <4>2
    <3>3. QED BY <3>1, <3>2
  <2>4. \A r \in sub[t].receipts : r[1][2] <= sub[t].end
    BY <2>0 DEF RenewInv
  <2>5. QED BY <2>2, <2>3, <2>4
<1>9. QED BY <1>1, <1>3, <1>4, <1>5, <1>6, <1>7, <1>8 DEF RenewInv

LEMMA RenewUntouched ==
  ASSUME RenewInv, UNCHANGED <<sub, receipt, cycles, req, overtaken>>
  PROVE  RenewInv'
<1>1. (\A t \in Subs : WorkOn(t)' = WorkOn(t)) /\ \A c : ReceiptsOf(c)' = ReceiptsOf(c)
  BY WorkUntouched DEF ReceiptsOf
<1>2. QED BY <1>1 DEF RenewInv

LEMMA NextRenew == TypeInv /\ LifeInv /\ ListInv /\ RenewInv /\ [Next]_vars => RenewInv'
<1> SUFFICES ASSUME TypeInv, LifeInv, ListInv, RenewInv, [Next]_vars PROVE RenewInv'
  OBVIOUS
<1>b. ASSUME NEW q \in Requests, NEW s \in Subs, Begins(q, s), UNCHANGED <<sub, receipt, cycles, overtaken>>,
             req'[q].pc \notin {"receipt", "renew"}
      PROVE  RenewInv'
  BY <1>b, RenewFrame DEF Begins
<1>1. ASSUME NEW q \in Requests, FindActive(q) PROVE RenewInv'
  <2>1. PICK s \in Subs : Begins(q, s) /\ req'[q].pc \in {"mandate", "insert"}
    BY <1>1, FindActiveForm
  <2>2. QED BY <1>1, <1>b, <2>1 DEF FindActive, payments, gateway, charges
<1>2. ASSUME NEW q \in Requests, LoadToCancel(q) PROVE RenewInv'
  <2>1. PICK s \in Subs : Begins(q, s) /\ req'[q].pc \in {"gateway", "cancel"}
    BY <1>2, LoadToCancelForm
  <2>2. QED BY <1>2, <1>b, <2>1 DEF LoadToCancel, payments, gateway, charges
<1>3. ASSUME NEW q \in Requests, NEW s \in Subs, FindCharged(q, s) PROVE RenewInv'
  <2>1. /\ Begins(q, s) /\ req'[q].pc = "receipt" /\ req'[q].cycle \in 1..cycles[s]
        /\ ReceiptsOf(<<s, req'[q].cycle>>) = {}
    BY <1>3, FindChargedForm
  <2>2. Others(q) /\ req'[q].sub = s /\ UNCHANGED <<sub, receipt, cycles, overtaken>>
    BY <1>3, <2>1 DEF Begins, FindCharged, payments, gateway, charges
  <2>3. s \notin overtaken => req'[q].cycle \notin 1..(cycles[s] - 1)
    BY <2>1 DEF RenewInv
  <2>4. req'[q].cycle <= cycles[s] /\ (s \notin overtaken => req'[q].cycle = cycles[s])
    BY <2>1, <2>3, SubIsTyped
  <2>5. QED BY <2>1, <2>2, <2>4, RenewFrame
<1>4. ASSUME NEW q \in Requests, NEW s \in Subs, FindEnded(q, s) PROVE RenewInv'
  BY <1>4, <1>b, FindEndedForm DEF FindEnded, payments, gateway, charges
<1>5. ASSUME NEW q \in Requests, NEW s \in Subs, FindRefused(q, s) PROVE RenewInv'
  BY <1>5, <1>b, FindRefusedForm DEF FindRefused, gateway, charges
<1>6. ASSUME NEW q \in Requests, Abort(q) PROVE RenewInv'
  <2>1. /\ UNCHANGED <<sub, receipt, cycles, overtaken>> /\ Stops(q)
    BY <1>6, AnswerForm DEF Abort, payments, gateway, charges
  <2>2. QED BY <2>1, RenewFrame DEF Stops
<1>7. ASSUME NEW s \in Subs, ChargeMandate(s) PROVE RenewInv'
  BY <1>7, RenewAfterCharge
<1>8. ASSUME NEW s \in Subs, EndMandate(s) PROVE RenewInv'
  BY <1>8, RenewUntouched DEF EndMandate, payments, charges
<1>9. ASSUME UNCHANGED vars PROVE RenewInv'
  BY <1>9, RenewUntouched DEF vars, payments, gateway, charges
<1>10. ASSUME NEW q \in Requests, Advance(q) PROVE RenewInv'
  <2>1. CASE InsertReceipt(q)
    BY <2>1, RenewAfterInsert
  <2>2. CASE Renew(q)
    BY <2>2, RenewAfterRenew
  <2>3. CASE ~InsertReceipt(q) /\ ~Renew(q)
    BY <1>10, <2>3, AdvanceElse, RenewFrame
  <2>4. QED BY <2>1, <2>2, <2>3
<1>11. QED BY <1>1, <1>2, <1>3, <1>4, <1>5, <1>6, <1>7, <1>8, <1>9, <1>10 DEF Next

Handled == TypeInv /\ LifeInv /\ CrossInv /\ ListInv /\ RenewInv

LEMMA HandledIsInvariant == Spec => []Handled
<1>1. Init => Handled
  BY InitTypeInv, InitLife, InitCross, InitList, InitRenew DEF Handled
<1>2. Handled /\ [Next]_vars => Handled'
  BY NextTypeInv, NextLife, NextCross, NextList, NextRenew DEF Handled
<1>3. QED BY <1>1, <1>2, PTL DEF Spec

(* What the customer has paid for and is recorded is listed by the         *)
(* subscription when no handler is at work on it and none has died on it,  *)
(* and has renewed it unless charges overtook one another: the delivery    *)
(* that inserts the Payment is the one that renews.                        *)
THEOREM RecordedIsRenewed == Spec => []RecordedMeansRenewed
<1>1. Handled => RecordedMeansRenewed
  <2> SUFFICES ASSUME Handled, NEW r \in receipt, WorkOn(r[1][1]) = {}, r[1][1] \notin lapsed
               PROVE  /\ r \in sub[r[1][1]].receipts
                      /\ r[1][1] \notin overtaken => sub[r[1][1]].end >= r[1][2]
    BY DEF RecordedMeansRenewed
  <2>1. r[1][1] \in Subs /\ r[1][2] \in Int
    BY DEF Handled, TypeInv, TypeOK, Receipt, Charge
  <2>2. r \in sub[r[1][1]].receipts
    BY <2>1 DEF Handled, ListInv
  <2>3. sub[r[1][1]].end \in Int
    BY <2>1, SubIsTyped DEF Handled, Subscription
  <2>4. r[1][1] \notin overtaken => r[1][2] <= sub[r[1][1]].end
    BY <2>1, <2>2 DEF Handled, RenewInv
  <2>5. QED BY <2>1, <2>2, <2>3, <2>4
<1>2. QED BY <1>1, HandledIsInvariant, PTL

(* The period changes in Renew only.  Unless charges overtook one another, *)
(* the charge is the last one made; unless handlers overlapped, the        *)
(* charge's only Payment is the one the handler is about to list.          *)
THEOREM PeriodsGrow == Spec => PeriodOnlyGrows
<1>1. ASSUME Handled, [Next]_vars, NEW s \in Subs, sub'[s].end # sub[s].end
      PROVE  /\ s \notin overtaken => sub'[s].end > sub[s].end
             /\ s \notin crossed => \A r \in sub[s].receipts : r[1][2] # sub'[s].end
  <2>0. TypeInv /\ LifeInv /\ CrossInv /\ ListInv /\ RenewInv /\ sub[s].end \in Nat
    BY <1>1, SubIsTyped DEF Handled
  <2>1. PICK q \in Requests : Advance(q)
    BY <1>1 DEF vars, Next, FindActive, LoadToCancel, FindCharged, FindEnded, FindRefused, Abort,
       ChargeMandate, EndMandate
  <2>2. Renew(q)
    <3>1. ~InsertReceipt(q)
      BY <1>1 DEF InsertReceipt
    <3>2. QED BY <1>1, <2>0, <2>1, <3>1, AdvanceElse
  <2>3. /\ req[q].pc = "renew" /\ s = req[q].sub /\ sub'[s].end = req[q].cycle
        /\ req[q].receipt \in Receipt /\ req[q].receipt[1] = <<s, req[q].cycle>>
    BY <1>1, <2>0, <2>2, RenewForm, HandlerIsTyped DEF Shape
  <2>4. q \in WorkOn(s)
    BY <2>3 DEF WorkOn, InFlight
  <2>5. ASSUME s \notin overtaken PROVE sub'[s].end > sub[s].end
    <3>1. req[q].cycle = cycles[s] /\ sub[s].end <= cycles[s] /\ cycles[s] \in Nat
      BY <2>0, <2>3, <2>4, <2>5, SubIsTyped DEF RenewInv
    <3>2. QED BY <1>1, <2>0, <2>3, <3>1
  <2>6. ASSUME s \notin crossed, NEW r \in sub[s].receipts, r[1][2] = sub'[s].end PROVE FALSE
    <3> DEFINE c == <<s, req[q].cycle>>
    <3>1. c \in Charge /\ c[1] = s
      BY <2>3 DEF Receipt
    <3>2. r \in receipt /\ r[1][1] = s /\ r \in Receipt
      BY <2>0, <2>6 DEF ListInv, TypeInv, TypeOK
    <3>3. r[1] = c
      BY <2>3, <2>6, <3>2 DEF Receipt, Charge
    <3>4. r \in ReceiptsOf(c) /\ req[q].receipt \in ReceiptsOf(c) /\ r # req[q].receipt
      BY <2>0, <2>3, <2>6, <3>2, <3>3 DEF ReceiptsOf, ListInv
    <3>5. IsFiniteSet(ReceiptsOf(c)) /\ Cardinality(ReceiptsOf(c)) <= 1
      BY <2>0, <2>6, <3>1 DEF CrossInv, TypeInv, FlightInv
    <3> HIDE DEF c
    <3>6. IsFiniteSet({r}) /\ Cardinality({r}) = 1
      BY FS_Singleton
    <3> DEFINE x == req[q].receipt
               two == {r} \cup {x}
    <3>7. x \in ReceiptsOf(c) /\ r # x
      BY <3>4
    <3> HIDE DEF x
    <3>8. Cardinality(two) = 2
      <4>1. x \notin {r}
        BY <3>7
      <4>2. Cardinality(two) = IF x \in {r} THEN Cardinality({r}) ELSE Cardinality({r}) + 1
        BY <3>6, FS_AddElement
      <4>3. QED BY <3>6, <4>1, <4>2
    <3>9. Cardinality(two) <= Cardinality(ReceiptsOf(c))
      BY <3>4, <3>5, <3>7, FS_Subset
    <3>10. Cardinality(ReceiptsOf(c)) \in Nat
      BY <3>5, FS_CardinalityType
    <3>11. QED BY <3>5, <3>8, <3>9, <3>10
  <2>7. QED BY <2>5, <2>6
<1>2. Handled /\ [Next]_vars =>
        [\A s \in Subs :
           sub'[s].end # sub[s].end =>
             /\ s \notin overtaken => sub'[s].end > sub[s].end
             /\ s \notin crossed => \A r \in sub[s].receipts : r[1][2] # sub'[s].end]_vars
  BY <1>1
<1>3. QED BY <1>2, HandledIsInvariant, PTL DEF Spec, PeriodOnlyGrows

-----------------------------------------------------------------------------
(* CacheInv *)

LEMMA InitCache == Init => CacheInv
  BY DEF Init, CacheInv, Exists, NoSub

(* Neither a subscription nor a mandate disappears, and the history grows. *)
LEMMA NothingDisappears ==
  ASSUME TypeInv, LifeInv, [Next]_vars
  PROVE  /\ lapsed \subseteq lapsed' /\ crossed \subseteq crossed'
         /\ \A t \in Subs : /\ Exists(t) => Exists(t)'
                            /\ mandate[t] # "none" => mandate'[t] # "none"
<1>1. ASSUME NEW q \in Requests, Advance(q)
      PROVE  /\ lapsed \subseteq lapsed' /\ crossed \subseteq crossed'
             /\ \A t \in Subs : /\ Exists(t) => Exists(t)'
                                /\ mandate[t] # "none" => mandate'[t] # "none"
  <2>1. PICK s \in Subs :
          /\ s = req[q].sub
          /\ \A t \in Subs \ {s} : sub'[t] = sub[t] /\ mandate'[t] = mandate[t]
          /\ Exists(s) => Exists(s)'
          /\ mandate[s] # "none" => mandate'[s] # "none"
    BY <1>1, AdvanceEffects
  <2>2. lapsed' = lapsed /\ crossed' = crossed
    BY <1>1, AdvanceKeeps DEF InsertReceipt, history
  <2>3. QED BY <2>1, <2>2 DEF Exists
<1>2. ASSUME NEW q \in Requests, NEW s \in Subs, Begins(q, s), UNCHANGED <<sub, mandate>>
      PROVE  /\ lapsed \subseteq lapsed' /\ crossed \subseteq crossed'
             /\ \A t \in Subs : /\ Exists(t) => Exists(t)'
                                /\ mandate[t] # "none" => mandate'[t] # "none"
  BY <1>2 DEF Begins, Exists
<1>3. ASSUME NEW q \in Requests, FindActive(q)
      PROVE  UNCHANGED <<sub, mandate>> /\ \E s \in Subs : Begins(q, s)
  BY <1>3, FindActiveForm DEF FindActive, gateway, charges
<1>4. ASSUME NEW q \in Requests, LoadToCancel(q)
      PROVE  UNCHANGED <<sub, mandate>> /\ \E s \in Subs : Begins(q, s)
  BY <1>4, LoadToCancelForm DEF LoadToCancel, gateway, charges
<1>5. ASSUME NEW q \in Requests, NEW s \in Subs, FindCharged(q, s) \/ FindEnded(q, s) \/ FindRefused(q, s)
      PROVE  UNCHANGED <<sub, mandate>> /\ Begins(q, s)
  BY <1>5, FindChargedForm, FindEndedForm, FindRefusedForm DEF FindCharged, FindEnded, FindRefused, gateway, charges
<1>6. ASSUME NEW q \in Requests, Abort(q)
      PROVE  UNCHANGED <<sub, mandate>> /\ lapsed \subseteq lapsed' /\ crossed' = crossed
  BY <1>6 DEF Abort, gateway, charges
<1>7. ASSUME NEW s \in Subs, ChargeMandate(s) \/ EndMandate(s)
      PROVE  /\ sub' = sub /\ lapsed' = lapsed /\ crossed' = crossed
             /\ \A t \in Subs : mandate[t] # "none" => mandate'[t] # "none"
  BY <1>7 DEF ChargeMandate, EndMandate, history, TypeInv, TypeOK
<1>8. CASE UNCHANGED vars
  BY <1>8 DEF vars, gateway, charges, history, Exists
<1>9. QED BY <1>1, <1>2, <1>3, <1>4, <1>5, <1>6, <1>7, <1>8 DEF Next, Exists

LEMMA CacheFrame ==
  ASSUME NEW s \in Subs, CacheOf(s), sub'[s] = sub[s], tenant' = tenant,
         WorkOn(s)' = WorkOn(s), \A p \in WorkOn(s) : req'[p] = req[p]
  PROVE  CacheOf(s)'
<1>1. CacheFor(s)' = CacheFor(s)
  BY DEF CacheFor
<1>2. QED BY <1>1 DEF CacheOf

(* The handler at work on s takes a step. *)
LEMMA CacheAfterAdvance ==
  ASSUME TypeInv, LifeInv, CrossInv, NEW s \in Subs \ crossed, Exists(s), CacheOf(s),
         NEW q \in Requests, Advance(q), req[q].sub = s
  PROVE  CacheOf(s)'
<1>0. /\ s \in Subs /\ req[q].pc # "idle" /\ WorkOn(s) = {q}
      /\ req[q].pc \notin {"mandate", "insert"}
  <2>1. req[q].pc # "idle"
    BY AdvanceEffects
  <2>2. q \in WorkOn(s)
    BY <2>1 DEF WorkOn, InFlight
  <2>3. QED BY <2>1, <2>2 DEF CrossInv, LifeInv
<1>1. /\ req[q].pc \notin {"cache", "clear", "tenant"} => tenant.status = CacheFor(s)
      /\ req[q].pc = "cache" => sub[s].status = "trialing" /\ req[q].plan = sub[s].plan
      /\ req[q].pc = "clear" => sub[s].status = "cancelled"
      /\ req[q].pc = "tenant" => req[q].to = CacheFor(s)
      /\ req[q].pc \notin {"cache", "clear", "tenant", "load"} => req[q].was = sub[s].status
  BY <1>0 DEF CacheOf
<1>g. ASSUME GoesOn(q),
             req'[q].pc \notin {"cache", "clear", "tenant"} => tenant'.status = CacheFor(s)',
             req'[q].pc = "cache" => sub'[s].status = "trialing" /\ req'[q].plan = sub'[s].plan,
             req'[q].pc = "clear" => sub'[s].status = "cancelled",
             req'[q].pc = "tenant" => req'[q].to = CacheFor(s)',
             req'[q].pc \notin {"cache", "clear", "tenant", "load"} => req'[q].was = sub'[s].status
      PROVE  CacheOf(s)'
  <2>1. WorkOn(s)' = {q}
    BY <1>0, <1>g, WorkAfterGoingOn
  <2>2. QED BY <1>g, <2>1 DEF CacheOf
<1>d. ASSUME Stops(q), tenant'.status = CacheFor(s)'
      PROVE  CacheOf(s)'
  <2>1. WorkOn(s)' = {}
    BY <1>0, <1>d, WorkAfterStop
  <2>2. QED BY <1>d, <2>1 DEF CacheOf
<1>s. ASSUME NEW st, req[q].was = sub[s].status PROVE Saved(q, st) = st
  BY <1>s DEF Saved
<1>3. CASE CacheNew(q)
  BY <1>1, <1>3, <1>d, CacheNewForm DEF CacheFor
<1>4. CASE CancelMandate(q)
  <2>1. CacheFor(s)' = CacheFor(s) /\ tenant' = tenant /\ sub' = sub
    BY <1>4, CancelMandateForm DEF CacheFor
  <2>2. QED BY <1>1, <1>4, <1>g, <1>d, <2>1, CancelMandateForm
<1>5. CASE SaveCancel(q)
  <2>1. req[q].pc = "cancel" /\ tenant' = tenant
    BY <1>5, SaveCancelForm
  <2>2. CASE GoesOn(q) /\ req'[q].pc = "clear" /\ Writes(s, Saved(q, "cancelled"))
    BY <1>1, <1>g, <1>s, <2>1, <2>2 DEF Writes
  <2>3. CASE Stops(q) /\ Writes(s, sub[s].status)
    <3>1. CacheFor(s)' = CacheFor(s)
      BY <2>3 DEF Writes, CacheFor
    <3>2. QED BY <1>1, <1>d, <2>1, <2>3, <3>1
  <2>4. QED BY <1>5, <2>2, <2>3, SaveCancelForm
<1>6. CASE ClearCache(q)
  BY <1>1, <1>6, <1>d, ClearCacheForm DEF CacheFor
<1>7. CASE InsertReceipt(q)
  <2>1. req[q].pc = "receipt" /\ GoesOn(q) /\ req'[q].pc = "renew" /\ req'[q].was = req[q].was
    BY <1>7, InsertReceiptForm
  <2>2. CacheFor(s)' = CacheFor(s) /\ tenant' = tenant /\ sub' = sub
    BY <1>7 DEF InsertReceipt, CacheFor
  <2>3. QED BY <1>1, <1>g, <2>1, <2>2
<1>8. CASE Renew(q)
  <2>1. /\ req[q].pc = "renew" /\ GoesOn(q) /\ req'[q].pc = "tenant" /\ req'[q].to = "active"
        /\ sub'[s].status = Saved(q, "active")
    BY <1>8, RenewForm
  <2>2. CacheFor(s)' = "active"
    BY <1>1, <1>s, <2>1 DEF CacheFor
  <2>3. QED BY <1>g, <2>1, <2>2
<1>9. CASE SyncTenant(q)
  <2>1. req[q].pc = "tenant" /\ Stops(q) /\ tenant'.status = req[q].to /\ sub' = sub
    BY <1>9, SyncTenantForm
  <2>2. CacheFor(s)' = CacheFor(s)
    BY <2>1 DEF CacheFor
  <2>3. QED BY <1>1, <1>d, <2>1, <2>2
<1>10. CASE SaveEnded(q)
  <2>1. /\ req[q].pc = "ended" /\ GoesOn(q) /\ req'[q].pc = "tenant" /\ req'[q].to = EndedAs(s)
        /\ sub'[s].status = Saved(q, EndedAs(s))
    BY <1>10, SaveEndedForm DEF Writes
  <2>2. CacheFor(s)' = EndedAs(s)
    BY <1>1, <1>s, <2>1 DEF CacheFor, EndedAs
  <2>3. QED BY <1>g, <2>1, <2>2
<1>11. CASE LoadRefused(q)
  <2>1. /\ req[q].pc = "load" /\ GoesOn(q) /\ req'[q].pc = "overdue" /\ req'[q].was = sub[s].status
        /\ tenant' = tenant /\ sub' = sub
    BY <1>11, LoadRefusedForm DEF LoadRefused
  <2>2. CacheFor(s)' = CacheFor(s)
    BY <2>1 DEF CacheFor
  <2>3. QED BY <1>1, <1>g, <2>1, <2>2
<1>12. CASE SaveOverdue(q)
  <2>1. /\ req[q].pc = "overdue" /\ GoesOn(q) /\ req'[q].pc = "tenant" /\ req'[q].to = "suspended"
        /\ sub'[s].status = Saved(q, "past_due")
    BY <1>12, SaveOverdueForm DEF Writes
  <2>2. CacheFor(s)' = "suspended"
    BY <1>1, <1>s, <2>1 DEF CacheFor
  <2>3. QED BY <1>g, <2>1, <2>2
<1>13. QED BY <1>0, <1>3, <1>4, <1>5, <1>6, <1>7, <1>8, <1>9, <1>10, <1>11, <1>12
          DEF Advance, RegisterMandate, InsertSubscription

(* A handler begins to work on s, where none was at work. *)
LEMMA CacheAfterBegin ==
  ASSUME NEW s \in Subs, CacheOf(s), NEW q \in Requests, Begins(q, s), s \notin crossed',
         UNCHANGED <<sub, tenant>>,
         req'[q].pc \notin {"cache", "clear", "tenant"},
         req'[q].pc # "load" => req'[q].was = sub[s].status
  PROVE  CacheOf(s)'
<1>1. WorkOn(s) = {} /\ WorkOn(s)' = {q}
  BY WorkAfterBegin DEF Begins
<1>2. tenant.status = CacheFor(s) /\ CacheFor(s)' = CacheFor(s)
  BY <1>1 DEF CacheOf, CacheFor
<1>3. QED BY <1>1, <1>2 DEF CacheOf

LEMMA NextCache ==
  ASSUME TypeInv, LifeInv, CrossInv, CacheInv, [Next]_vars
  PROVE  CacheInv'
<1> SUFFICES ASSUME NEW s \in Subs, s \notin lapsed', s \notin crossed', Exists(s)', Only(s)'
             PROVE  CacheOf(s)'
  BY DEF CacheInv
<1>1. s \notin lapsed /\ s \notin crossed /\ Only(s)
  BY NothingDisappears DEF Only
<1>2. \A t \in Subs \ {s} : ~Exists(t)
  BY <1>1 DEF Only
<1>3. Exists(s) => CacheOf(s)
  BY <1>1 DEF CacheInv
<1>b. ASSUME NEW q \in Requests, NEW t \in Subs, Begins(q, t), UNCHANGED <<sub, tenant>>,
             req'[q].pc \notin {"cache", "clear", "tenant"},
             req'[q].pc # "load" => req'[q].was = sub[t].status
      PROVE  CacheOf(s)'
  <2>0. CacheOf(s)
    BY <1>3, <1>b DEF Exists
  <2>1. CASE t = s
    BY <1>b, <2>0, <2>1, CacheAfterBegin
  <2>2. CASE t # s
    <3>1. WorkOn(s)' = WorkOn(s) /\ \A p \in WorkOn(s) : req'[p] = req[p]
      BY <1>b, <2>2, WorkAfterBegin DEF Begins, Others, WorkOn, InFlight
    <3>2. QED BY <1>b, <2>0, <3>1, CacheFrame
  <2>3. QED BY <2>1, <2>2
<1>4. ASSUME NEW q \in Requests, FindActive(q) PROVE CacheOf(s)'
  <2>1. PICK t \in Subs : Begins(q, t) /\ req'[q].pc \in {"mandate", "insert"} /\ req'[q].was = sub[t].status
    BY <1>4, FindActiveForm
  <2>2. QED BY <1>4, <1>b, <2>1 DEF FindActive
<1>5. ASSUME NEW q \in Requests, LoadToCancel(q) PROVE CacheOf(s)'
  <2>1. PICK t \in Subs : Begins(q, t) /\ req'[q].pc \in {"gateway", "cancel"} /\ req'[q].was = sub[t].status
    BY <1>5, LoadToCancelForm
  <2>2. QED BY <1>5, <1>b, <2>1 DEF LoadToCancel
<1>6. ASSUME NEW q \in Requests, NEW t \in Subs, FindCharged(q, t) PROVE CacheOf(s)'
  BY <1>6, <1>b, FindChargedForm DEF FindCharged
<1>7. ASSUME NEW q \in Requests, NEW t \in Subs, FindEnded(q, t) PROVE CacheOf(s)'
  BY <1>7, <1>b, FindEndedForm DEF FindEnded
<1>8. ASSUME NEW q \in Requests, NEW t \in Subs, FindRefused(q, t) PROVE CacheOf(s)'
  BY <1>8, <1>b, FindRefusedForm DEF FindRefused
<1>9. ASSUME NEW q \in Requests, Abort(q) PROVE CacheOf(s)'
  <2>1. Stops(q) /\ UNCHANGED <<sub, tenant>> /\ req[q].sub # s
    BY <1>9, AnswerForm DEF Abort
  <2>2. WorkOn(s)' = WorkOn(s) /\ \A p \in WorkOn(s) : req'[p] = req[p]
    BY <2>1 DEF Stops, Others, WorkOn, InFlight
  <2>3. QED BY <1>3, <2>1, <2>2, CacheFrame DEF Exists
<1>10. ASSUME UNCHANGED <<sub, tenant, req>> PROVE CacheOf(s)'
  BY <1>3, <1>10, WorkUntouched, CacheFrame DEF Exists
<1>11. ASSUME NEW q \in Requests, Advance(q) PROVE CacheOf(s)'
  <2>1. PICK t \in Subs :
          /\ t = req[q].sub /\ req[q].pc # "idle"
          /\ \A u \in Subs \ {t} : sub'[u] = sub[u]
    BY <1>11, AdvanceEffects
  <2>2. CASE t = s /\ Exists(s)
    BY <1>1, <1>3, <1>11, <2>1, <2>2, CacheAfterAdvance
  <2>3. CASE t = s /\ ~Exists(s)
    <3>1. req[q].pc \in {"mandate", "insert"}
      BY <2>1, <2>3 DEF LifeInv
    <3>2. CASE RegisterMandate(q)
      BY <2>3, <3>2, RegisterMandateForm DEF Exists
    <3>3. CASE InsertSubscription(q)
      <4>1. /\ GoesOn(q) /\ req'[q].pc = "cache" /\ req'[q].plan = req[q].plan
            /\ sub'[s].status = "trialing" /\ sub'[s].plan = req[q].plan
        <5>1. s = req[q].sub
          BY <2>1, <2>3
        <5>2. QED BY <3>3, <5>1, InsertSubscriptionForm
      <4>2. WorkOn(s)' = {q}
        <5>1. WorkOn(s)' = WorkOn(s) /\ q \in WorkOn(s)
          BY <2>1, <2>3, <4>1, WorkAfterGoingOn
        <5>2. QED BY <1>1, <5>1 DEF CrossInv
      <4>3. QED BY <4>1, <4>2 DEF CacheOf
    <3>4. QED BY <1>11, <3>1, <3>2, <3>3 DEF Advance, CacheNew, CancelMandate, SaveCancel, ClearCache,
             InsertReceipt, Renew, SyncTenant, SaveEnded, LoadRefused, SaveOverdue
  <2>4. CASE t # s
    <3>1. req[q].pc \in {"mandate", "insert"}
      BY <1>2, <2>1, <2>4 DEF LifeInv
    <3>2. RegisterMandate(q) \/ InsertSubscription(q)
      BY <1>11, <3>1 DEF Advance, CacheNew, CancelMandate, SaveCancel, ClearCache,
             InsertReceipt, Renew, SyncTenant, SaveEnded, LoadRefused, SaveOverdue
    <3>3. GoesOn(q) /\ tenant' = tenant
      BY <3>2, RegisterMandateForm, InsertSubscriptionForm
    <3>4. WorkOn(s)' = WorkOn(s) /\ \A p \in WorkOn(s) : req'[p] = req[p]
      BY <2>1, <2>4, <3>3, WorkAfterGoingOn DEF GoesOn, Others, WorkOn, InFlight
    <3>5. sub'[s] = sub[s] /\ Exists(s)
      BY <2>1, <2>4 DEF Exists
    <3>6. QED BY <1>3, <3>3, <3>4, <3>5, CacheFrame
  <2>5. QED BY <2>2, <2>3, <2>4
<1>12. QED BY <1>4, <1>5, <1>6, <1>7, <1>8, <1>9, <1>10, <1>11
          DEF Next, vars, ChargeMandate, EndMandate

(* With one subscription in the tenant's life, whatever was done to it by  *)
(* handlers that neither failed nor overlapped, the copy in Tenant agrees  *)
(* with it when they are through.                                          *)
THEOREM CacheIsInStep == Spec => []CacheAgrees
<1> DEFINE CInv == TypeInv /\ LifeInv /\ CrossInv /\ CacheInv
<1>1. Init => CInv
  BY InitTypeInv, InitLife, InitCross, InitCache
<1>2. CInv /\ [Next]_vars => CInv'
  BY NextTypeInv, NextLife, NextCross, NextCache
<1>3. CInv => CacheAgrees
  <2> SUFFICES ASSUME CInv, NEW s \in Subs, Exists(s), InFlight = {}, s \notin lapsed \cup crossed,
                      \A t \in Subs \ {s} : mandate[t] = "none" /\ ~Exists(t)
               PROVE  tenant.status = CacheFor(s)
    BY DEF CacheAgrees
  <2>1. CacheOf(s) /\ WorkOn(s) = {}
    BY DEF CacheInv, Only, WorkOn
  <2>2. QED BY <2>1 DEF CacheOf
<1>4. QED BY <1>1, <1>2, <1>3, PTL DEF Spec
=============================================================================
