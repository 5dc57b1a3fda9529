------------------------- MODULE ServiceRecordProofs -------------------------
(* Proofs about ServiceRecord for every set of jobs, technicians and       *)
(* concurrent requests, with failures and crashes at every await.          *)
EXTENDS ServiceRecord, FiniteSetTheorems, TLAPS

(* What a request in progress carries, beyond its type: the job it works   *)
(* on, an allowed transition to claim, a cost block to write.              *)
RequestShape(rq) ==
  /\ rq.pc # "idle" => rq.job \in Records
  /\ rq.pc = "claim" => rq.from \in Statuses /\ rq.to \in Statuses /\ canTransition(rq.from, rq.to)
  /\ rq.pc = "write" /\ HasCost(rq.patch) => rq.cost \in Cost

TypeInv == TypeOK /\ \A q \in Requests : RequestShape(req[q])

-----------------------------------------------------------------------------
LEMMA NoSnapIsTyped == NoSnap \in [Figures -> (SUBSET Entry) \cup {None}]
  BY DEF NoSnap

LEMMA NoPatchIsTyped == NoPatch \in Patch
  BY DEF NoPatch, Patch

LEMMA IdleIsTyped == Idle \in Request /\ RequestShape(Idle)
  BY NoSnapIsTyped, NoPatchIsTyped DEF Idle, Request, RequestShape, PCs

(* Every kind of request starts well formed. *)
LEMMA Started ==
  ASSUME NEW r \in Records
  PROVE  /\ \A pc \in {"schedule", "refresh"}, op \in OpNames, due \in SUBSET Counters :
              LET v == [Idle EXCEPT !.pc = pc, !.op = op, !.job = r, !.due = due]
              IN  v \in Request /\ RequestShape(v)
         /\ \A from, to \in Statuses :
              canTransition(from, to) =>
                LET v == [Idle EXCEPT !.pc = "claim", !.op = "status", !.job = r,
                                      !.from = from, !.to = to]
                IN  v \in Request /\ RequestShape(v)
         /\ \A patch \in Patch :
              LET v == [Idle EXCEPT !.pc = UpdateEntry(patch), !.op = "put",
                                    !.job = r, !.patch = patch]
              IN  v \in Request /\ RequestShape(v)
         /\ \A pc \in {"lines", "partLines"}, op \in OpNames, lines \in SUBSET Lines :
              LET v == [Idle EXCEPT !.pc = pc, !.op = op, !.job = r, !.lines = lines]
              IN  v \in Request /\ RequestShape(v)
<1>1. ASSUME NEW pc \in {"schedule", "refresh"}, NEW op \in OpNames, NEW due \in SUBSET Counters
      PROVE  LET v == [Idle EXCEPT !.pc = pc, !.op = op, !.job = r, !.due = due]
             IN  v \in Request /\ RequestShape(v)
  BY NoSnapIsTyped, NoPatchIsTyped DEF Idle, Request, RequestShape, PCs
<1>2. ASSUME NEW from \in Statuses, NEW to \in Statuses, canTransition(from, to)
      PROVE  LET v == [Idle EXCEPT !.pc = "claim", !.op = "status", !.job = r,
                                   !.from = from, !.to = to]
             IN  v \in Request /\ RequestShape(v)
  BY <1>2, NoSnapIsTyped, NoPatchIsTyped DEF Idle, Request, RequestShape, PCs, OpNames
<1>3. ASSUME NEW patch \in Patch
      PROVE  LET v == [Idle EXCEPT !.pc = UpdateEntry(patch), !.op = "put",
                                   !.job = r, !.patch = patch]
             IN  v \in Request /\ RequestShape(v)
  BY NoSnapIsTyped DEF Idle, Request, RequestShape, PCs, OpNames, UpdateEntry
<1>4. ASSUME NEW pc \in {"lines", "partLines"}, NEW op \in OpNames, NEW lines \in SUBSET Lines
      PROVE  LET v == [Idle EXCEPT !.pc = pc, !.op = op, !.job = r, !.lines = lines]
             IN  v \in Request /\ RequestShape(v)
  BY NoSnapIsTyped, NoPatchIsTyped DEF Idle, Request, RequestShape, PCs, OpNames
<1> QED BY <1>1, <1>2, <1>3, <1>4

LEMMA RecountIsTyped ==
  ASSUME rec \in [Records -> Job], NEW f
  PROVE  Recount(f) \in SUBSET Entry
  BY DEF Recount, Entry, Job, Live, Exists

LEMMA InitTypeInv == Init => TypeInv
<1> SUFFICES ASSUME Init PROVE TypeInv
  OBVIOUS
<1>1. (CHOOSE a \in Amounts : TRUE) \in Amounts
  BY ConstantsOK
<1>2. TypeOK
  BY <1>1, IdleIsTyped DEF Init, TypeOK, Job, Cost
<1>3. \A q \in Requests : RequestShape(req[q])
  BY IdleIsTyped DEF Init
<1> QED BY <1>2, <1>3 DEF TypeInv

(* A step that only replaces one request keeps the requests well formed.   *)
LEMMA OneRequest ==
  ASSUME TypeInv, NEW q \in Requests, NEW v \in Request, RequestShape(v),
         req' = [req EXCEPT ![q] = v]
  PROVE  /\ req' \in [Requests -> Request]
         /\ \A p \in Requests : RequestShape(req'[p])
  BY DEF TypeInv, TypeOK

LEMMA JobEdits ==
  ASSUME NEW j \in Job
  PROVE  /\ \A s \in Statuses : [j EXCEPT !.status = s] \in Job
         /\ \A d \in BOOLEAN : [j EXCEPT !.deleted = d] \in Job
         /\ \A n \in Ratings : [j EXCEPT !.rating = n] \in Job
         /\ \A ls \in SUBSET Lines :
              [j EXCEPT !.laborItems = ls] \in Job /\ [j EXCEPT !.partsReplaced = ls] \in Job
  BY DEF Job

(* A step that only edits one job keeps the collection well typed.         *)
LEMMA OneJob ==
  ASSUME rec \in [Records -> Job], NEW r \in Records, NEW j \in Job,
         rec' = [rec EXCEPT ![r] = j]
  PROVE  rec' \in [Records -> Job]
  OBVIOUS

LEMMA ArriveTypeInv ==
  ASSUME TypeInv, NEW q \in Requests, Arrive(q)
  PROVE  TypeInv'
<1> USE DEF TypeInv
<1>1. CASE Create(q)
  <2>1. PICK r \in Records, s \in Statuses, t \in Techs \cup {None}, p \in Amounts,
             l \in LaborFigures \cup {{}}, next \in BOOLEAN :
          /\ ~Exists(r)
          /\ rec' = [rec EXCEPT ![r] =
                      [status |-> s, deleted |-> FALSE, tech |-> t,
                       cost |-> [parts |-> p, labor |-> l], laborItems |-> {},
                       partsReplaced |-> {}, rating |-> None]]
          /\ req' = [req EXCEPT ![q] =
                      [Idle EXCEPT
                        !.pc = IF s = "completed" /\ next THEN "schedule" ELSE "refresh",
                        !.op = "create", !.job = r,
                        !.due = {"owner"} \cup TechCounter(t)]]
    BY <1>1 DEF Create
  <2>2. rec' \in [Records -> Job]
    <3>1. [status |-> s, deleted |-> FALSE, tech |-> t, cost |-> [parts |-> p, labor |-> l],
           laborItems |-> {}, partsReplaced |-> {}, rating |-> None] \in Job
      BY ConstantsOK DEF Job, Cost
    <3> QED BY <2>1, <3>1, OneJob DEF TypeOK
  <2>3. {"owner"} \cup TechCounter(t) \in SUBSET Counters
    BY DEF Counters, TechCounter
  <2>4. PICK v \in Request : RequestShape(v) /\ req' = [req EXCEPT ![q] = v]
    BY <2>1, <2>3, Started DEF OpNames
  <2> QED BY <1>1, <2>2, <2>4, OneRequest DEF Create, TypeOK
<1>2. CASE ReadStatus(q)
  <2>1. PICK r \in Records, to \in Statuses :
          /\ Live(r)
          /\ canTransition(rec[r].status, to)
          /\ req' = [req EXCEPT ![q] =
                      [Idle EXCEPT !.pc = "claim", !.op = "status", !.job = r,
                                   !.from = rec[r].status, !.to = to]]
    BY <1>2 DEF ReadStatus
  <2>2. rec[r].status \in Statuses
    BY <2>1 DEF TypeOK, Job, Live, Exists
  <2>3. PICK v \in Request : RequestShape(v) /\ req' = [req EXCEPT ![q] = v]
    BY <2>1, <2>2, Started
  <2> QED BY <1>2, <2>3, OneRequest DEF ReadStatus, TypeOK
<1>3. CASE Put(q)
  <2>1. PICK r \in Records, s \in PutStatuses \cup {None}, t \in Techs \cup {None},
             p \in Amounts \cup {None}, l \in LaborFigures \cup {None} :
          LET patch == [status |-> s, tech |-> t, parts |-> p, labor |-> l] IN
          /\ Exists(r)
          /\ patch # NoPatch
          /\ req' = [req EXCEPT ![q] =
                      [Idle EXCEPT !.pc = UpdateEntry(patch), !.op = "put",
                                   !.job = r, !.patch = patch]]
    BY <1>3 DEF Put
  <2> DEFINE patch == [status |-> s, tech |-> t, parts |-> p, labor |-> l]
  <2>2. patch \in Patch
    BY ConstantsOK DEF Patch
  <2> HIDE DEF patch
  <2>3. req' = [req EXCEPT ![q] =
                 [Idle EXCEPT !.pc = UpdateEntry(patch), !.op = "put",
                              !.job = r, !.patch = patch]]
    BY <2>1 DEF patch
  <2>4. PICK v \in Request : RequestShape(v) /\ req' = [req EXCEPT ![q] = v]
    BY <2>2, <2>3, Started
  <2> QED BY <1>3, <2>4, OneRequest DEF Put, TypeOK
<1>4. CASE ReadLabor(q)
  <2>1. PICK r \in Records, l \in Lines :
          req' = [req EXCEPT ![q] =
                   [Idle EXCEPT !.pc = "lines", !.op = "labor", !.job = r,
                                !.lines = rec[r].laborItems \cup {l}]]
    BY <1>4 DEF ReadLabor
  <2>2. rec[r].laborItems \cup {l} \in SUBSET Lines
    BY DEF TypeOK, Job
  <2>3. PICK v \in Request : RequestShape(v) /\ req' = [req EXCEPT ![q] = v]
    BY <2>1, <2>2, Started DEF OpNames
  <2> QED BY <1>4, <2>3, OneRequest DEF ReadLabor, TypeOK
<1>5. CASE ReadParts(q)
  <2>1. PICK r \in Records, l \in Lines :
          \E lines \in {rec[r].partsReplaced \cup {l}, rec[r].partsReplaced \ {l}} :
            req' = [req EXCEPT ![q] =
                     [Idle EXCEPT !.pc = "partLines", !.op = "parts",
                                  !.job = r, !.lines = lines]]
    BY <1>5 DEF ReadParts
  <2>2. PICK lines \in SUBSET Lines :
          req' = [req EXCEPT ![q] =
                   [Idle EXCEPT !.pc = "partLines", !.op = "parts",
                                !.job = r, !.lines = lines]]
    BY <2>1 DEF TypeOK, Job
  <2>3. PICK v \in Request : RequestShape(v) /\ req' = [req EXCEPT ![q] = v]
    BY <2>2, Started DEF OpNames
  <2> QED BY <1>5, <2>3, OneRequest DEF ReadParts, TypeOK
<1>6. CASE AddFeedback(q)
  <2>1. PICK r \in Records, n \in Ratings : rec' = [rec EXCEPT ![r].rating = n]
    BY <1>6 DEF AddFeedback
  <2>2. rec' \in [Records -> Job]
    BY <2>1, JobEdits, OneJob DEF TypeOK
  <2> QED BY <1>6, <2>2 DEF AddFeedback, TypeOK
<1>7. CASE Delete(q)
  <2>1. PICK r \in Records :
          /\ rec' = [rec EXCEPT ![r].deleted = TRUE]
          /\ req' = [req EXCEPT ![q] =
                      [Idle EXCEPT !.pc = "refresh", !.op = "delete", !.job = r,
                                   !.due = {"owner"} \cup TechCounter(rec[r].tech)]]
    BY <1>7 DEF Delete
  <2>2. rec' \in [Records -> Job]
    BY <2>1, JobEdits, OneJob DEF TypeOK
  <2>3. {"owner"} \cup TechCounter(rec[r].tech) \in SUBSET Counters
    BY DEF Counters, TechCounter, TypeOK, Job
  <2>4. PICK v \in Request : RequestShape(v) /\ req' = [req EXCEPT ![q] = v]
    BY <2>1, <2>3, Started DEF OpNames
  <2> QED BY <1>7, <2>2, <2>4, OneRequest DEF Delete, TypeOK
<1> QED BY <1>1, <1>2, <1>3, <1>4, <1>5, <1>6, <1>7 DEF Arrive

(* The edits a request in progress makes to its own slot.                  *)
LEMMA RequestEdits ==
  ASSUME NEW x \in Request, RequestShape(x), x.pc # "idle"
  PROVE  /\ \A pc \in {"odometer", "reading", "refresh"} :
              LET v == [x EXCEPT !.pc = pc] IN v \in Request /\ RequestShape(v)
         /\ \A pc \in {"schedule", "refresh"}, due \in SUBSET Counters :
              LET v == [x EXCEPT !.pc = pc, !.due = due] IN v \in Request /\ RequestShape(v)
         /\ \A t \in Techs \cup {None} :
              LET v == [x EXCEPT !.prev = t, !.pc = IF HasCost(x.patch) THEN "cost" ELSE "write"]
              IN  v \in Request /\ RequestShape(v)
         /\ \A c \in Cost :
              LET v == [x EXCEPT !.cost = c, !.pc = "write"] IN v \in Request /\ RequestShape(v)
         /\ \A patch \in Patch :
              LET v == [x EXCEPT !.pc = "cost", !.patch = patch]
              IN  v \in Request /\ RequestShape(v)
<1>1. ASSUME NEW pc \in {"odometer", "reading", "refresh"}
      PROVE  LET v == [x EXCEPT !.pc = pc] IN v \in Request /\ RequestShape(v)
  BY DEF Request, RequestShape, PCs
<1>2. ASSUME NEW pc \in {"schedule", "refresh"}, NEW due \in SUBSET Counters
      PROVE  LET v == [x EXCEPT !.pc = pc, !.due = due] IN v \in Request /\ RequestShape(v)
  BY DEF Request, RequestShape, PCs
<1>3. ASSUME NEW t \in Techs \cup {None}
      PROVE  LET v == [x EXCEPT !.prev = t, !.pc = IF HasCost(x.patch) THEN "cost" ELSE "write"]
             IN  v \in Request /\ RequestShape(v)
  <2> DEFINE pc == IF HasCost(x.patch) THEN "cost" ELSE "write"
             v  == [x EXCEPT !.prev = t, !.pc = pc]
  <2>1. pc \in PCs \ {"idle", "claim"} /\ (pc = "write" => ~HasCost(x.patch))
    BY DEF PCs
  <2> HIDE DEF pc
  <2>2. v \in Request
    BY <2>1 DEF Request
  <2>3. v.pc = pc /\ v.job = x.job /\ v.patch = x.patch
    BY DEF Request
  <2>4. RequestShape(v)
    BY <2>1, <2>3 DEF RequestShape
  <2> QED BY <2>2, <2>4 DEF pc
<1>4. ASSUME NEW c \in Cost
      PROVE  LET v == [x EXCEPT !.cost = c, !.pc = "write"] IN v \in Request /\ RequestShape(v)
  BY DEF Request, RequestShape, PCs
<1>5. ASSUME NEW patch \in Patch
      PROVE  LET v == [x EXCEPT !.pc = "cost", !.patch = patch]
             IN  v \in Request /\ RequestShape(v)
  BY DEF Request, RequestShape, PCs
<1> QED BY <1>1, <1>2, <1>3, <1>4, <1>5

(* A refresh fills in and forgets figures; nothing else of it changes.     *)
LEMMA SnapEdits ==
  ASSUME NEW x \in Request, RequestShape(x)
  PROVE  /\ \A f \in Figures, e \in SUBSET Entry :
              LET v == [x EXCEPT !.snap[f] = e] IN v \in Request /\ RequestShape(v)
         /\ \A c \in Counters :
              LET v == [x EXCEPT !.due = @ \ {c},
                                 !.snap = [f \in Figures |-> IF f \in FiguresOf(c) THEN None ELSE @[f]]]
              IN  v \in Request /\ RequestShape(v)
<1>1. ASSUME NEW f \in Figures, NEW e \in SUBSET Entry
      PROVE  LET v == [x EXCEPT !.snap[f] = e] IN v \in Request /\ RequestShape(v)
  <2>1. [x.snap EXCEPT ![f] = e] \in [Figures -> (SUBSET Entry) \cup {None}]
    BY DEF Request
  <2> QED BY <2>1 DEF Request, RequestShape
<1>2. ASSUME NEW c \in Counters
      PROVE  LET v == [x EXCEPT !.due = @ \ {c},
                         !.snap = [f \in Figures |-> IF f \in FiguresOf(c) THEN None ELSE @[f]]]
             IN  v \in Request /\ RequestShape(v)
  <2>1. [f \in Figures |-> IF f \in FiguresOf(c) THEN None ELSE x.snap[f]]
          \in [Figures -> (SUBSET Entry) \cup {None}]
    BY DEF Request
  <2> QED BY <2>1 DEF Request, RequestShape
<1> QED BY <1>1, <1>2

LEMMA AnswerTypeInv ==
  ASSUME TypeInv, NEW q \in Requests, Answer(q)
  PROVE  /\ req' \in [Requests -> Request]
         /\ \A p \in Requests : RequestShape(req'[p])
  BY IdleIsTyped, OneRequest DEF Answer

LEMMA ForgetTypeInv ==
  ASSUME TypeInv, NEW q \in Requests, NEW c \in Counters, ForgetCounter(q, c)
  PROVE  /\ req' \in [Requests -> Request]
         /\ \A p \in Requests : RequestShape(req'[p])
<1>1. req[q] \in Request /\ RequestShape(req[q])
  BY DEF TypeInv, TypeOK
<1>2. req' = [req EXCEPT ![q] =
               [req[q] EXCEPT !.due = @ \ {c},
                  !.snap = [f \in Figures |-> IF f \in FiguresOf(c) THEN None ELSE @[f]]]]
  BY DEF ForgetCounter, TypeInv, TypeOK
<1>3. PICK v \in Request : RequestShape(v) /\ req' = [req EXCEPT ![q] = v]
  BY <1>1, <1>2, SnapEdits
<1> QED BY <1>3, OneRequest

LEMMA AdvanceTypeInv ==
  ASSUME TypeInv, NEW q \in Requests, Advance(q)
  PROVE  TypeInv'
<1> USE DEF TypeInv
<1> DEFINE x == req[q]
<1>0. /\ x \in Request /\ RequestShape(x)
      /\ x.pc # "idle" => x.job \in Records /\ rec[x.job] \in Job
  BY DEF TypeOK, RequestShape
<1>1. CASE ClaimStatus(q)
  <2>1. CASE ClaimMatches(q)
    <3>1. rec' = [rec EXCEPT ![x.job] = [rec[x.job] EXCEPT !.status = x.to]]
      BY <1>1, <2>1 DEF ClaimStatus, TypeOK
    <3>2. rec' \in [Records -> Job]
      BY <1>0, <1>1, <3>1, JobEdits, OneJob DEF ClaimStatus, TypeOK, RequestShape
    <3>3. {"owner"} \cup TechCounter(rec[x.job].tech) \in SUBSET Counters
      BY <1>0, <1>1 DEF ClaimStatus, Counters, TechCounter, Job
    <3>4. CASE x.to = "completed"
      <4>1. req' = [req EXCEPT ![q] = [x EXCEPT !.pc = "schedule",
                      !.due = {"owner"} \cup TechCounter(rec[x.job].tech)]]
        BY <1>1, <2>1, <3>4 DEF ClaimStatus, TypeOK
      <4>2. PICK v \in Request : RequestShape(v) /\ req' = [req EXCEPT ![q] = v]
        BY <1>0, <1>1, <3>3, <4>1, RequestEdits DEF ClaimStatus
      <4> QED BY <1>1, <3>2, <4>2, OneRequest DEF ClaimStatus, TypeOK
    <3>5. CASE x.to # "completed"
      BY <1>1, <2>1, <3>2, <3>5, AnswerTypeInv DEF ClaimStatus, TypeOK
    <3> QED BY <3>4, <3>5
  <2>2. CASE ~ClaimMatches(q)
    BY <1>1, <2>2, AnswerTypeInv DEF ClaimStatus, TypeOK
  <2> QED BY <2>1, <2>2
<1>2. CASE WriteSchedule(q)
  <2>1. req' = [req EXCEPT ![q] = [x EXCEPT !.pc = "odometer"]]
    BY <1>2 DEF WriteSchedule, TypeOK
  <2>2. PICK v \in Request : RequestShape(v) /\ req' = [req EXCEPT ![q] = v]
    BY <1>0, <1>2, <2>1, RequestEdits DEF WriteSchedule
  <2> QED BY <1>0, <1>2, <2>2, OneRequest DEF WriteSchedule, TypeOK
<1>3. CASE WriteOdometer(q)
  <2>1. req' = [req EXCEPT ![q] = [x EXCEPT !.pc = "reading"]]
    BY <1>3 DEF WriteOdometer, TypeOK
  <2>2. PICK v \in Request : RequestShape(v) /\ req' = [req EXCEPT ![q] = v]
    BY <1>0, <1>3, <2>1, RequestEdits DEF WriteOdometer
  <2> QED BY <1>0, <1>3, <2>2, OneRequest DEF WriteOdometer, TypeOK
<1>4. CASE InsertReading(q)
  <2>1. req' = [req EXCEPT ![q] = [x EXCEPT !.pc = "refresh"]]
    BY <1>4 DEF InsertReading, TypeOK
  <2>2. PICK v \in Request : RequestShape(v) /\ req' = [req EXCEPT ![q] = v]
    BY <1>0, <1>4, <2>1, RequestEdits DEF InsertReading
  <2>3. readings' \in [Records -> Nat]
    BY <1>0, <1>4 DEF InsertReading, TypeOK
  <2> QED BY <1>4, <2>2, <2>3, OneRequest DEF InsertReading, TypeOK
<1>5. CASE ReadPreviousTech(q)
  <2>1. req' = [req EXCEPT ![q] =
                 [x EXCEPT !.prev = rec[x.job].tech,
                           !.pc = IF HasCost(x.patch) THEN "cost" ELSE "write"]]
    BY <1>5 DEF ReadPreviousTech, TypeOK
  <2>2. rec[x.job].tech \in Techs \cup {None}
    BY <1>0, <1>5 DEF ReadPreviousTech, Job
  <2>3. PICK v \in Request : RequestShape(v) /\ req' = [req EXCEPT ![q] = v]
    BY <1>0, <1>5, <2>1, <2>2, RequestEdits DEF ReadPreviousTech
  <2> QED BY <1>5, <2>3, OneRequest DEF ReadPreviousTech, TypeOK
<1>6. CASE ReadCost(q)
  <2> DEFINE stored == rec[x.job].cost
             c == [parts |-> IF x.patch.parts # None THEN x.patch.parts ELSE stored.parts,
                   labor |-> IF x.patch.labor # None THEN x.patch.labor ELSE stored.labor]
  <2>1. stored \in Cost /\ x.patch \in Patch
    BY <1>0, <1>6 DEF ReadCost, Job, Request
  <2>2. c \in Cost
    BY <2>1 DEF Cost, Patch
  <2>3. req' = [req EXCEPT ![q] = [x EXCEPT !.cost = c, !.pc = "write"]]
    BY <1>6 DEF ReadCost, TypeOK
  <2> HIDE DEF c
  <2>4. PICK v \in Request : RequestShape(v) /\ req' = [req EXCEPT ![q] = v]
    BY <1>0, <1>6, <2>2, <2>3, RequestEdits DEF ReadCost
  <2> QED BY <1>6, <2>4, OneRequest DEF ReadCost, TypeOK
<1>7. CASE WriteUpdate(q)
  <2>1. x.patch \in Patch /\ rec[x.job] \in Job /\ x.job \in Records
    BY <1>0, <1>7 DEF WriteUpdate, Request
  <2>2. HasCost(x.patch) => x.cost \in Cost
    BY <1>0, <1>7 DEF WriteUpdate, RequestShape
  <2>3. Updated(q) \in Job
    <3> DEFINE job    == rec[x.job]
               status == IF x.patch.status # None THEN x.patch.status ELSE job.status
               tech   == IF x.patch.tech # None THEN x.patch.tech ELSE job.tech
               cost   == IF HasCost(x.patch) THEN x.cost ELSE job.cost
    <3>1. status \in Statuses \cup {"absent"} /\ tech \in Techs \cup {None} /\ cost \in Cost
      BY <2>1, <2>2 DEF Job, Patch
    <3>2. Updated(q) = [job EXCEPT !.status = status, !.tech = tech, !.cost = cost]
      BY DEF Updated
    <3> HIDE DEF status, tech, cost
    <3> QED BY <2>1, <3>1, <3>2 DEF Job
  <2>4. rec' \in [Records -> Job]
    BY <1>7, <2>1, <2>3, OneJob DEF WriteUpdate, TypeOK
  <2>5. UpdateDue(q) \in SUBSET Counters
    <3>1. Updated(q).tech \in Techs \cup {None} /\ x.prev \in Techs \cup {None}
      BY <1>0, <2>3 DEF Job, Request
    <3> QED BY <3>1 DEF UpdateDue, Counters, TechCounter
  <2>6. req' = [req EXCEPT ![q] = [x EXCEPT !.pc = "refresh", !.due = UpdateDue(q)]]
    BY <1>7 DEF WriteUpdate, TypeOK
  <2>7. PICK v \in Request : RequestShape(v) /\ req' = [req EXCEPT ![q] = v]
    BY <1>0, <1>7, <2>5, <2>6, RequestEdits DEF WriteUpdate
  <2> QED BY <1>7, <2>4, <2>7, OneRequest DEF WriteUpdate, TypeOK
<1>8. CASE WriteLabor(q)
  <2>1. rec' = [rec EXCEPT ![x.job] = [rec[x.job] EXCEPT !.laborItems = x.lines]]
    BY <1>8 DEF WriteLabor, TypeOK
  <2>2. x.lines \in SUBSET Lines
    BY <1>0 DEF Request
  <2>3. rec' \in [Records -> Job]
    BY <1>0, <1>8, <2>1, <2>2, JobEdits, OneJob DEF WriteLabor, TypeOK
  <2> DEFINE patch == [NoPatch EXCEPT !.labor = x.lines]
  <2>4. patch \in Patch
    BY <2>2 DEF NoPatch, Patch
  <2>5. req' = [req EXCEPT ![q] = [x EXCEPT !.pc = "cost", !.patch = patch]]
    BY <1>8 DEF WriteLabor, TypeOK
  <2> HIDE DEF patch
  <2>6. PICK v \in Request : RequestShape(v) /\ req' = [req EXCEPT ![q] = v]
    BY <1>0, <1>8, <2>4, <2>5, RequestEdits DEF WriteLabor
  <2> QED BY <1>8, <2>3, <2>6, OneRequest DEF WriteLabor, TypeOK
<1>9. CASE WriteParts(q)
  <2>1. rec' = [rec EXCEPT ![x.job] = [rec[x.job] EXCEPT !.partsReplaced = x.lines]]
    BY <1>9 DEF WriteParts, TypeOK
  <2>2. x.lines \in SUBSET Lines
    BY <1>0 DEF Request
  <2>3. rec' \in [Records -> Job]
    BY <1>0, <1>9, <2>1, <2>2, JobEdits, OneJob DEF WriteParts, TypeOK
  <2> QED BY <1>9, <2>3, AnswerTypeInv DEF WriteParts, TypeOK
<1>10. CASE \E c \in Counters : \E f \in FiguresOf(c) : QueryFigure(q, c, f)
  <2>1. PICK c \in Counters : \E f \in FiguresOf(c) : QueryFigure(q, c, f)
    BY <1>10
  <2>2. PICK f \in Figures : QueryFigure(q, c, f)
    BY <2>1 DEF FiguresOf, Figures, Counters
  <2>3. req' = [req EXCEPT ![q] = [x EXCEPT !.snap[f] = Recount(f)]]
    BY <2>2 DEF QueryFigure, TypeOK
  <2>4. Recount(f) \in SUBSET Entry
    BY RecountIsTyped DEF TypeOK
  <2>5. PICK v \in Request : RequestShape(v) /\ req' = [req EXCEPT ![q] = v]
    BY <1>0, <2>3, <2>4, SnapEdits
  <2> QED BY <2>2, <2>5, OneRequest DEF QueryFigure, TypeOK
<1>11. CASE \E c \in Counters : StoreCounter(q, c)
  <2>1. PICK c \in Counters : StoreCounter(q, c)
    BY <1>11
  <2>2. stats' \in [Figures -> SUBSET Entry]
    <3>1. \A f \in Figures : f \in FiguresOf(c) => x.snap[f] \in SUBSET Entry
      BY <1>0, <2>1 DEF StoreCounter, Request
    <3> QED BY <2>1, <3>1 DEF StoreCounter, TypeOK
  <2> QED BY <2>1, <2>2, ForgetTypeInv DEF StoreCounter, TypeOK
<1>12. CASE FinishRequest(q)
  BY <1>12, AnswerTypeInv DEF FinishRequest, TypeOK
<1>13. CASE BookRevenue(q)
  <2>1. center' \in [Records -> Nat]
    BY <1>0, <1>13 DEF BookRevenue, TypeOK
  <2> QED BY <1>13, <2>1, AnswerTypeInv DEF BookRevenue, TypeOK
<1> QED BY <1>1, <1>2, <1>3, <1>4, <1>5, <1>6, <1>7, <1>8, <1>9, <1>10, <1>11, <1>12, <1>13
        DEF Advance

LEMMA NextTypeInv == TypeInv /\ [Next]_vars => TypeInv'
<1> SUFFICES ASSUME TypeInv, [Next]_vars PROVE TypeInv'
  OBVIOUS
<1>1. CASE UNCHANGED vars
  BY <1>1 DEF TypeInv, TypeOK, vars
<1>2. ASSUME NEW q \in Requests, Arrive(q) PROVE TypeInv'
  BY <1>2, ArriveTypeInv
<1>3. ASSUME NEW q \in Requests, Advance(q) PROVE TypeInv'
  BY <1>3, AdvanceTypeInv
<1>4. ASSUME NEW q \in Requests, NEW c \in Counters, RefreshFails(q, c) PROVE TypeInv'
  BY <1>4, ForgetTypeInv DEF RefreshFails, TypeInv, TypeOK
<1>5. ASSUME NEW q \in Requests, Abort(q) PROVE TypeInv'
  BY <1>5, AnswerTypeInv DEF Abort, TypeInv, TypeOK
<1> QED BY <1>1, <1>2, <1>3, <1>4, <1>5 DEF Next

(* Every reachable state is well typed, whatever requests interleave and   *)
(* fail: a job keeps a legal status, a figure only ever sums existing jobs,*)
(* and a request in progress carries what its next await needs.            *)
THEOREM TypeCorrect == Spec => []TypeOK
<1>1. TypeInv => TypeOK
  BY DEF TypeInv
<1> QED BY <1>1, InitTypeInv, NextTypeInv, PTL DEF Spec

-----------------------------------------------------------------------------
(* The one-time effects.  The claim is a conditional write and `completed` *)
(* has no way out, so a job is completed once and one request, the winner, *)
(* runs its effects, in the order reading first, revenue last.             *)

(* A request that is running the effects of a finished job.                *)
Completing(rq) ==
  \/ rq.pc \in {"schedule", "odometer", "reading"}
  \/ rq.pc = "refresh" /\ rq.op = "status"

(* Its job is completed, and has the effects the request is past.          *)
EffectsShape(rq) ==
  /\ rq.patch.status = None
  /\ rq.pc = "claim" => rq.op = "status"
  /\ rq.pc \in {"prevTech", "cost", "write", "lines"} => rq.op # "status"
  /\ Completing(rq) =>
       /\ rec[rq.job].status = "completed"
       /\ center[rq.job] = 0
       /\ readings[rq.job] = IF rq.pc = "refresh" THEN 1 ELSE 0

(* A job that is not completed has had no effect.                          *)
JobShape(r) ==
  /\ center[r] <= readings[r] /\ readings[r] <= 1
  /\ rec[r].status # "completed" =>
       readings[r] = 0 /\ vehicle.schedule # r /\ vehicle.odometer # r

EffectsInv ==
  /\ \A q \in Requests : EffectsShape(req[q])
  /\ \A p, q \in Requests :
       p # q /\ Completing(req[p]) /\ Completing(req[q]) => req[p].job # req[q].job
  /\ \A r \in Records : JobShape(r)

LEMMA InitEffects == Init => EffectsInv
  BY ConstantsOK DEF Init, EffectsInv, EffectsShape, JobShape, Completing, Idle, NoPatch

(* A step that touches no status and no effect, and starts no completion.  *)
LEMMA EffectsFrame ==
  ASSUME TypeInv, EffectsInv, NEW q \in Requests,
         \A p \in Requests \ {q} : req'[p] = req[p],
         \A r \in Records : rec'[r].status = rec[r].status,
         UNCHANGED <<center, vehicle, readings>>,
         EffectsShape(req[q])',
         Completing(req'[q]) => Completing(req[q]) /\ req'[q].job = req[q].job
  PROVE  EffectsInv'
<1>1. ASSUME NEW p \in Requests, p # q PROVE EffectsShape(req[p])'
  <2>1. EffectsShape(req[p])
    BY DEF EffectsInv
  <2>2. Completing(req[p]) => req[p].job \in Records
    BY DEF Completing, TypeInv, RequestShape
  <2> QED BY <1>1, <2>1, <2>2 DEF EffectsShape, Completing
<1>2. ASSUME NEW p1 \in Requests, NEW p2 \in Requests, p1 # p2,
             Completing(req'[p1]), Completing(req'[p2])
      PROVE  req'[p1].job # req'[p2].job
  <2>1. \A p \in Requests : Completing(req'[p]) => Completing(req[p]) /\ req'[p].job = req[p].job
    BY DEF Completing
  <2> QED BY <1>2, <2>1 DEF EffectsInv
<1>3. ASSUME NEW r \in Records PROVE JobShape(r)'
  BY DEF EffectsInv, JobShape
<1> QED BY <1>1, <1>2, <1>3 DEF EffectsInv, Completing

LEMMA AnswerEffects ==
  ASSUME TypeInv, EffectsInv, NEW q \in Requests, Answer(q),
         \A r \in Records : rec'[r].status = rec[r].status,
         UNCHANGED <<center, vehicle, readings>>
  PROVE  EffectsInv'
<1>1. req'[q] = Idle /\ \A p \in Requests \ {q} : req'[p] = req[p]
  BY DEF Answer, TypeInv, TypeOK
<1>2. EffectsShape(req[q])' /\ ~Completing(req'[q])
  BY <1>1 DEF EffectsShape, Completing, Idle, NoPatch
<1> QED BY <1>1, <1>2, EffectsFrame

LEMMA ArriveEffects ==
  ASSUME PutStatuses = {}, TypeInv, EffectsInv, NEW q \in Requests, Arrive(q)
  PROVE  EffectsInv'
<1>1. CASE Create(q)
  <2>1. PICK r \in Records, s \in Statuses :
          /\ ~Exists(r)
          /\ rec'[r].status = s
          /\ \A x \in Records \ {r} : rec'[x] = rec[x]
          /\ req'[q].job = r
          /\ req'[q].patch = NoPatch
          /\ req'[q].op = "create"
          /\ req'[q].pc = "refresh" \/ (req'[q].pc = "schedule" /\ s = "completed")
    BY <1>1 DEF Create, Idle, TypeInv, TypeOK
  <2>2. \A p \in Requests \ {q} : req'[p] = req[p]
    BY <1>1 DEF Create, TypeInv, TypeOK
  <2>3. UNCHANGED <<center, vehicle, readings>>
    BY <1>1 DEF Create
  <2>4. rec[r].status # "completed" /\ center[r] = 0 /\ readings[r] = 0
    BY <2>1 DEF Exists, EffectsInv, JobShape, TypeInv, TypeOK
  <2>5. ASSUME NEW p \in Requests, p # q, Completing(req[p])
        PROVE  req[p].job \in Records /\ req[p].job # r
    BY <2>4, <2>5 DEF EffectsInv, EffectsShape, TypeInv, RequestShape, Completing
  <2>6. ASSUME NEW p \in Requests, p # q PROVE EffectsShape(req[p])'
    <3>1. EffectsShape(req[p])
      BY DEF EffectsInv
    <3> QED BY <2>1, <2>2, <2>3, <2>5, <2>6, <3>1 DEF EffectsShape, Completing
  <2>7. EffectsShape(req[q])'
    BY <2>1, <2>3, <2>4 DEF EffectsShape, Completing, NoPatch
  <2>8. ASSUME NEW p1 \in Requests, NEW p2 \in Requests, p1 # p2,
               Completing(req'[p1]), Completing(req'[p2])
        PROVE  req'[p1].job # req'[p2].job
    BY <2>1, <2>2, <2>5, <2>8 DEF EffectsInv
  <2>9. ASSUME NEW x \in Records PROVE JobShape(x)'
    BY <2>1, <2>3 DEF EffectsInv, JobShape, Exists
  <2> QED BY <2>6, <2>7, <2>8, <2>9 DEF EffectsInv, Completing
<1>2. CASE ReadStatus(q)
  <2>1. \A p \in Requests \ {q} : req'[p] = req[p]
    BY <1>2 DEF ReadStatus, TypeInv, TypeOK
  <2>2. EffectsShape(req[q])' /\ ~Completing(req'[q])
    BY <1>2 DEF ReadStatus, EffectsShape, Completing, Idle, NoPatch, TypeInv, TypeOK
  <2> QED BY <1>2, <2>1, <2>2, EffectsFrame DEF ReadStatus, TypeInv, TypeOK
<1>3. CASE Put(q)
  <2>1. \A p \in Requests \ {q} : req'[p] = req[p]
    BY <1>3 DEF Put, TypeInv, TypeOK
  <2>2. EffectsShape(req[q])' /\ ~Completing(req'[q])
    BY <1>3 DEF Put, UpdateEntry, EffectsShape, Completing, Idle, NoPatch, TypeInv, TypeOK
  <2> QED BY <1>3, <2>1, <2>2, EffectsFrame DEF Put, TypeInv, TypeOK
<1>4. CASE ReadLabor(q)
  <2>1. \A p \in Requests \ {q} : req'[p] = req[p]
    BY <1>4 DEF ReadLabor, TypeInv, TypeOK
  <2>2. EffectsShape(req[q])' /\ ~Completing(req'[q])
    BY <1>4 DEF ReadLabor, EffectsShape, Completing, Idle, NoPatch, TypeInv, TypeOK
  <2> QED BY <1>4, <2>1, <2>2, EffectsFrame DEF ReadLabor, TypeInv, TypeOK
<1>5. CASE ReadParts(q)
  <2>1. \A p \in Requests \ {q} : req'[p] = req[p]
    BY <1>5 DEF ReadParts, TypeInv, TypeOK
  <2>2. EffectsShape(req[q])' /\ ~Completing(req'[q])
    BY <1>5 DEF ReadParts, EffectsShape, Completing, Idle, NoPatch, TypeInv, TypeOK
  <2> QED BY <1>5, <2>1, <2>2, EffectsFrame DEF ReadParts, TypeInv, TypeOK
<1>6. CASE AddFeedback(q)
  <2>1. \A r \in Records : rec'[r].status = rec[r].status
    BY <1>6 DEF AddFeedback, TypeInv, TypeOK, Job
  <2>2. EffectsShape(req[q])
    BY DEF EffectsInv
  <2>3. Completing(req[q]) => req[q].job \in Records
    BY DEF Completing, TypeInv, RequestShape
  <2>4. UNCHANGED <<center, vehicle, readings, req>>
    BY <1>6 DEF AddFeedback
  <2>5. EffectsShape(req[q])'
    BY <2>1, <2>2, <2>3, <2>4 DEF EffectsShape, Completing
  <2> QED BY <2>1, <2>4, <2>5, EffectsFrame
<1>7. CASE Delete(q)
  <2>1. \A p \in Requests \ {q} : req'[p] = req[p]
    BY <1>7 DEF Delete, TypeInv, TypeOK
  <2>2. EffectsShape(req[q])' /\ ~Completing(req'[q])
    BY <1>7 DEF Delete, EffectsShape, Completing, Idle, NoPatch, TypeInv, TypeOK
  <2>3. \A r \in Records : rec'[r].status = rec[r].status
    BY <1>7 DEF Delete, TypeInv, TypeOK, Job
  <2> QED BY <1>7, <2>1, <2>2, <2>3, EffectsFrame DEF Delete
<1> QED BY <1>1, <1>2, <1>3, <1>4, <1>5, <1>6, <1>7 DEF Arrive

(* The steps of a request that runs, or ends, the effects of its job.      *)
LEMMA CompletionEffects ==
  ASSUME TypeInv, EffectsInv, NEW q \in Requests,
         \/ WriteSchedule(q) \/ WriteOdometer(q) \/ InsertReading(q) \/ BookRevenue(q)
  PROVE  EffectsInv'
<1> DEFINE x == req[q]
<1>1. /\ x.job \in Records /\ EffectsShape(x) /\ Completing(x)
      /\ rec[x.job].status = "completed" /\ center[x.job] = 0
  BY DEF WriteSchedule, WriteOdometer, InsertReading, BookRevenue, Completing, EffectsInv,
         EffectsShape, TypeInv, RequestShape
<1>2. /\ rec' = rec
      /\ \A p \in Requests \ {q} : req'[p] = req[p]
      /\ \A r \in Records \ {x.job} : center'[r] = center[r] /\ readings'[r] = readings[r]
      /\ \A r \in Records \ {x.job} :
           /\ vehicle'.schedule = r => vehicle.schedule = r
           /\ vehicle'.odometer = r => vehicle.odometer = r
  BY <1>1 DEF WriteSchedule, WriteOdometer, InsertReading, BookRevenue, Answer, TypeInv, TypeOK
<1>3. \A p \in Requests : p # q /\ Completing(req[p]) => req[p].job \in Records \ {x.job}
  BY <1>1 DEF EffectsInv, Completing, TypeInv, RequestShape
<1>4. ASSUME NEW p \in Requests, p # q PROVE EffectsShape(req[p])'
  <2>1. EffectsShape(req[p])
    BY DEF EffectsInv
  <2> QED BY <1>2, <1>3, <1>4, <2>1 DEF EffectsShape, Completing
<1>5. EffectsShape(req[q])' /\ (Completing(req'[q]) => req'[q].job = x.job)
  <2>1. CASE WriteSchedule(q) \/ WriteOdometer(q)
    <3>1. /\ req'[q].pc \in {"odometer", "reading"} /\ req'[q].op = x.op
          /\ req'[q].job = x.job /\ req'[q].patch = x.patch
          /\ x.pc \in {"schedule", "odometer"} /\ center' = center /\ readings' = readings
      BY <2>1 DEF WriteSchedule, WriteOdometer, TypeInv, TypeOK, Request
    <3> QED BY <1>1, <1>2, <3>1 DEF EffectsShape, Completing
  <2>2. CASE InsertReading(q)
    BY <1>1, <2>2 DEF InsertReading, EffectsShape, Completing, TypeInv, TypeOK
  <2>3. CASE BookRevenue(q)
    BY <2>3 DEF BookRevenue, Answer, Idle, NoPatch, EffectsShape, Completing, TypeInv, TypeOK
  <2> QED BY <2>1, <2>2, <2>3
<1>6. ASSUME NEW r \in Records PROVE JobShape(r)'
  <2>1. CASE r # x.job
    BY <1>2, <2>1 DEF EffectsInv, JobShape
  <2>2. CASE r = x.job
    <3>1. center'[r] <= readings'[r] /\ readings'[r] <= 1
      BY <1>1, <2>2 DEF WriteSchedule, WriteOdometer, InsertReading, BookRevenue, EffectsShape,
                        Completing, TypeInv, TypeOK
    <3> QED BY <1>1, <1>2, <2>2, <3>1 DEF JobShape
  <2> QED BY <2>1, <2>2
<1>7. ASSUME NEW p1 \in Requests, NEW p2 \in Requests, p1 # p2,
             Completing(req'[p1]), Completing(req'[p2])
      PROVE  req'[p1].job # req'[p2].job
  BY <1>2, <1>3, <1>5, <1>7 DEF EffectsInv
<1> QED BY <1>4, <1>5, <1>6, <1>7 DEF EffectsInv, Completing

LEMMA ClaimEffects ==
  ASSUME TypeInv, EffectsInv, NEW q \in Requests, ClaimStatus(q)
  PROVE  EffectsInv'
<1> DEFINE x == req[q]
<1>1. /\ x.job \in Records /\ EffectsShape(x) /\ x.pc = "claim" /\ x.op = "status"
      /\ x.from # "completed"
  BY DEF ClaimStatus, EffectsInv, EffectsShape, TypeInv, RequestShape, canTransition, Allowed
<1>2. CASE ~ClaimMatches(q)
  BY <1>2, AnswerEffects DEF ClaimStatus
<1>3. CASE ClaimMatches(q)
  <2>1. /\ rec[x.job].status # "completed" /\ rec'[x.job].status = x.to
        /\ \A r \in Records \ {x.job} : rec'[r] = rec[r]
        /\ \A p \in Requests \ {q} : req'[p] = req[p]
        /\ UNCHANGED <<center, vehicle, readings>>
    BY <1>1, <1>3 DEF ClaimStatus, ClaimMatches, Answer, TypeInv, TypeOK, Job
  <2>2. readings[x.job] = 0 /\ center[x.job] = 0
    BY <1>1, <2>1 DEF EffectsInv, JobShape, TypeInv, TypeOK
  <2>3. \A p \in Requests : p # q /\ Completing(req[p]) => req[p].job \in Records \ {x.job}
    BY <2>1 DEF EffectsInv, EffectsShape, Completing, TypeInv, RequestShape
  <2>4. ASSUME NEW p \in Requests, p # q PROVE EffectsShape(req[p])'
    <3>1. EffectsShape(req[p])
      BY DEF EffectsInv
    <3> QED BY <2>1, <2>3, <2>4, <3>1 DEF EffectsShape, Completing
  <2>5. EffectsShape(req[q])' /\ (Completing(req'[q]) => req'[q].job = x.job)
    <3>1. CASE x.to = "completed"
      <4>1. /\ req'[q].pc = "schedule" /\ req'[q].op = x.op
            /\ req'[q].job = x.job /\ req'[q].patch = x.patch
        BY <1>3, <3>1 DEF ClaimStatus, TypeInv, TypeOK, Request
      <4> QED BY <1>1, <2>1, <2>2, <3>1, <4>1 DEF EffectsShape, Completing
    <3>2. CASE x.to # "completed"
      BY <1>3, <3>2 DEF ClaimStatus, Answer, Idle, NoPatch, EffectsShape, Completing, TypeInv, TypeOK
    <3> QED BY <3>1, <3>2
  <2>6. ASSUME NEW r \in Records PROVE JobShape(r)'
    BY <2>1, <2>2 DEF EffectsInv, JobShape
  <2>7. ASSUME NEW p1 \in Requests, NEW p2 \in Requests, p1 # p2,
               Completing(req'[p1]), Completing(req'[p2])
        PROVE  req'[p1].job # req'[p2].job
    BY <2>1, <2>3, <2>5, <2>7 DEF EffectsInv
  <2> QED BY <2>4, <2>5, <2>6, <2>7 DEF EffectsInv, Completing
<1> QED BY <1>2, <1>3

(* A refresh touches only what it has read and what is left to refresh.    *)
LEMMA RefreshEffects ==
  ASSUME TypeInv, EffectsInv, NEW q \in Requests, UNCHANGED <<rec, center, vehicle, readings>>,
         \/ \E f, e : req' = [req EXCEPT ![q].snap[f] = e]
         \/ \E d, e : req' = [req EXCEPT ![q].due = d, ![q].snap = e]
  PROVE  EffectsInv'
<1>1. /\ \A p \in Requests \ {q} : req'[p] = req[p]
      /\ req'[q].pc = req[q].pc /\ req'[q].op = req[q].op
      /\ req'[q].job = req[q].job /\ req'[q].patch = req[q].patch
  <2>1. req \in [Requests -> Request] /\ req[q] \in Request
    BY DEF TypeInv, TypeOK
  <2>2. CASE \E f, e : req' = [req EXCEPT ![q].snap[f] = e]
    BY <2>1, <2>2 DEF Request
  <2>3. CASE \E d, e : req' = [req EXCEPT ![q].due = d, ![q].snap = e]
    BY <2>1, <2>3 DEF Request
  <2> QED BY <2>2, <2>3
<1>2. EffectsShape(req[q])
  BY DEF EffectsInv
<1>3. EffectsShape(req[q])'
  BY <1>1, <1>2 DEF EffectsShape, Completing
<1>4. Completing(req'[q]) => Completing(req[q])
  BY <1>1 DEF Completing
<1> QED BY <1>1, <1>3, <1>4, EffectsFrame

LEMMA AdvanceEffects ==
  ASSUME TypeInv, EffectsInv, NEW q \in Requests, Advance(q)
  PROVE  EffectsInv'
<1>0. EffectsShape(req[q]) /\ (req[q].pc # "idle" => req[q].job \in Records)
  BY DEF EffectsInv, TypeInv, RequestShape
<1>1. CASE ClaimStatus(q)
  BY <1>1, ClaimEffects
<1>2. CASE \/ WriteSchedule(q) \/ WriteOdometer(q) \/ InsertReading(q) \/ BookRevenue(q)
  BY <1>2, CompletionEffects
<1>3. CASE ReadPreviousTech(q)
  <2>1. \A p \in Requests \ {q} : req'[p] = req[p]
    BY <1>3 DEF ReadPreviousTech, TypeInv, TypeOK
  <2>2. EffectsShape(req[q])' /\ ~Completing(req'[q])
    BY <1>0, <1>3 DEF ReadPreviousTech, EffectsShape, Completing, TypeInv, TypeOK
  <2> QED BY <1>3, <2>1, <2>2, EffectsFrame DEF ReadPreviousTech, TypeInv, TypeOK
<1>4. CASE ReadCost(q)
  <2>1. \A p \in Requests \ {q} : req'[p] = req[p]
    BY <1>4 DEF ReadCost, TypeInv, TypeOK
  <2>2. EffectsShape(req[q])' /\ ~Completing(req'[q])
    <3>1. req'[q].pc = "write" /\ req'[q].op = req[q].op /\ req'[q].patch = req[q].patch
      BY <1>4 DEF ReadCost, TypeInv, TypeOK, Request
    <3>2. req[q].pc = "cost"
      BY <1>4 DEF ReadCost
    <3> QED BY <1>0, <3>1, <3>2 DEF EffectsShape, Completing
  <2> QED BY <1>4, <2>1, <2>2, EffectsFrame DEF ReadCost, TypeInv, TypeOK
<1>5. CASE WriteUpdate(q)
  <2>1. \A p \in Requests \ {q} : req'[p] = req[p]
    BY <1>5 DEF WriteUpdate, TypeInv, TypeOK
  <2>2. \A r \in Records : rec'[r].status = rec[r].status
    BY <1>0, <1>5 DEF WriteUpdate, Updated, EffectsShape, TypeInv, TypeOK, Job
  <2>3. EffectsShape(req[q])' /\ ~Completing(req'[q])
    BY <1>0, <1>5 DEF WriteUpdate, EffectsShape, Completing, TypeInv, TypeOK
  <2> QED BY <1>5, <2>1, <2>2, <2>3, EffectsFrame DEF WriteUpdate
<1>6. CASE WriteLabor(q)
  <2>1. \A p \in Requests \ {q} : req'[p] = req[p]
    BY <1>6 DEF WriteLabor, TypeInv, TypeOK
  <2>2. \A r \in Records : rec'[r].status = rec[r].status
    BY <1>0, <1>6 DEF WriteLabor, TypeInv, TypeOK, Job
  <2>3. EffectsShape(req[q])' /\ ~Completing(req'[q])
    BY <1>0, <1>6 DEF WriteLabor, EffectsShape, Completing, NoPatch, TypeInv, TypeOK
  <2> QED BY <1>6, <2>1, <2>2, <2>3, EffectsFrame DEF WriteLabor
<1>7. CASE WriteParts(q)
  <2>1. \A r \in Records : rec'[r].status = rec[r].status
    BY <1>0, <1>7 DEF WriteParts, TypeInv, TypeOK, Job
  <2> QED BY <1>7, <2>1, AnswerEffects DEF WriteParts
<1>8. CASE \E c \in Counters : \E f \in FiguresOf(c) : QueryFigure(q, c, f)
  <2>1. PICK c \in Counters : \E f \in FiguresOf(c) : QueryFigure(q, c, f)
    BY <1>8
  <2>2. PICK f \in Figures : QueryFigure(q, c, f)
    BY <2>1 DEF FiguresOf, Figures, Counters
  <2>3. req' = [req EXCEPT ![q].snap[f] = Recount(f)] /\ UNCHANGED <<rec, center, vehicle, readings>>
    BY <2>2 DEF QueryFigure
  <2> QED BY <1>0, <2>3, RefreshEffects
<1>9. CASE \E c \in Counters : StoreCounter(q, c)
  <2>1. PICK c \in Counters : StoreCounter(q, c)
    BY <1>9
  <2>2. ForgetCounter(q, c) /\ UNCHANGED <<rec, center, vehicle, readings>>
    BY <2>1 DEF StoreCounter
  <2> QED BY <2>2, RefreshEffects DEF ForgetCounter
<1>10. CASE FinishRequest(q)
  BY <1>10, AnswerEffects DEF FinishRequest
<1> QED BY <1>1, <1>2, <1>3, <1>4, <1>5, <1>6, <1>7, <1>8, <1>9, <1>10 DEF Advance

LEMMA NextEffects ==
  ASSUME PutStatuses = {}
  PROVE  TypeInv /\ EffectsInv /\ [Next]_vars => EffectsInv'
<1> SUFFICES ASSUME TypeInv, EffectsInv, [Next]_vars PROVE EffectsInv'
  OBVIOUS
<1>1. CASE UNCHANGED vars
  BY <1>1 DEF vars, EffectsInv, EffectsShape, JobShape, Completing
<1>2. ASSUME NEW q \in Requests, Arrive(q) PROVE EffectsInv'
  BY <1>2, ArriveEffects
<1>3. ASSUME NEW q \in Requests, Advance(q) PROVE EffectsInv'
  BY <1>3, AdvanceEffects
<1>4. ASSUME NEW q \in Requests, NEW c \in Counters, RefreshFails(q, c) PROVE EffectsInv'
  BY <1>4, RefreshEffects DEF RefreshFails, ForgetCounter
<1>5. ASSUME NEW q \in Requests, Abort(q) PROVE EffectsInv'
  BY <1>5, AnswerEffects DEF Abort
<1> QED BY <1>1, <1>2, <1>3, <1>4, <1>5 DEF Next

LEMMA EffectsInvariant ==
  ASSUME PutStatuses = {}
  PROVE  Spec => [](TypeInv /\ EffectsInv)
<1>1. Init => TypeInv /\ EffectsInv
  BY InitTypeInv, InitEffects
<1>2. TypeInv /\ EffectsInv /\ [Next]_vars => (TypeInv /\ EffectsInv)'
  BY NextTypeInv, NextEffects
<1> QED BY <1>1, <1>2, PTL DEF Spec

(* The consequences of completing a job are applied at most once, and its  *)
(* revenue never before its odometer reading, however many requests race   *)
(* to complete it and wherever they die: updateStatus(), as long as no     *)
(* client sends a status on PUT.                                           *)
THEOREM EffectsOnce ==
  ASSUME PutStatuses = {}
  PROVE  Spec => []OneTimeEffects
<1>1. TypeInv /\ EffectsInv => OneTimeEffects
  BY DEF EffectsInv, JobShape, OneTimeEffects
<1> QED BY <1>1, EffectsInvariant, PTL

(* A vehicle's next service and odometer, a reading in its history and the *)
(* revenue of the center come from completed jobs only.                    *)
THEOREM EffectsOnlyWhenFinished ==
  ASSUME PutStatuses = {}
  PROVE  Spec => []EffectsOfFinishedJobs
<1>1. TypeInv /\ EffectsInv => EffectsOfFinishedJobs
  BY DEF EffectsInv, JobShape, EffectsOfFinishedJobs, TypeInv, TypeOK
<1> QED BY <1>1, EffectsInvariant, PTL

(* The only writes of a status are the claim, whose filter refuses a       *)
(* completed job, and PUT, which carries none here.                        *)
LEMMA StepKeepsCompleted ==
  ASSUME TypeInv, EffectsInv, [Next]_vars,
         NEW r \in Records, rec[r].status = "completed"
  PROVE  rec'[r].status = "completed"
<1>1. CASE rec' = rec
  BY <1>1
<1>2. ASSUME NEW q \in Requests, Create(q) PROVE rec'[r].status = "completed"
  BY <1>2 DEF Create, Exists, TypeInv, TypeOK
<1>3. ASSUME NEW q \in Requests, ClaimStatus(q) PROVE rec'[r].status = "completed"
  <2>1. req[q].from # "completed" /\ req[q].job \in Records
    BY <1>3 DEF ClaimStatus, TypeInv, RequestShape, canTransition, Allowed
  <2> QED BY <1>3, <2>1 DEF ClaimStatus, ClaimMatches, TypeInv, TypeOK, Job
<1>4. ASSUME NEW q \in Requests, WriteUpdate(q) PROVE rec'[r].status = "completed"
  <2>1. req[q].patch.status = None
    BY <1>4 DEF EffectsInv, EffectsShape
  <2> QED BY <1>4, <2>1 DEF WriteUpdate, Updated, TypeInv, TypeOK, Job
<1>5. ASSUME NEW q \in Requests, AddFeedback(q) \/ Delete(q) \/ WriteLabor(q) \/ WriteParts(q)
      PROVE  rec'[r].status = "completed"
  <2>1. CASE AddFeedback(q)
    BY <2>1 DEF AddFeedback, TypeInv, TypeOK, Job
  <2>2. CASE Delete(q)
    BY <2>2 DEF Delete, TypeInv, TypeOK, Job
  <2>3. CASE WriteLabor(q)
    BY <2>3 DEF WriteLabor, TypeInv, TypeOK, Job
  <2>4. CASE WriteParts(q)
    BY <2>4 DEF WriteParts, TypeInv, TypeOK, Job
  <2> QED BY <1>5, <2>1, <2>2, <2>3, <2>4
<1>6. CASE UNCHANGED vars
  BY <1>1, <1>6 DEF vars
<1>7. ASSUME NEW q \in Requests, Arrive(q) PROVE rec'[r].status = "completed"
  BY <1>1, <1>2, <1>5, <1>7 DEF Arrive, ReadStatus, Put, ReadLabor, ReadParts
<1>8. ASSUME NEW q \in Requests, Advance(q) PROVE rec'[r].status = "completed"
  <2>1. CASE \E c \in Counters : \E f \in FiguresOf(c) : QueryFigure(q, c, f)
    BY <1>1, <2>1 DEF QueryFigure
  <2>2. CASE \E c \in Counters : StoreCounter(q, c)
    BY <1>1, <2>2 DEF StoreCounter
  <2>3. CASE \/ WriteSchedule(q) \/ WriteOdometer(q) \/ InsertReading(q) \/ ReadPreviousTech(q)
             \/ ReadCost(q) \/ FinishRequest(q) \/ BookRevenue(q)
    BY <1>1, <2>3 DEF WriteSchedule, WriteOdometer, InsertReading, ReadPreviousTech, ReadCost,
                      FinishRequest, BookRevenue
  <2> QED BY <1>3, <1>4, <1>5, <1>8, <2>1, <2>2, <2>3 DEF Advance
<1>9. ASSUME NEW q \in Requests, NEW c \in Counters, RefreshFails(q, c)
      PROVE  rec'[r].status = "completed"
  BY <1>1, <1>9 DEF RefreshFails
<1>10. ASSUME NEW q \in Requests, Abort(q) PROVE rec'[r].status = "completed"
  BY <1>1, <1>10 DEF Abort
<1> QED BY <1>6, <1>7, <1>8, <1>9, <1>10 DEF Next

(* `completed` is terminal, as serviceRecordTransitions.ts says.           *)
THEOREM CompletedStays ==
  ASSUME PutStatuses = {}
  PROVE  Spec => CompletedIsTerminal
<1>1. TypeInv /\ EffectsInv /\ [Next]_vars =>
        [\A r \in Records :
           rec[r].status = "completed" => rec'[r].status = "completed"]_vars
  BY StepKeepsCompleted
<1> QED BY <1>1, EffectsInvariant, PTL DEF Spec, CompletedIsTerminal

-----------------------------------------------------------------------------
(* One request at a time, none of which fails: what is left of the races,  *)
(* and the question whether every write refreshes all the figures it moves.*)

Sequential == MaxInFlight <= 1 /\ ~MayFail

Alone == \A p, q \in InFlight : p = q

(* The jobs a figure counts, and what they cost. *)
Counted(r, f) == Live(r) /\ (f \in Techs => rec[r].tech = f)
Revenue(f)    == {<<r, rec[r].cost>> : r \in {x \in Records : Counted(x, f)}}

(* A request on its way to refresh counter c. *)
Owes(rq, c) == rq.pc \in {"schedule", "odometer", "reading", "refresh"} /\ c \in rq.due

(* What a request has read is still so. *)
StatsShape(rq) ==
  /\ rq.pc # "idle" => Exists(rq.job)
  /\ rq.pc \in {"cost", "write"} /\ rq.patch.tech # None => rq.prev = rec[rq.job].tech
  /\ \A f \in Figures :
       rq.snap[f] # None => rq.pc = "refresh" /\ RevenueIn(rq.snap[f]) = Revenue(f)

Settled(c) == \A f \in FiguresOf(c) : RevenueIn(stats[f]) = Revenue(f)

(* A counter is exact, or a request is going to refresh it. *)
StatsInv ==
  /\ Alone
  /\ \A q \in Requests : StatsShape(req[q])
  /\ \A c \in Counters : Settled(c) \/ \E q \in Requests : Owes(req[q], c)

LEMMA RevenueOfRecount ==
  ASSUME NEW f
  PROVE  RevenueIn(Recount(f)) = Revenue(f)
<1>1. Recount(f) = {[job |-> r, cost |-> rec[r].cost, rating |-> rec[r].rating] :
                      r \in {x \in Records : Counted(x, f)}}
  BY DEF Recount, Counted
<1>2. ASSUME NEW e \in Recount(f) PROVE <<e.job, e.cost>> \in Revenue(f)
  <2>1. PICK r \in {x \in Records : Counted(x, f)} :
          e = [job |-> r, cost |-> rec[r].cost, rating |-> rec[r].rating]
    BY <1>1
  <2>2. e.job = r /\ e.cost = rec[r].cost
    BY <2>1
  <2>3. QED BY <2>2 DEF Revenue
<1>3. ASSUME NEW r \in Records, Counted(r, f)
      PROVE  <<r, rec[r].cost>> \in RevenueIn(Recount(f))
  <2>1. PICK e : e = [job |-> r, cost |-> rec[r].cost, rating |-> rec[r].rating]
    OBVIOUS
  <2>2. e \in Recount(f) /\ e.job = r /\ e.cost = rec[r].cost
    BY <1>1, <1>3, <2>1
  <2>3. QED BY <2>2 DEF RevenueIn
<1>4. QED BY <1>2, <1>3 DEF RevenueIn, Revenue

LEMMA SameRevenue ==
  ASSUME NEW f,
         \A r \in Records : /\ Counted(r, f)' <=> Counted(r, f)
                            /\ Counted(r, f) => rec'[r].cost = rec[r].cost
  PROVE  Revenue(f)' = Revenue(f)
  BY DEF Revenue

(* An edit of job r that moves neither its cost nor its technician. *)
LEMMA EditRevenue ==
  ASSUME NEW r \in Records, \A x \in Records \ {r} : rec'[x] = rec[x],
         Live(r)' <=> Live(r), rec'[r].cost = rec[r].cost, rec'[r].tech = rec[r].tech,
         NEW f
  PROVE  Revenue(f)' = Revenue(f)
<1>1. ASSUME NEW x \in Records
      PROVE  /\ Counted(x, f)' <=> Counted(x, f)
             /\ Counted(x, f) => rec'[x].cost = rec[x].cost
  <2>1. CASE x = r
    BY <2>1 DEF Counted
  <2>2. CASE x # r
    BY <2>2 DEF Counted, Live, Exists
  <2>3. QED BY <2>1, <2>2
<1>2. QED BY <1>1, SameRevenue

LEMMA CounterFigures ==
  ASSUME NEW c \in Counters
  PROVE  /\ FiguresOf(c) \subseteq Figures
         /\ \A d \in Counters \ {c} : FiguresOf(c) \cap FiguresOf(d) = {}
  BY ConstantsOK DEF Counters, FiguresOf, Figures, OwnerFigures

LEMMA InitStats == Init => StatsInv
<1> SUFFICES ASSUME Init PROVE StatsInv
  OBVIOUS
<1>1. Alone
  BY DEF Init, Alone, InFlight, Idle
<1>2. ASSUME NEW q \in Requests PROVE StatsShape(req[q])
  BY <1>2 DEF Init, StatsShape, Idle, NoSnap
<1>3. ASSUME NEW f \in Figures PROVE RevenueIn(stats[f]) = Revenue(f)
  <2>1. \A r \in Records : ~Counted(r, f)
    BY DEF Init, Counted, Live, Exists
  <2>2. Revenue(f) = {} /\ stats[f] = {}
    BY <2>1 DEF Revenue, Init
  <2>3. QED BY <2>2 DEF RevenueIn
<1>4. \A c \in Counters : Settled(c)
  BY <1>3, CounterFigures DEF Settled
<1>5. QED BY <1>1, <1>2, <1>4 DEF StatsInv

(* A request that moves, or that begins, does so alone. *)
LEMMA MovesAlone ==
  ASSUME Sequential, TypeInv, Alone, NEW q \in Requests,
         req[q].pc # "idle" \/ \E op : Admit(q, op),
         NEW v, req' = [req EXCEPT ![q] = v]
  PROVE  req'[q] = v /\ \A p \in Requests \ {q} : req[p].pc = "idle" /\ req'[p] = req[p]
<1>1. \A p \in Requests \ {q} : req[p].pc = "idle"
  <2>1. CASE req[q].pc # "idle"
    BY <2>1 DEF Alone, InFlight
  <2>2. CASE \E op : Admit(q, op)
    <3>1. SUFFICES ASSUME NEW p \in InFlight PROVE FALSE
      BY DEF InFlight
    <3>2. InFlight = {p}
      BY <3>1 DEF Alone
    <3>3. Cardinality({p}) = 1
      BY FS_Singleton
    <3>4. QED BY <2>2, <3>2, <3>3, ConstantsOK DEF Admit, Sequential
  <2>3. QED BY <2>1, <2>2
<1>2. QED BY <1>1 DEF TypeInv, TypeOK

LEMMA StatsStep ==
  ASSUME StatsInv, NEW q \in Requests,
         \A p \in Requests \ {q} : req[p].pc = "idle" /\ req'[p] = req[p],
         StatsShape(req[q])',
         \A c \in Counters : Settled(c)' \/ Owes(req'[q], c)
  PROVE  StatsInv'
<1>1. Alone'
  BY DEF Alone, InFlight
<1>2. ASSUME NEW p \in Requests PROVE StatsShape(req[p])'
  <2>1. CASE p = q
    BY <2>1
  <2>2. CASE p # q
    BY <2>2 DEF StatsInv, StatsShape
  <2>3. QED BY <2>1, <2>2
<1>3. ASSUME NEW c \in Counters PROVE (Settled(c) \/ \E p \in Requests : Owes(req[p], c))'
  <2>1. Owes(req'[q], c) => Owes(req[q], c)'
    BY DEF Owes
  <2>2. QED BY <2>1
<1>4. QED BY <1>1, <1>2, <1>3 DEF StatsInv

LEMMA SettledFrame ==
  ASSUME \A f \in Figures : Revenue(f)' = Revenue(f), stats' = stats
  PROVE  \A c \in Counters : Settled(c) => Settled(c)'
  BY CounterFigures DEF Settled

(* With the others idle, what q does not owe is exact. *)
LEMMA SettledAlone ==
  ASSUME StatsInv, NEW q \in Requests, \A p \in Requests \ {q} : req[p].pc = "idle"
  PROVE  \A c \in Counters : Settled(c) \/ Owes(req[q], c)
  BY DEF StatsInv, Owes

(* A request ends, with nothing left to refresh. *)
LEMMA AnswerStats ==
  ASSUME Sequential, TypeInv, StatsInv, NEW q \in Requests, req[q].pc # "idle", Answer(q),
         \A c \in Counters : ~Owes(req[q], c),
         \A f \in Figures : Revenue(f)' = Revenue(f), stats' = stats
  PROVE  StatsInv'
<1>1. req'[q] = Idle /\ \A p \in Requests \ {q} : req[p].pc = "idle" /\ req'[p] = req[p]
  BY MovesAlone DEF StatsInv, Answer
<1>2. StatsShape(req[q])'
  BY <1>1 DEF StatsShape, Idle, NoSnap
<1>3. \A c \in Counters : Settled(c)'
  BY <1>1, SettledAlone, SettledFrame
<1>4. QED BY <1>1, <1>2, <1>3, StatsStep

(* A request begins with a read of the database. *)
LEMMA BeginStats ==
  ASSUME Sequential, TypeInv, StatsInv, NEW q \in Requests, NEW op, Admit(q, op),
         NEW v, req' = [req EXCEPT ![q] = v], UNCHANGED <<rec, stats>>,
         v.pc \in {"claim", "lines", "partLines", "prevTech", "cost", "write"},
         Exists(v.job), v.snap = NoSnap,
         v.pc \in {"cost", "write"} => v.patch.tech = None
  PROVE  StatsInv'
<1>1. req'[q] = v /\ \A p \in Requests \ {q} : req[p].pc = "idle" /\ req'[p] = req[p]
  BY MovesAlone DEF StatsInv
<1>2. StatsShape(req[q])'
  BY <1>1 DEF StatsShape, NoSnap, Exists
<1>3. \A f \in Figures : Revenue(f)' = Revenue(f)
  BY DEF Revenue, Counted, Live, Exists
<1>4. \A c \in Counters : ~Owes(req[q], c)
  BY DEF Owes, Admit
<1>5. \A c \in Counters : Settled(c)'
  BY <1>1, <1>3, <1>4, SettledAlone, SettledFrame
<1>6. QED BY <1>1, <1>2, <1>5, StatsStep

(* A job appears or disappears: its owner's and technician's counters are  *)
(* to be refreshed.                                                        *)
LEMMA JobStats ==
  ASSUME Sequential, TypeInv, StatsInv, NEW q \in Requests, NEW op, Admit(q, op),
         NEW v, req' = [req EXCEPT ![q] = v], stats' = stats,
         NEW r \in Records, NEW t \in Techs \cup {None},
         \A x \in Records \ {r} : rec'[x] = rec[x],
         Live(r) => rec[r].tech = t, rec'[r].tech = t, rec'[r].status # "absent",
         v.pc \in {"schedule", "refresh"}, v.job = r, v.snap = NoSnap,
         v.due = {"owner"} \cup TechCounter(t)
  PROVE  StatsInv'
<1>1. req'[q] = v /\ \A p \in Requests \ {q} : req[p].pc = "idle" /\ req'[p] = req[p]
  BY MovesAlone DEF StatsInv
<1>2. StatsShape(req[q])'
  BY <1>1 DEF StatsShape, NoSnap, Exists
<1>3. \A c \in Counters : Settled(c)
  BY <1>1, SettledAlone DEF Owes, Admit
<1>4. ASSUME NEW c \in Counters, c # "owner", c # t PROVE Settled(c)'
  <2>1. c \in Techs /\ FiguresOf(c) = {c} /\ c \in Figures
    BY <1>4 DEF Counters, FiguresOf, Figures
  <2>2. \A x \in Records : /\ Counted(x, c)' <=> Counted(x, c)
                           /\ Counted(x, c) => rec'[x].cost = rec[x].cost
    BY <1>4, <2>1 DEF Counted, Live, Exists
  <2>3. Revenue(c)' = Revenue(c)
    BY <2>2, SameRevenue
  <2>4. QED BY <1>3, <2>1, <2>3 DEF Settled
<1>5. ASSUME NEW c \in Counters PROVE Settled(c)' \/ Owes(req'[q], c)
  <2>1. CASE c \in {"owner", t}
    <3>1. c \in v.due
      BY <2>1, ConstantsOK DEF TechCounter, Counters
    <3>2. QED BY <1>1, <3>1 DEF Owes
  <2>2. CASE c \notin {"owner", t}
    BY <1>4, <2>2
  <2>3. QED BY <2>1, <2>2
<1>6. QED BY <1>1, <1>2, <1>5, StatsStep

LEMMA IdleFields == Idle.snap = NoSnap /\ Idle.patch = NoPatch /\ Idle.patch.tech = None
  BY DEF Idle, NoPatch

LEMMA ArriveStats ==
  ASSUME Sequential, TypeInv, StatsInv, NEW q \in Requests, Arrive(q)
  PROVE  StatsInv'
<1>0. rec \in [Records -> Job]
  BY DEF TypeInv, TypeOK
<1>1. CASE Create(q)
  <2>1. PICK r \in Records, s \in Statuses, t \in Techs \cup {None}, p \in Amounts,
             l \in LaborFigures \cup {{}}, next \in BOOLEAN :
          /\ ~Exists(r)
          /\ rec' = [rec EXCEPT ![r] =
                      [status |-> s, deleted |-> FALSE, tech |-> t,
                       cost |-> [parts |-> p, labor |-> l], laborItems |-> {},
                       partsReplaced |-> {}, rating |-> None]]
          /\ req' = [req EXCEPT ![q] =
                      [Idle EXCEPT
                        !.pc = IF s = "completed" /\ next THEN "schedule" ELSE "refresh",
                        !.op = "create", !.job = r,
                        !.due = {"owner"} \cup TechCounter(t)]]
    BY <1>1 DEF Create
  <2>7. PICK pc \in {"schedule", "refresh"} :
          req' = [req EXCEPT ![q] = [Idle EXCEPT !.pc = pc, !.op = "create", !.job = r,
                                                 !.due = {"owner"} \cup TechCounter(t)]]
    BY <2>1
  <2>2. PICK v :
          /\ v = [Idle EXCEPT !.pc = pc, !.op = "create", !.job = r,
                              !.due = {"owner"} \cup TechCounter(t)]
          /\ req' = [req EXCEPT ![q] = v]
    BY <2>7
  <2>3. v.pc = pc /\ v.job = r /\ v.snap = NoSnap /\ v.due = {"owner"} \cup TechCounter(t)
    BY <2>2, IdleFields DEF Idle
  <2>4. /\ rec'[r].tech = t /\ rec'[r].status # "absent" /\ ~Live(r)
        /\ \A x \in Records \ {r} : rec'[x] = rec[x]
    BY <1>0, <2>1 DEF Live, Statuses
  <2>5. Admit(q, "create") /\ stats' = stats
    BY <1>1 DEF Create
  <2>6. QED BY <2>2, <2>3, <2>4, <2>5, JobStats
<1>2. CASE Delete(q)
  <2>1. PICK r, v :
          /\ r \in Records
          /\ Live(r)
          /\ rec' = [rec EXCEPT ![r].deleted = TRUE]
          /\ v = [Idle EXCEPT !.pc = "refresh", !.op = "delete", !.job = r,
                              !.due = {"owner"} \cup TechCounter(rec[r].tech)]
          /\ req' = [req EXCEPT ![q] = v]
    BY <1>2 DEF Delete
  <2>2. PICK t \in Techs \cup {None} : t = rec[r].tech
    BY <1>0, <2>1 DEF Job
  <2>3. /\ v.pc = "refresh" /\ v.job = r /\ v.snap = NoSnap
        /\ v.due = {"owner"} \cup TechCounter(t)
    BY <2>1, <2>2, IdleFields DEF Idle
  <2>4. /\ rec'[r].tech = t /\ rec'[r].status # "absent"
        /\ \A x \in Records \ {r} : rec'[x] = rec[x]
    BY <1>0, <2>1, <2>2 DEF Live, Exists, Job
  <2>5. Admit(q, "delete") /\ stats' = stats
    BY <1>2 DEF Delete
  <2>6. QED BY <2>1, <2>2, <2>3, <2>4, <2>5, JobStats
<1>3. CASE AddFeedback(q)
  <2>1. PICK r \in Records, n \in Ratings : Live(r) /\ rec' = [rec EXCEPT ![r].rating = n]
    BY <1>3 DEF AddFeedback
  <2>2. /\ \A x \in Records \ {r} : rec'[x] = rec[x]
        /\ rec'[r].status = rec[r].status /\ rec'[r].deleted = rec[r].deleted
        /\ rec'[r].cost = rec[r].cost /\ rec'[r].tech = rec[r].tech
    BY <1>0, <2>1 DEF Job
  <2>3. (Live(r)' <=> Live(r)) /\ UNCHANGED <<req, stats>>
    BY <1>3, <2>2 DEF Live, Exists, AddFeedback
  <2>4. \A f \in Figures : Revenue(f)' = Revenue(f)
    BY <2>2, <2>3, EditRevenue
  <2>5. \A c \in Counters : Settled(c) => Settled(c)'
    BY <2>3, <2>4, SettledFrame
  <2>6. \A p \in Requests : StatsShape(req[p])'
    <3>1. \A x \in Records : /\ rec'[x].status = rec[x].status
                             /\ rec'[x].tech = rec[x].tech
      BY <2>2
    <3>2. ASSUME NEW p \in Requests PROVE StatsShape(req[p])'
      BY <2>3, <2>4, <3>1 DEF StatsInv, StatsShape, Exists, TypeInv, RequestShape
    <3>3. QED BY <3>2
  <2>7. Alone'
    BY <2>3 DEF StatsInv, Alone, InFlight
  <2>8. \A c \in Counters : (Settled(c) \/ \E p \in Requests : Owes(req[p], c))'
    BY <2>3, <2>5 DEF StatsInv, Owes
  <2>9. QED BY <2>6, <2>7, <2>8 DEF StatsInv
<1>4. CASE ReadStatus(q)
  <2>1. PICK r, to, v :
          /\ r \in Records
          /\ to \in Statuses
          /\ Live(r)
          /\ v = [Idle EXCEPT !.pc = "claim", !.op = "status", !.job = r,
                              !.from = rec[r].status, !.to = to]
          /\ req' = [req EXCEPT ![q] = v]
    BY <1>4 DEF ReadStatus
  <2>2. v.pc = "claim" /\ v.job = r /\ v.snap = NoSnap
    BY <2>1, IdleFields DEF Idle
  <2>3. Admit(q, "status") /\ UNCHANGED <<rec, stats>>
    BY <1>4 DEF ReadStatus
  <2>4. QED BY <2>1, <2>2, <2>3, BeginStats DEF Live
<1>5. CASE Put(q)
  <2>1. PICK r, patch, v :
          /\ r \in Records
          /\ Exists(r)
          /\ v = [Idle EXCEPT !.pc = UpdateEntry(patch), !.op = "put",
                              !.job = r, !.patch = patch]
          /\ req' = [req EXCEPT ![q] = v]
    BY <1>5 DEF Put
  <2>2. v.pc = UpdateEntry(patch) /\ v.job = r /\ v.snap = NoSnap /\ v.patch = patch
    BY <2>1, IdleFields DEF Idle
  <2>3. v.pc \in {"prevTech", "cost", "write"} /\ (v.pc # "prevTech" => v.patch.tech = None)
    BY <2>2 DEF UpdateEntry
  <2>4. Admit(q, "put") /\ UNCHANGED <<rec, stats>>
    BY <1>5 DEF Put
  <2>5. QED BY <2>1, <2>2, <2>3, <2>4, BeginStats
<1>6. CASE ReadLabor(q) \/ ReadParts(q)
  <2>1. PICK r, pc, op, lines, v :
          /\ r \in Records
          /\ pc \in {"lines", "partLines"}
          /\ op \in {"labor", "parts"}
          /\ Live(r)
          /\ v = [Idle EXCEPT !.pc = pc, !.op = op, !.job = r, !.lines = lines]
          /\ req' = [req EXCEPT ![q] = v]
          /\ Admit(q, op)
    <3>1. CASE ReadLabor(q)
      <4>1. PICK r, l, lines :
              /\ r \in Records
              /\ l \in Lines
              /\ Live(r)
              /\ req' = [req EXCEPT ![q] =
                          [Idle EXCEPT !.pc = "lines", !.op = "labor", !.job = r, !.lines = lines]]
              /\ Admit(q, "labor")
        BY <3>1 DEF ReadLabor
      <4>2. QED BY <4>1
    <3>2. CASE ReadParts(q)
      <4>1. PICK r, l, lines :
              /\ r \in Records
              /\ l \in Lines
              /\ Live(r)
              /\ req' = [req EXCEPT ![q] =
                          [Idle EXCEPT !.pc = "partLines", !.op = "parts", !.job = r,
                                       !.lines = lines]]
              /\ Admit(q, "parts")
        BY <3>2 DEF ReadParts
      <4>2. QED BY <4>1
    <3>3. QED BY <1>6, <3>1, <3>2
  <2>2. v.pc = pc /\ v.job = r /\ v.snap = NoSnap
    BY <2>1, IdleFields DEF Idle
  <2>3. UNCHANGED <<rec, stats>>
    BY <1>6 DEF ReadLabor, ReadParts
  <2>4. QED BY <2>1, <2>2, <2>3, BeginStats DEF Live
<1>7. QED BY <1>1, <1>2, <1>3, <1>4, <1>5, <1>6 DEF Arrive

(* A request in progress goes on without moving a figure: what it owed it  *)
(* still owes.                                                             *)
LEMMA GoOnStats ==
  ASSUME Sequential, TypeInv, StatsInv, NEW q \in Requests, req[q].pc # "idle",
         NEW v, req' = [req EXCEPT ![q] = v], stats' = stats,
         \A f \in Figures : Revenue(f)' = Revenue(f),
         StatsShape(v)',
         \A c \in Counters : Owes(req[q], c) => Owes(v, c)
  PROVE  StatsInv'
<1>1. req'[q] = v /\ \A p \in Requests \ {q} : req[p].pc = "idle" /\ req'[p] = req[p]
  BY MovesAlone DEF StatsInv
<1>2. StatsShape(req[q])'
  BY <1>1 DEF StatsShape
<1>3. \A c \in Counters : Settled(c)' \/ Owes(req'[q], c)
  BY <1>1, SettledAlone, SettledFrame
<1>4. QED BY <1>1, <1>2, <1>3, StatsStep

(* update() refreshes every counter its write moves: the owner's when the  *)
(* cost changes, and those of the technicians before and after.            *)
LEMMA WriteUpdateStats ==
  ASSUME Sequential, TypeInv, StatsInv, NEW q \in Requests, WriteUpdate(q)
  PROVE  StatsInv'
<1>1. PICK x, r, j : x = req[q] /\ r = x.job /\ j = Updated(q)
  OBVIOUS
<1>2. PICK due : due = UpdateDue(q)
  OBVIOUS
<1>3. /\ x \in Request /\ RequestShape(x) /\ StatsShape(x) /\ x.pc = "write"
      /\ req \in [Requests -> Request] /\ rec \in [Records -> Job]
      /\ rec' = [rec EXCEPT ![r] = j] /\ stats' = stats
      /\ req' = [req EXCEPT ![q].pc = "refresh", ![q].due = due]
  BY <1>1, <1>2 DEF TypeInv, TypeOK, StatsInv, WriteUpdate
<1>4. r \in Records /\ rec[r] \in Job /\ Exists(r)
  BY <1>1, <1>3 DEF RequestShape, StatsShape
<1>5. PICK old : old = rec[r]
  OBVIOUS
<1>6. /\ j.status = IF x.patch.status # None THEN x.patch.status ELSE old.status
      /\ j.deleted = old.deleted
      /\ j.tech = IF x.patch.tech # None THEN x.patch.tech ELSE old.tech
      /\ ~HasCost(x.patch) => j.cost = old.cost
  BY <1>1, <1>4, <1>5 DEF Updated, Job
<1>7. x.patch.status \in Statuses \cup {None} /\ x.patch.tech \in Techs \cup {None}
  BY <1>3 DEF Request, Patch
<1>8. rec'[r] = j /\ \A y \in Records \ {r} : rec'[y] = rec[y]
  BY <1>3, <1>4
<1>9. Exists(r)' /\ (Live(r)' <=> Live(r))
  BY <1>4, <1>5, <1>6, <1>7, <1>8 DEF Exists, Live, Statuses
<1>10. PICK v : v = [x EXCEPT !.pc = "refresh", !.due = due]
  OBVIOUS
<1>11. /\ req' = [req EXCEPT ![q] = v]
       /\ v.pc = "refresh" /\ v.due = due /\ v.job = r /\ v.snap = x.snap
  BY <1>1, <1>3, <1>10 DEF Request
<1>12. req'[q] = v /\ \A p \in Requests \ {q} : req[p].pc = "idle" /\ req'[p] = req[p]
  BY <1>1, <1>3, <1>11, MovesAlone DEF StatsInv
<1>13. StatsShape(req[q])'
  <2>1. \A f \in Figures : x.snap[f] = None
    BY <1>3 DEF StatsShape
  <2>2. QED BY <1>9, <1>11, <1>12, <2>1 DEF StatsShape, Exists
<1>14. \A c \in Counters : Settled(c)
  BY <1>1, <1>3, <1>12, SettledAlone DEF Owes
<1>15. CASE ~HasCost(x.patch) /\ j.tech = old.tech
  <2>1. \A f \in Figures : Revenue(f)' = Revenue(f)
    BY <1>4, <1>5, <1>6, <1>8, <1>9, <1>15, EditRevenue
  <2>2. QED BY <1>3, <1>12, <1>13, <1>14, <2>1, SettledFrame, StatsStep
<1>16. CASE HasCost(x.patch) \/ j.tech # old.tech
  <2>1. j.tech # None => j.tech \in due
    BY <1>1, <1>2, <1>6, <1>16 DEF UpdateDue, TechCounter
  <2>2. old.tech # None => old.tech \in due
    <3>1. CASE old.tech = j.tech
      BY <2>1, <3>1
    <3>2. CASE old.tech # j.tech
      <4>1. x.prev = old.tech
        BY <1>1, <1>3, <1>5, <1>6, <3>2 DEF StatsShape
      <4>2. QED BY <1>1, <1>2, <3>2, <4>1 DEF UpdateDue, TechCounter
    <3>3. QED BY <3>1, <3>2
  <2>3. HasCost(x.patch) => "owner" \in due
    BY <1>1, <1>2 DEF UpdateDue
  <2>4. ASSUME NEW c \in Counters, c \notin due PROVE Settled(c)'
    <3>1. ASSUME NEW f \in FiguresOf(c) PROVE Revenue(f)' = Revenue(f)
      <4>1. CASE c = "owner"
        <5>1. j.cost = old.cost /\ f \notin Techs
          BY <1>6, <2>3, <2>4, <3>1, <4>1, ConstantsOK DEF FiguresOf, OwnerFigures
        <5>2. \A y \in Records : /\ Counted(y, f)' <=> Counted(y, f)
                                 /\ Counted(y, f) => rec'[y].cost = rec[y].cost
          BY <1>5, <1>8, <1>9, <5>1 DEF Counted, Live, Exists
        <5>3. QED BY <5>2, SameRevenue
      <4>2. CASE c # "owner"
        <5>1. c \in Techs /\ f = c /\ c # None
          BY <3>1, <4>2, ConstantsOK DEF Counters, FiguresOf
        <5>2. c # j.tech /\ c # old.tech
          BY <2>1, <2>2, <2>4, <5>1
        <5>3. \A y \in Records : /\ Counted(y, f)' <=> Counted(y, f)
                                 /\ Counted(y, f) => rec'[y].cost = rec[y].cost
          BY <1>5, <1>8, <5>1, <5>2 DEF Counted, Live, Exists
        <5>4. QED BY <5>3, SameRevenue
      <4>3. QED BY <4>1, <4>2
    <3>2. QED BY <1>3, <1>14, <2>4, <3>1 DEF Settled
  <2>5. \A c \in Counters : Settled(c)' \/ Owes(req'[q], c)
    BY <1>11, <1>12, <2>4 DEF Owes
  <2>6. QED BY <1>12, <1>13, <2>5, StatsStep
<1>17. QED BY <1>15, <1>16

(* The refreshed counter is exact: nothing was written since it was read.  *)
LEMMA StoreStats ==
  ASSUME Sequential, TypeInv, StatsInv, NEW q \in Requests, NEW c \in Counters, StoreCounter(q, c)
  PROVE  StatsInv'
<1>1. PICK x : x = req[q]
  OBVIOUS
<1>2. /\ x \in Request /\ StatsShape(x) /\ x.pc = "refresh" /\ c \in x.due
      /\ req \in [Requests -> Request] /\ rec' = rec
      /\ \A f \in FiguresOf(c) : x.snap[f] # None
      /\ stats' = [f \in Figures |-> IF f \in FiguresOf(c) THEN x.snap[f] ELSE stats[f]]
  BY <1>1 DEF TypeInv, TypeOK, StatsInv, StoreCounter
<1>3. PICK e : e = [f \in Figures |-> IF f \in FiguresOf(c) THEN None ELSE x.snap[f]]
  OBVIOUS
<1>4. PICK v : v = [x EXCEPT !.due = @ \ {c}, !.snap = e]
  OBVIOUS
<1>5. /\ req' = [req EXCEPT ![q] = v]
      /\ v.pc = "refresh" /\ v.job = x.job /\ v.due = x.due \ {c} /\ v.snap = e
  BY <1>1, <1>2, <1>3, <1>4 DEF StoreCounter, ForgetCounter, Request
<1>6. req'[q] = v /\ \A p \in Requests \ {q} : req[p].pc = "idle" /\ req'[p] = req[p]
  BY <1>1, <1>2, <1>5, MovesAlone DEF StatsInv
<1>7. \A f \in Figures : Revenue(f)' = Revenue(f)
  BY <1>2 DEF Revenue, Counted, Live, Exists
<1>8. StatsShape(req[q])'
  <2>1. \A f \in Figures : e[f] # None => RevenueIn(e[f]) = Revenue(f)
    BY <1>2, <1>3 DEF StatsShape
  <2>2. QED BY <1>2, <1>5, <1>6, <1>7, <2>1 DEF StatsShape, Exists, RevenueIn
<1>9. Settled(c)'
  <2>1. \A f \in FiguresOf(c) : f \in Figures /\ RevenueIn(x.snap[f]) = Revenue(f)
    BY <1>2, CounterFigures DEF StatsShape
  <2>2. QED BY <1>2, <1>7, <2>1 DEF Settled
<1>10. ASSUME NEW d \in Counters, d # c PROVE Settled(d)' \/ Owes(req'[q], d)
  <2>1. CASE Owes(x, d)
    BY <1>5, <1>6, <1>10, <2>1 DEF Owes
  <2>2. CASE Settled(d)
    <3>1. \A f \in FiguresOf(d) : f \in Figures /\ f \notin FiguresOf(c)
      BY <1>10, CounterFigures
    <3>2. QED BY <1>2, <1>7, <2>2, <3>1 DEF Settled
  <2>3. QED BY <1>1, <1>6, <2>1, <2>2, SettledAlone
<1>11. QED BY <1>6, <1>8, <1>9, <1>10, StatsStep

LEMMA AdvanceStats ==
  ASSUME Sequential, TypeInv, StatsInv, NEW q \in Requests, Advance(q)
  PROVE  StatsInv'
<1>1. PICK x : x = req[q]
  OBVIOUS
<1>2. /\ x \in Request /\ RequestShape(x) /\ StatsShape(x)
      /\ req \in [Requests -> Request] /\ rec \in [Records -> Job]
  BY <1>1 DEF TypeInv, TypeOK, StatsInv
<1>3. x.pc # "idle"
  BY <1>1 DEF Advance, ClaimStatus, WriteSchedule, WriteOdometer, InsertReading, ReadPreviousTech,
              ReadCost, WriteUpdate, WriteLabor, WriteParts, QueryFigure, StoreCounter,
              FinishRequest, BookRevenue
<1>4. x.job \in Records /\ rec[x.job] \in Job /\ Exists(x.job)
  BY <1>2, <1>3 DEF RequestShape, StatsShape
<1>5. x.pc # "refresh" => \A f \in Figures : x.snap[f] = None
  BY <1>2 DEF StatsShape
<1>6. rec' = rec => \A f \in Figures : Revenue(f)' = Revenue(f)
  BY DEF Revenue, Counted, Live, Exists
<1>7. CASE ClaimStatus(q)
  <2>1. x.pc = "claim" /\ (\A c \in Counters : ~Owes(x, c)) /\ stats' = stats
    BY <1>1, <1>7 DEF ClaimStatus, Owes
  <2>2. CASE ~ClaimMatches(q)
    <3>1. Answer(q) /\ rec' = rec
      BY <1>7, <2>2 DEF ClaimStatus
    <3>2. QED BY <1>1, <1>3, <1>6, <2>1, <3>1, AnswerStats
  <2>3. CASE ClaimMatches(q)
    <3>1. rec' = [rec EXCEPT ![x.job].status = x.to] /\ x.to \in Statuses
      BY <1>1, <1>2, <1>7, <2>1, <2>3 DEF ClaimStatus, RequestShape
    <3>2. /\ \A r \in Records \ {x.job} : rec'[r] = rec[r]
          /\ rec'[x.job].status = x.to /\ rec'[x.job].deleted = rec[x.job].deleted
          /\ rec'[x.job].cost = rec[x.job].cost /\ rec'[x.job].tech = rec[x.job].tech
      BY <1>2, <1>4, <3>1 DEF Job
    <3>3. Exists(x.job)' /\ (Live(x.job)' <=> Live(x.job))
      BY <1>4, <3>1, <3>2 DEF Live, Exists, Statuses
    <3>4. \A f \in Figures : Revenue(f)' = Revenue(f)
      BY <1>4, <3>2, <3>3, EditRevenue
    <3>5. CASE x.to = "completed"
      <4>1. PICK due, v : v = [x EXCEPT !.pc = "schedule", !.due = due]
                          /\ req' = [req EXCEPT ![q] = v]
        BY <1>1, <1>2, <1>7, <2>3, <3>5 DEF ClaimStatus, Request
      <4>2. v.pc = "schedule" /\ v.job = x.job /\ v.snap = x.snap
        BY <1>2, <4>1 DEF Request
      <4>3. StatsShape(v)'
        BY <1>5, <2>1, <3>3, <4>2 DEF StatsShape, Exists
      <4>4. QED BY <1>1, <1>3, <2>1, <3>4, <4>1, <4>3, GoOnStats
    <3>6. CASE x.to # "completed"
      <4>1. Answer(q)
        BY <1>1, <1>7, <2>3, <3>6 DEF ClaimStatus
      <4>2. QED BY <1>1, <1>3, <2>1, <3>4, <4>1, AnswerStats
    <3>7. QED BY <3>5, <3>6
  <2>4. QED BY <2>2, <2>3
<1>8. CASE WriteSchedule(q) \/ WriteOdometer(q) \/ InsertReading(q)
  <2>6. PICK pc \in {"odometer", "reading", "refresh"} :
          /\ req' = [req EXCEPT ![q] = [x EXCEPT !.pc = pc]]
          /\ x.pc \in {"schedule", "odometer", "reading"} /\ UNCHANGED <<rec, stats>>
    <3>1. CASE WriteSchedule(q)
      BY <1>1, <1>2, <3>1 DEF WriteSchedule, Request
    <3>2. CASE WriteOdometer(q)
      BY <1>1, <1>2, <3>2 DEF WriteOdometer, Request
    <3>3. CASE InsertReading(q)
      BY <1>1, <1>2, <3>3 DEF InsertReading, Request
    <3>4. QED BY <1>8, <3>1, <3>2, <3>3
  <2>1. PICK v :
          /\ v = [x EXCEPT !.pc = pc] /\ req' = [req EXCEPT ![q] = v]
          /\ x.pc \in {"schedule", "odometer", "reading"} /\ UNCHANGED <<rec, stats>>
    BY <2>6
  <2>2. v.pc = pc /\ v.job = x.job /\ v.snap = x.snap /\ v.due = x.due
    BY <1>2, <2>1 DEF Request
  <2>3. StatsShape(v)'
    BY <1>4, <1>5, <2>1, <2>2 DEF StatsShape, Exists
  <2>4. \A c \in Counters : Owes(x, c) => Owes(v, c)
    BY <2>1, <2>2 DEF Owes
  <2>5. QED BY <1>1, <1>3, <1>6, <2>1, <2>3, <2>4, GoOnStats
<1>9. CASE ReadPreviousTech(q) \/ ReadCost(q)
  <2>1. PICK v : /\ req' = [req EXCEPT ![q] = v] /\ x.pc \in {"prevTech", "cost"}
                 /\ UNCHANGED <<rec, stats>>
                 /\ v.pc \in {"cost", "write"} /\ v.job = x.job /\ v.snap = x.snap
                 /\ v.patch = x.patch
                 /\ v.prev = IF x.pc = "prevTech" THEN rec[x.job].tech ELSE x.prev
    <3>1. CASE ReadPreviousTech(q)
      <4>0. PICK pc \in {"cost", "write"} :
              pc = IF HasCost(x.patch) THEN "cost" ELSE "write"
        OBVIOUS
      <4>1. PICK v : v = [x EXCEPT !.prev = rec[x.job].tech, !.pc = pc]
        OBVIOUS
      <4>2. req' = [req EXCEPT ![q] = v] /\ x.pc = "prevTech" /\ UNCHANGED <<rec, stats>>
        BY <1>1, <1>2, <3>1, <4>0, <4>1 DEF ReadPreviousTech, Request
      <4>3. /\ v.pc = pc /\ v.job = x.job /\ v.snap = x.snap /\ v.patch = x.patch
            /\ v.prev = rec[x.job].tech
        BY <1>2, <4>1 DEF Request
      <4>4. QED BY <4>0, <4>2, <4>3
    <3>2. CASE ReadCost(q)
      <4>1. PICK cost, v : v = [x EXCEPT !.cost = cost, !.pc = "write"]
                           /\ req' = [req EXCEPT ![q] = v]
        BY <1>1, <1>2, <3>2 DEF ReadCost, Request
      <4>2. /\ v.pc = "write" /\ v.job = x.job /\ v.snap = x.snap /\ v.patch = x.patch
            /\ v.prev = x.prev
        BY <1>2, <4>1 DEF Request
      <4>3. x.pc = "cost" /\ UNCHANGED <<rec, stats>>
        BY <1>1, <3>2 DEF ReadCost
      <4>4. QED BY <4>1, <4>2, <4>3
    <3>3. QED BY <1>9, <3>1, <3>2
  <2>2. StatsShape(v)'
    BY <1>2, <1>4, <1>5, <2>1 DEF StatsShape, Exists
  <2>3. \A c \in Counters : ~Owes(x, c)
    BY <2>1 DEF Owes
  <2>4. QED BY <1>1, <1>3, <1>6, <2>1, <2>2, <2>3, GoOnStats
<1>10. CASE WriteUpdate(q)
  BY <1>10, WriteUpdateStats
<1>11. CASE WriteLabor(q) \/ WriteParts(q)
  <2>1. /\ x.pc \in {"lines", "partLines"} /\ stats' = stats
        /\ \/ rec' = [rec EXCEPT ![x.job].laborItems = x.lines]
           \/ rec' = [rec EXCEPT ![x.job].partsReplaced = x.lines]
    BY <1>1, <1>11 DEF WriteLabor, WriteParts
  <2>2. /\ \A r \in Records \ {x.job} : rec'[r] = rec[r]
        /\ rec'[x.job].status = rec[x.job].status /\ rec'[x.job].deleted = rec[x.job].deleted
        /\ rec'[x.job].cost = rec[x.job].cost /\ rec'[x.job].tech = rec[x.job].tech
    BY <1>2, <1>4, <2>1 DEF Job
  <2>3. Exists(x.job)' /\ (Live(x.job)' <=> Live(x.job))
    BY <1>4, <2>2 DEF Live, Exists
  <2>4. \A f \in Figures : Revenue(f)' = Revenue(f)
    BY <1>4, <2>2, <2>3, EditRevenue
  <2>5. \A c \in Counters : ~Owes(x, c)
    BY <2>1 DEF Owes
  <2>6. CASE WriteParts(q)
    BY <1>1, <1>3, <2>1, <2>4, <2>5, <2>6, AnswerStats DEF WriteParts
  <2>7. CASE WriteLabor(q)
    <3>1. PICK patch, v : /\ patch = [NoPatch EXCEPT !.labor = x.lines]
                          /\ v = [x EXCEPT !.pc = "cost", !.patch = patch]
                          /\ req' = [req EXCEPT ![q] = v]
      BY <1>1, <1>2, <2>7 DEF WriteLabor, Request
    <3>2. v.pc = "cost" /\ v.job = x.job /\ v.snap = x.snap /\ v.patch.tech = None
      BY <1>2, <3>1 DEF Request, NoPatch
    <3>3. StatsShape(v)'
      BY <1>5, <2>1, <2>3, <3>2 DEF StatsShape, Exists
    <3>4. QED BY <1>1, <1>3, <2>1, <2>4, <2>5, <3>1, <3>3, GoOnStats
  <2>8. QED BY <1>11, <2>6, <2>7
<1>12. ASSUME NEW c \in Counters, NEW f \in FiguresOf(c), QueryFigure(q, c, f) PROVE StatsInv'
  <2>1. /\ x.pc = "refresh" /\ UNCHANGED <<rec, stats>> /\ f \in Figures
        /\ req' = [req EXCEPT ![q].snap[f] = Recount(f)]
    BY <1>1, <1>12, CounterFigures DEF QueryFigure
  <2>2. PICK e, v : e = Recount(f) /\ v = [x EXCEPT !.snap[f] = e]
                    /\ req' = [req EXCEPT ![q] = v]
    BY <1>1, <1>2, <2>1 DEF Request
  <2>3. /\ v.pc = "refresh" /\ v.job = x.job /\ v.due = x.due /\ v.snap[f] = e
        /\ \A g \in Figures \ {f} : v.snap[g] = x.snap[g]
    BY <1>2, <2>1, <2>2 DEF Request
  <2>4. RevenueIn(e) = Revenue(f) /\ \A g \in Figures : Revenue(g)' = Revenue(g)
    BY <1>6, <2>1, <2>2, RevenueOfRecount
  <2>5. StatsShape(v)'
    <3>1. \A g \in Figures : v.snap[g] # None => RevenueIn(v.snap[g]) = Revenue(g)
      BY <1>2, <2>3, <2>4 DEF StatsShape
    <3>2. QED BY <1>4, <2>1, <2>3, <2>4, <3>1 DEF StatsShape, Exists, RevenueIn
  <2>6. \A d \in Counters : Owes(x, d) => Owes(v, d)
    BY <2>1, <2>3 DEF Owes
  <2>7. QED BY <1>1, <1>3, <2>1, <2>2, <2>4, <2>5, <2>6, GoOnStats
<1>13. ASSUME NEW c \in Counters, StoreCounter(q, c) PROVE StatsInv'
  BY <1>13, StoreStats
<1>14. CASE FinishRequest(q) \/ BookRevenue(q)
  <2>1. /\ UNCHANGED <<rec, stats>> /\ Answer(q) /\ \A c \in Counters : ~Owes(x, c)
    BY <1>1, <1>14 DEF FinishRequest, BookRevenue, Owes
  <2>2. QED BY <1>1, <1>3, <1>6, <2>1, AnswerStats
<1>15. QED BY <1>7, <1>8, <1>9, <1>10, <1>11, <1>12, <1>13, <1>14 DEF Advance

LEMMA NextStats ==
  ASSUME Sequential
  PROVE  TypeInv /\ StatsInv /\ [Next]_vars => StatsInv'
<1> SUFFICES ASSUME TypeInv, StatsInv, [Next]_vars PROVE StatsInv'
  OBVIOUS
<1>1. CASE UNCHANGED vars
  <2>1. UNCHANGED <<rec, stats, req>>
    BY <1>1 DEF vars
  <2>2. \A f : Revenue(f)' = Revenue(f)
    BY <2>1 DEF Revenue, Counted, Live, Exists
  <2>3. QED BY <2>1, <2>2 DEF StatsInv, Alone, InFlight, StatsShape, Settled, Owes, Exists, RevenueIn
<1>2. QED BY <1>1, ArriveStats, AdvanceStats DEF Next, RefreshFails, Abort, Sequential

(* Requests one after the other, none of which fails, leave every counter  *)
(* "exactly what the source collection says" (utils/staffStats.ts): each   *)
(* write of serviceRecord.service.ts refreshes every figure it moves.      *)
THEOREM StatsAreExact ==
  ASSUME Sequential
  PROVE  Spec => []StatsExactWhenQuiet
<1>1. Init => TypeInv /\ StatsInv
  BY InitTypeInv, InitStats
<1>2. TypeInv /\ StatsInv /\ [Next]_vars => (TypeInv /\ StatsInv)'
  BY NextTypeInv, NextStats
<1>3. TypeInv /\ StatsInv => StatsExactWhenQuiet
  <2>1. SUFFICES ASSUME StatsInv, InFlight = {}
                 PROVE  /\ JobsIn(stats["services"]) = JobsIn(Recount("services"))
                        /\ \A f \in {"spent"} \cup Techs : RevenueIn(stats[f]) = RevenueIn(Recount(f))
    BY DEF StatsExactWhenQuiet
  <2>2. \A c \in Counters : Settled(c)
    BY <2>1 DEF StatsInv, Owes, InFlight
  <2>3. \A f \in Figures : RevenueIn(stats[f]) = RevenueIn(Recount(f))
    <3>1. ASSUME NEW f \in Figures PROVE RevenueIn(stats[f]) = Revenue(f)
      <4>1. CASE f \in Techs
        BY <2>2, <4>1, ConstantsOK DEF Settled, Counters, FiguresOf
      <4>2. CASE f \in OwnerFigures
        BY <2>2, <4>2 DEF Settled, Counters, FiguresOf
      <4>3. QED BY <4>1, <4>2 DEF Figures
    <3>2. QED BY <3>1, RevenueOfRecount
  <2>4. ASSUME NEW e, NEW g, RevenueIn(e) = RevenueIn(g) PROVE JobsIn(e) \subseteq JobsIn(g)
    <3>1. SUFFICES ASSUME NEW y \in e PROVE \E z \in g : y.job = z.job
      BY DEF JobsIn
    <3>2. <<y.job, y.cost>> \in RevenueIn(g)
      BY <2>4 DEF RevenueIn
    <3>3. QED BY <3>2 DEF RevenueIn
  <2>5. QED BY <2>3, <2>4 DEF Figures, OwnerFigures
<1> QED BY <1>1, <1>2, <1>3, PTL DEF Spec

-----------------------------------------------------------------------------
(* The labour total of a job, one request at a time: addLabor() stores the *)
(* lines first and their total, through update(), last.                    *)

Relabours(rq) == rq.pc \in {"cost", "write"} /\ rq.op = "labor"

(* Only addLabor() sends a total, the one of the lines it has stored; any  *)
(* other write of the cost block puts the stored total back.               *)
LaborShape(rq) ==
  /\ rq.pc = "lines" => rq.op = "labor"
  /\ rq.pc = "prevTech" => rq.op # "labor"
  /\ rq.pc \in {"prevTech", "cost", "write"} /\ rq.patch.labor # None => rq.op = "labor"
  /\ Relabours(rq) => rq.patch.labor = rec[rq.job].laborItems
  /\ rq.pc = "write" /\ HasCost(rq.patch)
       => rq.cost.labor = IF rq.op = "labor" THEN rq.patch.labor ELSE rec[rq.job].cost.labor
  /\ Relabours(rq) => HasCost(rq.patch)

Summed(r) == rec[r].cost.labor = rec[r].laborItems

LaborInv ==
  /\ Alone
  /\ \A q \in Requests : LaborShape(req[q])
  /\ \A r \in Records : Summed(r) \/ \E q \in Requests : Relabours(req[q]) /\ req[q].job = r

LEMMA InitLabor == Init => LaborInv
<1> SUFFICES ASSUME Init PROVE LaborInv
  OBVIOUS
<1>1. \A q \in Requests : req[q].pc = "idle"
  BY DEF Init, Idle
<1>2. \A r \in Records : rec[r].cost.labor = {} /\ rec[r].laborItems = {}
  BY DEF Init
<1>3. QED BY <1>1, <1>2 DEF LaborInv, Alone, InFlight, LaborShape, Relabours, Summed

LEMMA LaborStep ==
  ASSUME TypeInv, LaborInv, NEW q \in Requests,
         \A p \in Requests \ {q} : req[p].pc = "idle" /\ req'[p] = req[p],
         LaborShape(req[q])',
         \A r \in Records : Summed(r)' \/ (Relabours(req'[q]) /\ req'[q].job = r)
  PROVE  LaborInv'
<1>1. Alone'
  BY DEF Alone, InFlight
<1>2. ASSUME NEW p \in Requests PROVE LaborShape(req[p])'
  <2>1. CASE p = q
    BY <2>1
  <2>2. CASE p # q
    BY <2>2 DEF LaborShape, Relabours
  <2>3. QED BY <2>1, <2>2
<1>3. ASSUME NEW r \in Records
      PROVE  (Summed(r) \/ \E p \in Requests : Relabours(req[p]) /\ req[p].job = r)'
  <2>1. Relabours(req'[q]) => Relabours(req[q])'
    BY DEF Relabours
  <2>2. QED BY <2>1
<1>4. QED BY <1>1, <1>2, <1>3 DEF LaborInv

(* A request steps without touching lines or total, before or after the    *)
(* part of addLabor() in which the two differ.                             *)
LEMMA QuietLabor ==
  ASSUME Sequential, TypeInv, LaborInv, NEW q \in Requests,
         req[q].pc # "idle" \/ \E op : Admit(q, op),
         ~Relabours(req[q]),
         NEW v, req' = [req EXCEPT ![q] = v], LaborShape(v)',
         \A r \in Records : Summed(r) => Summed(r)'
  PROVE  LaborInv'
<1>1. req'[q] = v /\ \A p \in Requests \ {q} : req[p].pc = "idle" /\ req'[p] = req[p]
  BY MovesAlone DEF LaborInv
<1>2. LaborShape(req[q])'
  BY <1>1 DEF LaborShape, Relabours
<1>3. \A r \in Records : Summed(r)'
  BY <1>1 DEF LaborInv, Relabours
<1>4. QED BY <1>1, <1>2, <1>3, LaborStep

(* A pc at which the shape asks for nothing. *)
LEMMA PlainShape ==
  ASSUME NEW v, v.pc \notin {"lines", "prevTech", "cost", "write"}
  PROVE  LaborShape(v)'
  BY DEF LaborShape, Relabours

LEMMA SummedFrame ==
  ASSUME NEW r, rec'[r].cost = rec[r].cost, rec'[r].laborItems = rec[r].laborItems
  PROVE  Summed(r) => Summed(r)'
  BY DEF Summed

LEMMA ArriveLabor ==
  ASSUME LaborFigures = {}, Sequential, TypeInv, LaborInv, NEW q \in Requests, Arrive(q)
  PROVE  LaborInv'
<1>0. rec \in [Records -> Job]
  BY DEF TypeInv, TypeOK
<1>1. CASE Create(q) \/ Delete(q) \/ ReadStatus(q) \/ ReadParts(q)
  <2>1. PICK v : req' = [req EXCEPT ![q] = v] /\ v.pc \in {"schedule", "refresh", "claim", "partLines"}
    <3>1. CASE Create(q)
      <4>0. PICK r \in Records, s \in Statuses, t \in Techs \cup {None}, next \in BOOLEAN :
              req' = [req EXCEPT ![q] =
                       [Idle EXCEPT
                         !.pc = IF s = "completed" /\ next THEN "schedule" ELSE "refresh",
                         !.op = "create", !.job = r,
                         !.due = {"owner"} \cup TechCounter(t)]]
        BY <3>1 DEF Create
      <4>4. PICK pc \in {"schedule", "refresh"} :
              req' = [req EXCEPT ![q] =
                       [Idle EXCEPT !.pc = pc, !.op = "create", !.job = r,
                                    !.due = {"owner"} \cup TechCounter(t)]]
        BY <4>0
      <4>1. PICK v : /\ v = [Idle EXCEPT !.pc = pc, !.op = "create", !.job = r,
                                         !.due = {"owner"} \cup TechCounter(t)]
                     /\ req' = [req EXCEPT ![q] = v]
        BY <4>4
      <4>2. v.pc = pc
        BY <4>1 DEF Idle
      <4>3. QED BY <4>1, <4>2
    <3>2. CASE Delete(q)
      <4>1. PICK r \in Records :
              req' = [req EXCEPT ![q] =
                       [Idle EXCEPT !.pc = "refresh", !.op = "delete", !.job = r,
                                    !.due = {"owner"} \cup TechCounter(rec[r].tech)]]
        BY <3>2 DEF Delete
      <4>2. PICK v : /\ v = [Idle EXCEPT !.pc = "refresh", !.op = "delete", !.job = r,
                                         !.due = {"owner"} \cup TechCounter(rec[r].tech)]
                     /\ req' = [req EXCEPT ![q] = v]
        BY <4>1
      <4>3. v.pc = "refresh"
        BY <4>2 DEF Idle
      <4>4. QED BY <4>2, <4>3
    <3>3. CASE ReadStatus(q)
      <4>1. PICK r, from, to, v :
              /\ v = [Idle EXCEPT !.pc = "claim", !.op = "status", !.job = r,
                                  !.from = from, !.to = to]
              /\ req' = [req EXCEPT ![q] = v]
        BY <3>3 DEF ReadStatus
      <4>2. v.pc = "claim"
        BY <4>1 DEF Idle
      <4>3. QED BY <4>1, <4>2
    <3>4. CASE ReadParts(q)
      <4>1. PICK r, lines, v :
              /\ v = [Idle EXCEPT !.pc = "partLines", !.op = "parts", !.job = r, !.lines = lines]
              /\ req' = [req EXCEPT ![q] = v]
        BY <3>4 DEF ReadParts
      <4>2. v.pc = "partLines"
        BY <4>1 DEF Idle
      <4>3. QED BY <4>1, <4>2
    <3>5. QED BY <1>1, <3>1, <3>2, <3>3, <3>4
  <2>2. LaborShape(v)'
    BY <2>1, PlainShape
  <2>3. ASSUME NEW r \in Records PROVE Summed(r) => Summed(r)'
    <3>1. CASE Create(q)
      BY <1>0, <3>1 DEF Create, Summed
    <3>2. CASE Delete(q)
      BY <1>0, <3>2 DEF Delete, Summed, Job
    <3>3. CASE ReadStatus(q) \/ ReadParts(q)
      BY <3>3 DEF ReadStatus, ReadParts, Summed
    <3>4. QED BY <1>1, <3>1, <3>2, <3>3
  <2>4. ~Relabours(req[q]) /\ \E op : Admit(q, op)
    BY <1>1 DEF Create, Delete, ReadStatus, ReadParts, Admit, Relabours
  <2>5. QED BY <2>1, <2>2, <2>3, <2>4, QuietLabor
<1>2. CASE AddFeedback(q)
  <2>1. /\ req' = req
        /\ \A r \in Records : /\ rec'[r].cost = rec[r].cost
                              /\ rec'[r].laborItems = rec[r].laborItems
    BY <1>0, <1>2 DEF AddFeedback, Job
  <2>2. \A p \in Requests : LaborShape(req[p])'
    BY <2>1 DEF LaborInv, LaborShape, Relabours, TypeInv, RequestShape
  <2>3. Alone'
    BY <2>1 DEF LaborInv, Alone, InFlight
  <2>4. QED BY <2>1, <2>2, <2>3 DEF LaborInv, Summed, Relabours
<1>3. CASE Put(q)
  <2>1. PICK r \in Records, s \in PutStatuses \cup {None}, t \in Techs \cup {None},
             p \in Amounts \cup {None}, l \in LaborFigures \cup {None} :
          LET patch == [status |-> s, tech |-> t, parts |-> p, labor |-> l] IN
          /\ Exists(r)
          /\ patch # NoPatch
          /\ req' = [req EXCEPT ![q] =
                      [Idle EXCEPT !.pc = UpdateEntry(patch), !.op = "put",
                                   !.job = r, !.patch = patch]]
    BY <1>3 DEF Put
  <2>2. PICK patch : patch = [status |-> s, tech |-> t, parts |-> p, labor |-> l] /\ l = None
    OBVIOUS
  <2>3. PICK v : /\ v = [Idle EXCEPT !.pc = UpdateEntry(patch), !.op = "put",
                                      !.job = r, !.patch = patch]
                  /\ req' = [req EXCEPT ![q] = v]
    BY <2>1, <2>2
  <2>4. v.pc = UpdateEntry(patch) /\ v.op = "put" /\ v.patch = patch /\ patch.labor = None
    BY <2>2, <2>3 DEF Idle
  <2>5. v.pc = "write" => ~HasCost(v.patch)
    BY <2>4 DEF UpdateEntry
  <2>6. v.pc \in {"prevTech", "cost", "write"}
    BY <2>4 DEF UpdateEntry
  <2>7. LaborShape(v)'
    BY <2>4, <2>5, <2>6 DEF LaborShape, Relabours
  <2>8. /\ ~Relabours(req[q]) /\ \E op : Admit(q, op)
        /\ \A x \in Records : Summed(x) => Summed(x)'
    BY <1>3 DEF Put, Admit, Relabours, Summed
  <2>9. QED BY <2>7, <2>8, <2>3, QuietLabor
<1>4. CASE ReadLabor(q)
  <2>1. PICK r, lines, v :
          /\ r \in Records
          /\ v = [Idle EXCEPT !.pc = "lines", !.op = "labor", !.job = r, !.lines = lines]
          /\ req' = [req EXCEPT ![q] = v]
    BY <1>4 DEF ReadLabor
  <2>2. v.pc = "lines" /\ v.op = "labor"
    BY <2>1 DEF Idle
  <2>3. LaborShape(v)'
    BY <2>2 DEF LaborShape, Relabours
  <2>4. /\ ~Relabours(req[q]) /\ \E op : Admit(q, op)
        /\ \A x \in Records : Summed(x) => Summed(x)'
    BY <1>4 DEF ReadLabor, Admit, Relabours, Summed
  <2>5. QED BY <2>1, <2>3, <2>4, QuietLabor
<1>5. QED BY <1>1, <1>2, <1>3, <1>4 DEF Arrive

(* The lines are stored, ... *)
LEMMA WriteLaborLabor ==
  ASSUME Sequential, TypeInv, LaborInv, NEW q \in Requests, WriteLabor(q)
  PROVE  LaborInv'
<1>1. PICK x : x = req[q]
  OBVIOUS
<1>2. /\ x \in Request /\ RequestShape(x) /\ LaborShape(x) /\ x.pc = "lines"
      /\ req \in [Requests -> Request] /\ rec \in [Records -> Job]
      /\ rec' = [rec EXCEPT ![x.job].laborItems = x.lines]
  BY <1>1 DEF TypeInv, TypeOK, LaborInv, WriteLabor
<1>3. PICK patch, v : /\ patch = [NoPatch EXCEPT !.labor = x.lines]
                      /\ v = [x EXCEPT !.pc = "cost", !.patch = patch]
                      /\ req' = [req EXCEPT ![q] = v]
  BY <1>1, <1>2 DEF WriteLabor, Request
<1>4. /\ v.pc = "cost" /\ v.job = x.job /\ v.op = "labor" /\ v.patch.labor = x.lines
      /\ x.job \in Records /\ x.lines \in SUBSET Lines
  BY <1>2, <1>3 DEF Request, NoPatch, LaborShape, RequestShape
<1>5. /\ rec'[x.job].laborItems = x.lines
      /\ \A r \in Records \ {x.job} : rec'[r] = rec[r]
  BY <1>2, <1>4 DEF Job
<1>6. req'[q] = v /\ \A p \in Requests \ {q} : req[p].pc = "idle" /\ req'[p] = req[p]
  <2>1. Alone /\ req[q].pc # "idle"
    BY <1>1, <1>2 DEF LaborInv
  <2>2. QED BY <1>3, <2>1, MovesAlone
<1>7. x.lines # None
  BY <1>4, ConstantsOK
<1>8. HasCost(v.patch)
  BY <1>4, <1>7 DEF HasCost
<1>9. LaborShape(req[q])'
  BY <1>4, <1>5, <1>6, <1>8 DEF LaborShape, Relabours
<1>10. \A r \in Records : Summed(r)' \/ (Relabours(req'[q]) /\ req'[q].job = r)
  <2>1. ~Relabours(x)
    BY <1>2 DEF Relabours
  <2>2. \A r \in Records : Summed(r)
    BY <1>1, <1>6, <2>1 DEF LaborInv, Relabours
  <2>3. QED BY <1>4, <1>5, <1>6, <2>2 DEF Summed, Relabours
<1>11. QED BY <1>6, <1>9, <1>10, LaborStep

(* ... the cost block rebuilt, ... *)
LEMMA ReadCostLabor ==
  ASSUME Sequential, TypeInv, LaborInv, NEW q \in Requests, ReadCost(q)
  PROVE  LaborInv'
<1>1. PICK x, cost : /\ x = req[q]
                     /\ cost = [parts |-> IF x.patch.parts # None THEN x.patch.parts
                                          ELSE rec[x.job].cost.parts,
                                labor |-> IF x.patch.labor # None THEN x.patch.labor
                                          ELSE rec[x.job].cost.labor]
  OBVIOUS
<1>2. /\ x \in Request /\ RequestShape(x) /\ LaborShape(x) /\ x.pc = "cost"
      /\ req \in [Requests -> Request] /\ rec \in [Records -> Job] /\ rec' = rec
  BY <1>1 DEF TypeInv, TypeOK, LaborInv, ReadCost
<1>3. PICK v : v = [x EXCEPT !.cost = cost, !.pc = "write"] /\ req' = [req EXCEPT ![q] = v]
  BY <1>1, <1>2 DEF ReadCost, Request
<1>4. /\ v.pc = "write" /\ v.job = x.job /\ v.op = x.op /\ v.patch = x.patch /\ v.cost = cost
      /\ x.job \in Records
  BY <1>2, <1>3 DEF Request, RequestShape
<1>5. req'[q] = v /\ \A p \in Requests \ {q} : req[p].pc = "idle" /\ req'[p] = req[p]
  <2>1. Alone /\ req[q].pc # "idle"
    BY <1>1, <1>2 DEF LaborInv
  <2>2. QED BY <1>3, <2>1, MovesAlone
<1>6. cost.labor = IF x.op = "labor" THEN x.patch.labor ELSE rec[x.job].cost.labor
  <2>1. CASE x.op = "labor"
    <3>1. x.patch.labor = rec[x.job].laborItems /\ rec[x.job].laborItems \in SUBSET Lines
      BY <1>2, <1>4, <2>1 DEF LaborShape, Relabours, Job
    <3>2. x.patch.labor # None
      BY <3>1, ConstantsOK
    <3>3. QED BY <1>1, <2>1, <3>2
  <2>2. CASE x.op # "labor"
    BY <1>1, <1>2, <2>2 DEF LaborShape
  <2>3. QED BY <2>1, <2>2
<1>7. LaborShape(req[q])'
  BY <1>2, <1>4, <1>5, <1>6 DEF LaborShape, Relabours
<1>8. \A r \in Records : Summed(r)' \/ (Relabours(req'[q]) /\ req'[q].job = r)
  BY <1>1, <1>2, <1>4, <1>5 DEF LaborInv, Summed, Relabours
<1>9. QED BY <1>5, <1>7, <1>8, LaborStep

(* ... and the total written. *)
LEMMA WriteUpdateLabor ==
  ASSUME Sequential, TypeInv, LaborInv, NEW q \in Requests, WriteUpdate(q)
  PROVE  LaborInv'
<1>1. PICK x, j : x = req[q] /\ j = Updated(q)
  OBVIOUS
<1>2. /\ x \in Request /\ RequestShape(x) /\ LaborShape(x) /\ x.pc = "write"
      /\ req \in [Requests -> Request] /\ rec \in [Records -> Job]
      /\ rec' = [rec EXCEPT ![x.job] = j]
  BY <1>1 DEF TypeInv, TypeOK, LaborInv, WriteUpdate
<1>3. x.job \in Records
  BY <1>2 DEF RequestShape
<1>4. /\ j.laborItems = rec[x.job].laborItems
      /\ j.cost = IF HasCost(x.patch) THEN x.cost ELSE rec[x.job].cost
      /\ rec'[x.job] = j /\ \A r \in Records \ {x.job} : rec'[r] = rec[r]
  BY <1>1, <1>2, <1>3 DEF Updated, Job
<1>5. PICK due, v : /\ v = [x EXCEPT !.pc = "refresh", !.due = due]
                    /\ req' = [req EXCEPT ![q] = v]
  BY <1>1, <1>2 DEF WriteUpdate, Request
<1>6. v.pc = "refresh"
  BY <1>2, <1>5 DEF Request
<1>7. req'[q] = v /\ \A p \in Requests \ {q} : req[p].pc = "idle" /\ req'[p] = req[p]
  <2>1. Alone /\ req[q].pc # "idle"
    BY <1>1, <1>2 DEF LaborInv
  <2>2. QED BY <1>5, <2>1, MovesAlone
<1>8. LaborShape(req[q])'
  BY <1>6, <1>7 DEF LaborShape, Relabours
<1>9. \A r \in Records \ {x.job} : Summed(r)'
  BY <1>1, <1>4, <1>7 DEF LaborInv, Summed, Relabours
<1>10. Summed(x.job)'
  <2>1. CASE x.op = "labor"
    BY <1>2, <1>4, <2>1 DEF LaborShape, Relabours, Summed
  <2>2. CASE x.op # "labor"
    <3>1. Summed(x.job)
      BY <1>1, <1>3, <1>7, <2>2 DEF LaborInv, Relabours
    <3>2. QED BY <1>2, <1>4, <2>2, <3>1 DEF LaborShape, Summed
  <2>3. QED BY <2>1, <2>2
<1>11. QED BY <1>7, <1>8, <1>9, <1>10, LaborStep

LEMMA AdvanceLabor ==
  ASSUME Sequential, TypeInv, LaborInv, NEW q \in Requests, Advance(q)
  PROVE  LaborInv'
<1>1. PICK x : x = req[q]
  OBVIOUS
<1>2. /\ x \in Request /\ RequestShape(x) /\ LaborShape(x)
      /\ req \in [Requests -> Request] /\ rec \in [Records -> Job]
  BY <1>1 DEF TypeInv, TypeOK, LaborInv
<1>3. CASE WriteLabor(q) \/ ReadCost(q) \/ WriteUpdate(q)
  BY <1>3, WriteLaborLabor, ReadCostLabor, WriteUpdateLabor
<1>4. CASE ReadPreviousTech(q)
  <2>0. PICK pc \in {"cost", "write"} :
          pc = IF HasCost(x.patch) THEN "cost" ELSE "write"
    OBVIOUS
  <2>1. PICK v : v = [x EXCEPT !.prev = rec[x.job].tech, !.pc = pc]
    OBVIOUS
  <2>2. req' = [req EXCEPT ![q] = v] /\ x.pc = "prevTech" /\ rec' = rec
    BY <1>1, <1>2, <1>4, <2>0, <2>1 DEF ReadPreviousTech, Request
  <2>3. v.pc = pc /\ v.op = x.op /\ v.patch = x.patch
    BY <1>2, <2>0, <2>1 DEF Request
  <2>4. x.op # "labor"
    BY <1>2, <2>2 DEF LaborShape
  <2>5. LaborShape(v)'
    BY <1>2, <2>0, <2>1, <2>2, <2>3, <2>4 DEF LaborShape, Relabours
  <2>6. ~Relabours(x) /\ \A r \in Records : Summed(r) => Summed(r)'
    BY <2>2 DEF Relabours, Summed
  <2>7. QED BY <1>1, <2>2, <2>5, <2>6, QuietLabor
<1>5. ASSUME ~(WriteLabor(q) \/ ReadCost(q) \/ WriteUpdate(q) \/ ReadPreviousTech(q))
      PROVE  LaborInv'
  <2>1. /\ x.pc \in {"claim", "schedule", "odometer", "reading", "partLines", "refresh"}
        /\ \A r \in Records : /\ rec'[r].cost = rec[r].cost
                              /\ rec'[r].laborItems = rec[r].laborItems
    <3>1. CASE ClaimStatus(q)
      BY <1>1, <1>2, <3>1 DEF ClaimStatus, RequestShape, Job
    <3>2. CASE WriteParts(q)
      BY <1>1, <1>2, <3>2 DEF WriteParts, RequestShape, Job
    <3>3. CASE \/ WriteSchedule(q) \/ WriteOdometer(q) \/ InsertReading(q)
               \/ FinishRequest(q) \/ BookRevenue(q)
      BY <1>1, <3>3 DEF WriteSchedule, WriteOdometer, InsertReading, FinishRequest, BookRevenue
    <3>4. ASSUME NEW c \in Counters, \/ \E f \in FiguresOf(c) : QueryFigure(q, c, f)
                                     \/ StoreCounter(q, c)
          PROVE  x.pc = "refresh" /\ rec' = rec
      BY <1>1, <3>4 DEF QueryFigure, StoreCounter
    <3>5. QED BY <1>5, <3>1, <3>2, <3>3, <3>4 DEF Advance
  <2>2. PICK v : req' = [req EXCEPT ![q] = v]
                 /\ v.pc \notin {"lines", "prevTech", "cost", "write"}
    <3>1. ASSUME Answer(q) PROVE req' = [req EXCEPT ![q] = Idle] /\ Idle.pc = "idle"
      BY <3>1 DEF Answer, Idle
    <3>2. CASE ClaimStatus(q)
      <4>1. CASE Answer(q)
        BY <3>1, <4>1
      <4>2. CASE ~Answer(q)
        <5>1. PICK due, v : /\ v = [x EXCEPT !.pc = "schedule", !.due = due]
                            /\ req' = [req EXCEPT ![q] = v]
          BY <1>1, <1>2, <3>2, <4>2 DEF ClaimStatus, Request
        <5>2. v.pc = "schedule"
          BY <1>2, <5>1 DEF Request
        <5>3. QED BY <5>1, <5>2
      <4>3. QED BY <4>1, <4>2
    <3>3. CASE WriteParts(q) \/ FinishRequest(q) \/ BookRevenue(q)
      BY <3>1, <3>3 DEF WriteParts, FinishRequest, BookRevenue
    <3>4. CASE WriteSchedule(q) \/ WriteOdometer(q) \/ InsertReading(q)
      <4>1. PICK pc \in {"odometer", "reading", "refresh"} : req' = [req EXCEPT ![q].pc = pc]
        BY <3>4 DEF WriteSchedule, WriteOdometer, InsertReading
      <4>2. PICK v : v = [x EXCEPT !.pc = pc]
        OBVIOUS
      <4>3. req' = [req EXCEPT ![q] = v] /\ v.pc = pc
        BY <1>1, <1>2, <4>1, <4>2 DEF Request
      <4>4. QED BY <4>3
    <3>5. ASSUME NEW c \in Counters, NEW f \in FiguresOf(c), QueryFigure(q, c, f)
          PROVE  \E v : req' = [req EXCEPT ![q] = v] /\ v.pc = x.pc
      <4>1. PICK e, v : v = [x EXCEPT !.snap[f] = e] /\ req' = [req EXCEPT ![q] = v]
        BY <1>1, <1>2, <3>5 DEF QueryFigure, Request
      <4>2. v.pc = x.pc
        BY <1>2, <4>1 DEF Request
      <4>3. QED BY <4>1, <4>2
    <3>6. ASSUME NEW c \in Counters, StoreCounter(q, c)
          PROVE  \E v : req' = [req EXCEPT ![q] = v] /\ v.pc = x.pc
      <4>1. PICK e, v : v = [x EXCEPT !.due = @ \ {c}, !.snap = e]
                        /\ req' = [req EXCEPT ![q] = v]
        BY <1>1, <1>2, <3>6 DEF StoreCounter, ForgetCounter, Request
      <4>2. v.pc = x.pc
        BY <1>2, <4>1 DEF Request
      <4>3. QED BY <4>1, <4>2
    <3>7. QED BY <1>5, <2>1, <3>2, <3>3, <3>4, <3>5, <3>6 DEF Advance
  <2>3. LaborShape(v)'
    BY <2>2, PlainShape
  <2>4. ~Relabours(x) /\ x.pc # "idle" /\ \A r \in Records : Summed(r) => Summed(r)'
    BY <2>1, SummedFrame DEF Relabours
  <2>5. QED BY <1>1, <2>2, <2>3, <2>4, QuietLabor
<1>6. QED BY <1>3, <1>4, <1>5

LEMMA NextLabor ==
  ASSUME LaborFigures = {}, Sequential
  PROVE  TypeInv /\ LaborInv /\ [Next]_vars => LaborInv'
<1> SUFFICES ASSUME TypeInv, LaborInv, [Next]_vars PROVE LaborInv'
  OBVIOUS
<1>1. CASE UNCHANGED vars
  BY <1>1 DEF vars, LaborInv, Alone, InFlight, LaborShape, Relabours, Summed
<1>2. QED BY <1>1, ArriveLabor, AdvanceLabor DEF Next, RefreshFails, Abort, Sequential

(* "cost.laborTotal ... is recomputed from this array whenever it changes, *)
(* so the two can't drift" (models/ServiceRecord.ts): so it is when        *)
(* requests come one after the other, none fails and no client sends a     *)
(* total of its own.                                                       *)
THEOREM LaborTotalKept ==
  ASSUME LaborFigures = {}, Sequential
  PROVE  Spec => []LaborTotalMatchesLines
<1>1. Init => TypeInv /\ LaborInv
  BY InitTypeInv, InitLabor
<1>2. TypeInv /\ LaborInv /\ [Next]_vars => (TypeInv /\ LaborInv)'
  BY NextTypeInv, NextLabor
<1>3. TypeInv /\ LaborInv => LaborTotalMatchesLines
  BY DEF LaborInv, Summed, Relabours, LaborTotalMatchesLines, InFlight
<1> QED BY <1>1, <1>2, <1>3, PTL DEF Spec
=============================================================================
