---------------------------- MODULE ServiceRecord ----------------------------
(***************************************************************************)
(* The jobs (service records) of one customer at one service center: the   *)
(* lifecycle of src/services/serviceRecord.service.ts, the one-time        *)
(* effects of completing a job, and the counters ownerStats.ts and         *)
(* staffStats.ts recompute after every write.                              *)
(*                                                                         *)
(* A request is an async function: every await on the database is the end  *)
(* of one action, and requests interleave between actions.  A request that *)
(* is answered, or rejected before it writes, is idle again; a rejection   *)
(* that writes nothing is a stuttering step and has no action.             *)
(*                                                                         *)
(* Amounts are data: a figure is represented by the entries it is the sum  *)
(* of, so a count is the set of jobs counted, a spend the set of jobs with *)
(* their cost, and a labour total the set of labour lines it sums.         *)
(***************************************************************************)
EXTENDS Naturals, FiniteSets

CONSTANTS
  Records,       \* job ids
  Techs,         \* staff profiles a job can be assigned to
  Requests,      \* slots for concurrent HTTP requests
  Lines,         \* ids of labour lines and part lines
  Amounts,       \* values of cost.partsTotal
  LaborFigures,  \* cost.laborTotal values a client types in itself
  Ratings,       \* feedback ratings
  PutStatuses,   \* `status` values clients send on PUT /service-records/:id
  Operations,    \* the operations this instance exercises
  MaxInFlight,   \* requests in progress at once
  MayFail,       \* whether a database call may fail or the process die
  None

Statuses == {"scheduled", "in_progress", "completed", "cancelled"}

ASSUME ConstantsOK ==
  /\ Amounts # {}
  /\ LaborFigures \subseteq SUBSET Lines
  /\ PutStatuses \subseteq Statuses
  /\ MaxInFlight \in Nat \ {0}
  /\ MayFail \in BOOLEAN
  /\ None \notin Records \cup Techs \cup Amounts \cup Ratings \cup Statuses
  /\ \A lines \in SUBSET Lines : lines # None
  /\ {"owner", "services", "spent"} \cap Techs = {}

VARIABLES
  rec,       \* the ServiceRecord collection
  stats,     \* OwnerProfile.stats ("services", "spent") and StaffProfile.stats
  center,    \* ServiceCenter.stats: how often each job has been added to it
  vehicle,   \* the vehicle's serviceSchedule and currentOdometer
  readings,  \* OdometerReading documents written for each job
  req        \* the requests in progress

vars == <<rec, stats, center, vehicle, readings, req>>

-----------------------------------------------------------------------------
(* Types *)

Cost  == [parts : Amounts, labor : SUBSET Lines]
Job   == [status : Statuses \cup {"absent"}, deleted : BOOLEAN,
          tech : Techs \cup {None}, cost : Cost, laborItems : SUBSET Lines,
          partsReplaced : SUBSET Lines, rating : Ratings \cup {None}]
Entry == [job : Records, cost : Cost, rating : Ratings \cup {None}]

OwnerFigures == {"services", "spent"}
Figures      == OwnerFigures \cup Techs
Counters     == {"owner"} \cup Techs       \* one document each

(* The fields of a PUT body that matter here; None is "not sent". *)
Patch == [status : Statuses \cup {None}, tech : Techs \cup {None},
          parts : Amounts \cup {None}, labor : (SUBSET Lines) \cup {None}]

OpNames == {"create", "status", "put", "labor", "parts", "feedback", "delete"}

PCs == {"idle", "claim", "schedule", "odometer", "reading",
        "prevTech", "cost", "write", "lines", "partLines", "refresh"}

Request ==
  [pc : PCs, op : OpNames \cup {None}, job : Records \cup {None},
   from : Statuses \cup {None}, to : Statuses \cup {None},
   patch : Patch, cost : Cost \cup {None}, lines : SUBSET Lines,
   prev : Techs \cup {None}, due : SUBSET Counters,
   snap : [Figures -> (SUBSET Entry) \cup {None}]]

NoPatch == [status |-> None, tech |-> None, parts |-> None, labor |-> None]
NoSnap  == [f \in Figures |-> None]
Idle    == [pc |-> "idle", op |-> None, job |-> None, from |-> None,
            to |-> None, patch |-> NoPatch, cost |-> None, lines |-> {},
            prev |-> None, due |-> {}, snap |-> NoSnap]

TypeOK ==
  /\ rec \in [Records -> Job]
  /\ stats \in [Figures -> SUBSET Entry]
  /\ center \in [Records -> Nat]
  /\ vehicle \in [schedule : Records \cup {None}, odometer : Records \cup {None}]
  /\ readings \in [Records -> Nat]
  /\ req \in [Requests -> Request]

-----------------------------------------------------------------------------
(* Helpers *)

(* Mutant of Allowed: a finished job can be reopened for rework. *)
AllowedReopening(s) ==
  CASE s = "scheduled"   -> {"in_progress", "completed", "cancelled"}
    [] s = "in_progress" -> {"scheduled", "completed", "cancelled"}
    [] s = "completed"   -> {"scheduled"}
    [] s = "cancelled"   -> {"scheduled"}
    [] OTHER             -> {}

(* serviceRecordTransitions.ts: the ALLOWED table. *)
Allowed(s) ==
  CASE s = "scheduled"   -> {"in_progress", "completed", "cancelled"}
    [] s = "in_progress" -> {"scheduled", "completed", "cancelled"}
    [] s = "completed"   -> {}
    [] s = "cancelled"   -> {"scheduled"}
    [] OTHER             -> {}

canTransition(s, t) == t \in Allowed(s)

Exists(r) == rec[r].status # "absent"
Live(r)   == Exists(r) /\ ~rec[r].deleted

(* What an aggregate over the collection returns for one figure. *)
Recount(f) ==
  {[job |-> r, cost |-> rec[r].cost, rating |-> rec[r].rating] :
     r \in {x \in Records : Live(x) /\ (f \in Techs => rec[x].tech = f)}}

FiguresOf(c) == IF c = "owner" THEN OwnerFigures ELSE {c}

TechCounter(t) == IF t = None THEN {} ELSE {t}

Answer(q) == req' = [req EXCEPT ![q] = Idle]

InFlight == {q \in Requests : req[q].pc # "idle"}

Admit(q, op) ==
  /\ req[q].pc = "idle"
  /\ op \in Operations
  /\ Cardinality(InFlight) < MaxInFlight

HasCost(p) == p.parts # None \/ p.labor # None

(* The first await of update(): each read happens only if its field is sent. *)
UpdateEntry(p) ==
  IF p.tech # None THEN "prevTech" ELSE IF HasCost(p) THEN "cost" ELSE "write"

-----------------------------------------------------------------------------
Init ==
  /\ rec = [r \in Records |->
             [status |-> "absent", deleted |-> FALSE, tech |-> None,
              cost |-> [parts |-> CHOOSE a \in Amounts : TRUE, labor |-> {}],
              laborItems |-> {}, partsReplaced |-> {}, rating |-> None]]
  /\ stats = [f \in Figures |-> {}]
  /\ center = [r \in Records |-> 0]
  /\ vehicle = [schedule |-> None, odometer |-> None]
  /\ readings = [r \in Records |-> 0]
  /\ req = [q \in Requests |-> Idle]

-----------------------------------------------------------------------------
(* create(): the insert; a job may be created already completed, and only  *)
(* one created with a next service updates the vehicle.                    *)
Create(q) ==
  /\ Admit(q, "create")
  /\ \E r \in Records, s \in Statuses, t \in Techs \cup {None}, p \in Amounts,
        l \in LaborFigures \cup {{}}, next \in BOOLEAN :
       /\ ~Exists(r)
       /\ rec' = [rec EXCEPT ![r] =
                   [status |-> s, deleted |-> FALSE, tech |-> t,
                    cost |-> [parts |-> p, labor |-> l], laborItems |-> {},
                    partsReplaced |-> {}, rating |-> None]]
       /\ req' = [req EXCEPT ![q] =
                   [Idle EXCEPT
                     !.pc = IF s = "completed" /\ next THEN "schedule" ELSE "refresh",
                     !.op = "create", !.job = r,
                     !.due = {"owner"} \cup TechCounter(t)]]
  /\ UNCHANGED <<stats, center, vehicle, readings>>

(* updateStatus(), first read: the same status is a no-op and a forbidden  *)
(* transition is rejected, so only an allowed one goes on.                 *)
ReadStatus(q) ==
  /\ Admit(q, "status")
  /\ \E r \in Records, to \in Statuses :
       /\ Live(r)
       /\ canTransition(rec[r].status, to)
       /\ req' = [req EXCEPT ![q] =
                   [Idle EXCEPT !.pc = "claim", !.op = "status", !.job = r,
                                !.from = rec[r].status, !.to = to]]
  /\ UNCHANGED <<rec, stats, center, vehicle, readings>>

(* Mutant of ClaimMatches: the filter forgets the previous status. *)
ClaimMatchesAnyStatus(q) == ~rec[req[q].job].deleted

(* The filter of updateStatus()'s findOneAndUpdate. *)
ClaimMatches(q) ==
  /\ ~rec[req[q].job].deleted
  /\ rec[req[q].job].status = req[q].from

(* The conditional update: the loser of a race matches nothing and gets a 409. *)
ClaimStatus(q) ==
  /\ req[q].pc = "claim"
  /\ IF ClaimMatches(q)
       THEN /\ rec' = [rec EXCEPT ![req[q].job].status = req[q].to]
            /\ IF req[q].to = "completed"
                 THEN req' = [req EXCEPT
                               ![q].pc = "schedule",
                               ![q].due = {"owner"} \cup TechCounter(rec[req[q].job].tech)]
                 ELSE Answer(q)
       ELSE /\ Answer(q)
            /\ UNCHANGED rec
  /\ UNCHANGED <<stats, center, vehicle, readings>>

(* vehicle.save() with the job's service schedule. *)
WriteSchedule(q) ==
  /\ req[q].pc = "schedule"
  /\ vehicle' = [vehicle EXCEPT !.schedule = req[q].job]
  /\ req' = [req EXCEPT ![q].pc = "odometer"]
  /\ UNCHANGED <<rec, stats, center, readings>>

(* odometerReadingService.record() with source "service_record": the cached *)
(* reading is overwritten whatever it was, ...                             *)
WriteOdometer(q) ==
  /\ req[q].pc = "odometer"
  /\ vehicle' = [vehicle EXCEPT !.odometer = req[q].job]
  /\ req' = [req EXCEPT ![q].pc = "reading"]
  /\ UNCHANGED <<rec, stats, center, readings>>

(* ... and the history gets a document of its own. *)
InsertReading(q) ==
  /\ req[q].pc = "reading"
  /\ readings' = [readings EXCEPT ![req[q].job] = @ + 1]
  /\ req' = [req EXCEPT ![q].pc = "refresh"]
  /\ UNCHANGED <<rec, stats, center, vehicle>>

-----------------------------------------------------------------------------
(* update(): PUT /service-records/:id, whose body is spread into the write. *)
Put(q) ==
  /\ Admit(q, "put")
  /\ \E r \in Records, s \in PutStatuses \cup {None}, t \in Techs \cup {None},
        p \in Amounts \cup {None}, l \in LaborFigures \cup {None} :
       LET patch == [status |-> s, tech |-> t, parts |-> p, labor |-> l] IN
       /\ Exists(r)
       /\ patch # NoPatch
       /\ req' = [req EXCEPT ![q] =
                   [Idle EXCEPT !.pc = UpdateEntry(patch), !.op = "put",
                                !.job = r, !.patch = patch]]
  /\ UNCHANGED <<rec, stats, center, vehicle, readings>>

(* Mutant of ReadPreviousTech: keeps the whole document it read. *)
ReadPreviousJob(q) ==
  /\ req[q].pc = "prevTech"
  /\ req' = [req EXCEPT ![q].prev = rec[req[q].job],
                        ![q].pc = IF HasCost(req[q].patch) THEN "cost" ELSE "write"]
  /\ UNCHANGED <<rec, stats, center, vehicle, readings>>

(* The technician before the edit, "captured while it is still readable". *)
ReadPreviousTech(q) ==
  /\ req[q].pc = "prevTech"
  /\ req' = [req EXCEPT ![q].prev = rec[req[q].job].tech,
                        ![q].pc = IF HasCost(req[q].patch) THEN "cost" ELSE "write"]
  /\ UNCHANGED <<rec, stats, center, vehicle, readings>>

(* The whole cost block is rebuilt from the sent fields and the stored ones. *)
ReadCost(q) ==
  /\ req[q].pc = "cost"
  /\ LET patch  == req[q].patch
         stored == rec[req[q].job].cost
     IN  req' = [req EXCEPT
           ![q].cost = [parts |-> IF patch.parts # None THEN patch.parts ELSE stored.parts,
                        labor |-> IF patch.labor # None THEN patch.labor ELSE stored.labor],
           ![q].pc = "write"]
  /\ UNCHANGED <<rec, stats, center, vehicle, readings>>

(* The job as findByIdAndUpdate leaves it: no filter on status or isDeleted. *)
Updated(q) ==
  LET job   == rec[req[q].job]
      patch == req[q].patch
  IN  [job EXCEPT !.status = IF patch.status # None THEN patch.status ELSE @,
                  !.tech   = IF patch.tech # None THEN patch.tech ELSE @,
                  !.cost   = IF HasCost(patch) THEN req[q].cost ELSE @]

(* Mutant of UpdateDue: a reassignment refreshes the new technician only. *)
UpdateDueGainOnly(q) ==
  LET patch == req[q].patch
      tech  == Updated(q).tech
  IN  (IF HasCost(patch) THEN {"owner"} ELSE {})
      \cup (IF HasCost(patch) \/ patch.tech # None THEN TechCounter(tech) ELSE {})

(* The counters update() refreshes: the owner's for a cost change, the     *)
(* technician's for a cost change or a reassignment, and the technician    *)
(* the job was taken from.                                                 *)
UpdateDue(q) ==
  LET patch == req[q].patch
      tech  == Updated(q).tech
  IN  (IF HasCost(patch) THEN {"owner"} ELSE {})
      \cup (IF HasCost(patch) \/ patch.tech # None THEN TechCounter(tech) ELSE {})
      \cup (IF req[q].prev # tech THEN TechCounter(req[q].prev) ELSE {})

WriteUpdate(q) ==
  /\ req[q].pc = "write"
  /\ rec' = [rec EXCEPT ![req[q].job] = Updated(q)]
  /\ req' = [req EXCEPT ![q].pc = "refresh", ![q].due = UpdateDue(q)]
  /\ UNCHANGED <<stats, center, vehicle, readings>>

(* addLabor(): reads the lines, appends one, writes the array back ... *)
ReadLabor(q) ==
  /\ Admit(q, "labor")
  /\ \E r \in Records, l \in Lines :
       /\ Live(r)
       /\ l \notin rec[r].laborItems
       /\ req' = [req EXCEPT ![q] =
                   [Idle EXCEPT !.pc = "lines", !.op = "labor", !.job = r,
                                !.lines = rec[r].laborItems \cup {l}]]
  /\ UNCHANGED <<rec, stats, center, vehicle, readings>>

(* Mutant of WriteLabor: the lines are stored and the total is left alone. *)
WriteLaborOnly(q) ==
  /\ req[q].pc = "lines"
  /\ rec' = [rec EXCEPT ![req[q].job].laborItems = req[q].lines]
  /\ Answer(q)
  /\ UNCHANGED <<stats, center, vehicle, readings>>

(* ... then calls update() with the total of the array it wrote. *)
WriteLabor(q) ==
  /\ req[q].pc = "lines"
  /\ rec' = [rec EXCEPT ![req[q].job].laborItems = req[q].lines]
  /\ req' = [req EXCEPT ![q].pc = "cost",
                        ![q].patch = [NoPatch EXCEPT !.labor = req[q].lines]]
  /\ UNCHANGED <<stats, center, vehicle, readings>>

(* addPart, updatePart and removePart: the controller reads the array,     *)
(* changes its copy and routes the whole array through update().           *)
ReadParts(q) ==
  /\ Admit(q, "parts")
  /\ \E r \in Records, l \in Lines :
       /\ Live(r)
       /\ \E lines \in {rec[r].partsReplaced \cup {l}, rec[r].partsReplaced \ {l}} :
            /\ l \in lines \/ l \in rec[r].partsReplaced
            /\ req' = [req EXCEPT ![q] =
                        [Idle EXCEPT !.pc = "partLines", !.op = "parts",
                                     !.job = r, !.lines = lines]]
  /\ UNCHANGED <<rec, stats, center, vehicle, readings>>

(* No cost and no technician in the patch: nothing is refreshed. *)
WriteParts(q) ==
  /\ req[q].pc = "partLines"
  /\ rec' = [rec EXCEPT ![req[q].job].partsReplaced = req[q].lines]
  /\ Answer(q)
  /\ UNCHANGED <<stats, center, vehicle, readings>>

(* addFeedback(): one write, no refresh. *)
AddFeedback(q) ==
  /\ Admit(q, "feedback")
  /\ \E r \in Records, n \in Ratings :
       /\ Live(r)
       /\ rec' = [rec EXCEPT ![r].rating = n]
  /\ UNCHANGED <<stats, center, vehicle, readings, req>>

(* delete(): a second delete matches nothing and refreshes nothing. *)
Delete(q) ==
  /\ Admit(q, "delete")
  /\ \E r \in Records :
       /\ Live(r)
       /\ rec' = [rec EXCEPT ![r].deleted = TRUE]
       /\ req' = [req EXCEPT ![q] =
                   [Idle EXCEPT !.pc = "refresh", !.op = "delete", !.job = r,
                                !.due = {"owner"} \cup TechCounter(rec[r].tech)]]
  /\ UNCHANGED <<stats, center, vehicle, readings>>

-----------------------------------------------------------------------------
(* recomputeOwnerStats() and recomputeStaffStats(), run concurrently by    *)
(* Promise.all: each query of the read phase is an await of its own.       *)
QueryFigure(q, c, f) ==
  /\ req[q].pc = "refresh"
  /\ c \in req[q].due
  /\ f \in FiguresOf(c)
  /\ req[q].snap[f] = None
  /\ req' = [req EXCEPT ![q].snap[f] = Recount(f)]
  /\ UNCHANGED <<rec, stats, center, vehicle, readings>>

ForgetCounter(q, c) ==
  req' = [req EXCEPT ![q].due = @ \ {c},
                     ![q].snap = [f \in Figures |-> IF f \in FiguresOf(c) THEN None ELSE @[f]]]

(* The write phase: $set of what the read phase returned. *)
StoreCounter(q, c) ==
  /\ req[q].pc = "refresh"
  /\ c \in req[q].due
  /\ \A f \in FiguresOf(c) : req[q].snap[f] # None
  /\ stats' = [f \in Figures |-> IF f \in FiguresOf(c) THEN req[q].snap[f] ELSE stats[f]]
  /\ ForgetCounter(q, c)
  /\ UNCHANGED <<rec, center, vehicle, readings>>

(* refreshOwnerStats / refreshStaffStats swallow the error and go on. *)
RefreshFails(q, c) ==
  /\ MayFail
  /\ req[q].pc = "refresh"
  /\ c \in req[q].due
  /\ ForgetCounter(q, c)
  /\ UNCHANGED <<rec, stats, center, vehicle, readings>>

(* Mutant of FinishRequest: a completion may end without booking the job. *)
FinishAnyRequest(q) ==
  /\ req[q].pc = "refresh"
  /\ req[q].due = {}
  /\ Answer(q)
  /\ UNCHANGED <<rec, stats, center, vehicle, readings>>

(* The end of a request whose refreshes are done; a completion books the   *)
(* job against the center last.                                            *)
FinishRequest(q) ==
  /\ req[q].pc = "refresh"
  /\ req[q].due = {}
  /\ req[q].op # "status"
  /\ Answer(q)
  /\ UNCHANGED <<rec, stats, center, vehicle, readings>>

BookRevenue(q) ==
  /\ req[q].pc = "refresh"
  /\ req[q].due = {}
  /\ req[q].op = "status"
  /\ center' = [center EXCEPT ![req[q].job] = @ + 1]
  /\ Answer(q)
  /\ UNCHANGED <<rec, stats, vehicle, readings>>

(* A database call rejects or the process dies: nothing later runs. *)
Abort(q) ==
  /\ MayFail
  /\ req[q].pc # "idle"
  /\ Answer(q)
  /\ UNCHANGED <<rec, stats, center, vehicle, readings>>

-----------------------------------------------------------------------------
(* The steps of a request already admitted. *)
Advance(q) ==
  \/ ClaimStatus(q)
  \/ WriteSchedule(q)
  \/ WriteOdometer(q)
  \/ InsertReading(q)
  \/ ReadPreviousTech(q)
  \/ ReadCost(q)
  \/ WriteUpdate(q)
  \/ WriteLabor(q)
  \/ WriteParts(q)
  \/ \E c \in Counters : \E f \in FiguresOf(c) : QueryFigure(q, c, f)
  \/ \E c \in Counters : StoreCounter(q, c)
  \/ FinishRequest(q)
  \/ BookRevenue(q)

Arrive(q) ==
  \/ Create(q)
  \/ ReadStatus(q)
  \/ Put(q)
  \/ ReadLabor(q)
  \/ ReadParts(q)
  \/ AddFeedback(q)
  \/ Delete(q)

Next ==
  \E q \in Requests :
    \/ Arrive(q)
    \/ Advance(q)
    \/ \E c \in Counters : RefreshFails(q, c)
    \/ Abort(q)

Spec == Init /\ [][Next]_vars

(* The event loop keeps running admitted requests, and the database answers. *)
FairSpec == Spec /\ \A q \in Requests : WF_vars(Advance(q))

-----------------------------------------------------------------------------
(* Properties *)

(* Completing a job has one-time consequences: its odometer reading enters *)
(* the history at most once, and its revenue is booked at most once and    *)
(* never before the reading (updateStatus).                                *)
OneTimeEffects ==
  \A r \in Records : center[r] <= readings[r] /\ readings[r] <= 1

(* Completing a job books its revenue with the center, and that cannot be  *)
(* applied twice (updateStatus).                                           *)
RevenueBookedOnce == \A r \in Records : center[r] <= 1

(* `completed` is terminal: no request takes a completed job back to       *)
(* another status (serviceRecordTransitions.ts).                           *)
CompletedIsTerminal ==
  [][\A r \in Records :
       rec[r].status = "completed" => rec'[r].status = "completed"]_vars

(* A vehicle's next service and its odometer come from a finished job,     *)
(* and nothing is booked for an unfinished one.                            *)
EffectsOfFinishedJobs ==
  \A r \in Records :
    (r \in {vehicle.schedule, vehicle.odometer} \/ readings[r] > 0 \/ center[r] > 0)
      => rec[r].status = "completed"

JobsIn(fig)    == {e.job : e \in fig}
RevenueIn(fig) == {<<e.job, e.cost>> : e \in fig}

(* With every request answered, the owner's and the technicians' counters  *)
(* are "exactly what the source collection says" (staffStats.ts): every    *)
(* write that moves a figure refreshes every document that holds it.       *)
StatsExactWhenQuiet ==
  InFlight = {} =>
    /\ JobsIn(stats["services"]) = JobsIn(Recount("services"))
    /\ RevenueIn(stats["spent"]) = RevenueIn(Recount("spent"))
    /\ \A t \in Techs : RevenueIn(stats[t]) = RevenueIn(Recount(t))

(* "cost.laborTotal ... is recomputed from this array whenever it changes, *)
(* so the two can't drift" (models/ServiceRecord.ts).                      *)
LaborTotalMatchesLines ==
  InFlight = {} => \A r \in Records : rec[r].cost.labor = rec[r].laborItems

(* Every completion that won its transition is booked in the end. *)
CompletionIsBooked ==
  \A r \in Records :
    (\E q \in Requests : req[q].pc = "schedule" /\ req[q].op = "status" /\ req[q].job = r)
      ~> (center[r] > 0)

=============================================================================
