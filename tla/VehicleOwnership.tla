-------------------------- MODULE VehicleOwnership --------------------------
(***************************************************************************)
(* Who owns a vehicle: Vehicle.currentOwnerId, Vehicle.ownershipHistory,   *)
(* the vehicles[] of each OwnerProfile and its stats.totalVehicles, as     *)
(* src/services/vehicle.service.ts, owner.service.ts and ownerStats.ts     *)
(* keep them.                                                              *)
(*                                                                         *)
(* save() checks the version of the document when it writes a whole array, *)
(* and increments it when it writes or extends one; a plain push is not    *)
(* checked.                                                                *)
(***************************************************************************)
EXTENDS Integers, Sequences, FiniteSets, FiniteSetsExt, SequencesExt

CONSTANTS
  Vehicles,    \* vehicle documents, each with its registration number
  Owners,      \* owner profiles
  Requests,    \* slots for concurrent requests
  MaxHistory,  \* bound on the entries of a history
  MaxListed,   \* bound on the entries of a vehicle in vehicles[]
  MayFail,     \* whether a call may fail or a process die
  None

VehicleConstants ==
  /\ MaxHistory \in Nat \ {0} /\ MaxListed \in Nat \ {0}
  /\ MayFail \in BOOLEAN
  /\ None \notin Vehicles \cup Owners
  /\ IsFiniteSet(Vehicles) /\ None \notin 0..Cardinality(Vehicles)

VARIABLES
  vehicle,  \* the Vehicle collection
  garage,   \* how often vehicles[] of each owner lists a vehicle
  total,    \* stats.totalVehicles
  req,      \* the requests in progress
  stale,    \* history: owners whose last recount failed or overlapped another request
  typed     \* history: owners whose total was last taken from vehicles[]

vars == <<vehicle, garage, total, req, stale, typed>>

-----------------------------------------------------------------------------
(* Types *)

Entry   == [owner : Owners, open : BOOLEAN]
Vehicle == [at : {"absent", "live", "deleted"}, owner : Owners \cup {None},
            history : Seq(Entry)]

(* Of an owner's profile, how often it lists each vehicle. *)
OwnerProfile == [Vehicles -> 0..MaxListed]

MaxTotal == MaxListed * Cardinality(Vehicles)

Request == [pc : {"idle", "owner", "save", "garage", "list", "recount"},
            on : Vehicles \cup {None}, to : Owners \cup {None}, from : Owners \cup {None},
            closes : 0..MaxHistory,   \* the open entry of the loaded history
            listed : BOOLEAN,         \* whether the loaded vehicles[] lists the vehicle
            length : 0..MaxTotal,     \* the length of the loaded vehicles[]
            primary : BOOLEAN,
            fresh : BOOLEAN,          \* no save has changed the version since the load
            due : SUBSET Owners,      \* owners still to be counted
            held : [Owners -> 0..Cardinality(Vehicles) \cup {None}]]

NoVehicle == [at |-> "absent", owner |-> None, history |-> << >>]
Idle == [pc |-> "idle", on |-> None, to |-> None, from |-> None, closes |-> 0, listed |-> FALSE,
         length |-> 0, primary |-> FALSE, fresh |-> TRUE, due |-> {},
         held |-> [o \in Owners |-> None]]

TypeOK ==
  /\ vehicle \in [Vehicles -> Vehicle]
  /\ garage \in [Owners -> OwnerProfile]
  /\ total \in [Owners -> 0..MaxTotal]
  /\ req \in [Requests -> Request]
  /\ stale \subseteq Owners /\ typed \subseteq Owners

-----------------------------------------------------------------------------
(* Helpers *)

Exists(v) == vehicle[v].at # "absent"
OwnedBy(o) == {v \in Vehicles : vehicle[v].at = "live" /\ vehicle[v].owner = o}
Length(o) == MapThenSumSet(LAMBDA v : garage[o][v], Vehicles)
Open(h) == {i \in DOMAIN h : h[i].open}
Close(h, i) == [h EXCEPT ![i].open = FALSE]

(* The owners whose total a request may still be about to change. *)
Owing(q) == ({req[q].to, req[q].from} \ {None}) \cup req[q].due
              \cup {o \in Owners : req[q].held[o] # None}
WorkOn(o) == {q \in Requests : o \in Owing(q)}

(* A request on the owners in O is admitted. *)
Admit(q, O) ==
  /\ req[q].pc = "idle"
  /\ stale' = stale \cup {o \in O : WorkOn(o) # {}}

Answer(q) == req' = [req EXCEPT ![q] = Idle]

(* A save of q has changed the version of vehicle v, or of owner o. *)
Outdated(S, q) == [p \in Requests |-> IF p \in S \ {q} THEN [req[p] EXCEPT !.fresh = FALSE] ELSE req[p]]
OnVehicle(v) == {p \in Requests : req[p].pc \in {"owner", "save"} /\ req[p].on = v}
OnOwner(o) == {p \in Requests : req[p].pc = "list" /\ req[p].to = o}

(* refreshOwnerStats() of the owners in O. *)
Recounting(O) == [Idle EXCEPT !.pc = "recount", !.due = O]

-----------------------------------------------------------------------------
(* create(), delete(): the write and the recount that follows it.  That    *)
(* the registration is new is read before, and kept by a unique index.     *)

Create(q, v, o) ==
  /\ ~Exists(v)
  /\ Admit(q, {o})
  /\ vehicle' = [vehicle EXCEPT ![v] =
       [at |-> "live", owner |-> o, history |-> <<[owner |-> o, open |-> TRUE]>>]]
  /\ req' = [req EXCEPT ![q] = Recounting({o})]
  /\ UNCHANGED <<garage, total, typed>>

Delete(q, v) ==
  /\ vehicle[v].at = "live"
  /\ Admit(q, {vehicle[v].owner})
  /\ vehicle' = [vehicle EXCEPT ![v].at = "deleted"]
  /\ req' = [req EXCEPT ![q] = Recounting({vehicle[v].owner})]
  /\ UNCHANGED <<garage, total, typed>>

-----------------------------------------------------------------------------
(* transferOwnership(): also of a deleted vehicle *)

LoadVehicle(q, v, o) ==
  /\ Exists(v)
  /\ Len(vehicle[v].history) + Cardinality(OnVehicle(v)) < MaxHistory
  /\ Admit(q, {o, vehicle[v].owner})
  /\ LET open == Open(vehicle[v].history)
     IN  req' = [req EXCEPT ![q] =
           [Idle EXCEPT !.pc = "owner", !.on = v, !.to = o, !.from = vehicle[v].owner,
                        !.closes = IF open = {} THEN 0 ELSE Min(open)]]
  /\ UNCHANGED <<vehicle, garage, total, typed>>

LoadOwner(q) ==
  /\ req[q].pc = "owner"
  /\ req' = [req EXCEPT ![q].pc = "save", ![q].listed = garage[req[q].to][req[q].on] > 0]
  /\ UNCHANGED <<vehicle, garage, total, stale, typed>>

(* Mutant of SaveTransfer: the entry is closed and the new one pushed in   *)
(* place, without a check of the version.                                  *)
SaveUnchecked(q) ==
  /\ req[q].pc = "save"
  /\ LET r == req[q]
         h == vehicle[r.on].history
     IN  /\ vehicle' = [vehicle EXCEPT
              ![r.on].owner = r.to,
              ![r.on].history = Append(IF r.closes > 0 THEN Close(h, r.closes) ELSE h,
                                       [owner |-> r.to, open |-> TRUE])]
         /\ req' = [Outdated(OnVehicle(r.on), q) EXCEPT
              ![q] = IF r.listed THEN Recounting({r.from, r.to}) ELSE [r EXCEPT !.pc = "garage"]]
  /\ UNCHANGED <<garage, total, stale, typed>>

(* With an entry to close, the whole array is written and its version      *)
(* checked; currentOwnerId is written if it has changed.                   *)
SaveTransfer(q) ==
  /\ req[q].pc = "save"
  /\ LET r == req[q]
         h == vehicle[r.on].history
     IN  IF r.closes > 0 /\ ~r.fresh
         THEN Answer(q) /\ UNCHANGED vehicle
         ELSE /\ vehicle' = [vehicle EXCEPT
                   ![r.on].owner = IF r.to = r.from THEN @ ELSE r.to,
                   ![r.on].history = Append(IF r.closes > 0 THEN Close(h, r.closes) ELSE h,
                                            [owner |-> r.to, open |-> TRUE])]
              /\ req' = [Outdated(OnVehicle(r.on), q) EXCEPT
                   ![q] = IF r.listed THEN Recounting({r.from, r.to}) ELSE [r EXCEPT !.pc = "garage"]]
  /\ UNCHANGED <<garage, total, stale, typed>>

(* Mutant of SaveGarage: only the new owner is recounted. *)
RecountNewOwner(q) ==
  /\ req[q].pc = "garage"
  /\ LET o == req[q].to IN
       /\ garage' = [garage EXCEPT ![o][req[q].on] = @ + 1]
       /\ req' = [Outdated(OnOwner(o), q) EXCEPT ![q] = Recounting({o})]
  /\ UNCHANGED <<vehicle, total, stale, typed>>

SaveGarage(q) ==
  /\ req[q].pc = "garage"
  /\ LET o == req[q].to IN
       /\ garage[o][req[q].on] < MaxListed
       /\ garage' = [garage EXCEPT ![o][req[q].on] = @ + 1]
       /\ req' = [Outdated(OnOwner(o), q) EXCEPT ![q] = Recounting({req[q].from, o})]
  /\ UNCHANGED <<vehicle, total, stale, typed>>

(* Another save() of the vehicle pushes to an array of its own. *)
SaveElsewhere(v) ==
  /\ \E p \in OnVehicle(v) : req[p].fresh
  /\ req' = Outdated(OnVehicle(v), None)
  /\ UNCHANGED <<vehicle, garage, total, stale, typed>>

-----------------------------------------------------------------------------
(* ownerService.addVehicle() *)

LoadProfile(q, v, o) ==
  /\ Exists(v) /\ garage[o][v] = 0
  /\ Admit(q, {o})
  /\ \E primary \in BOOLEAN :
       req' = [req EXCEPT ![q] =
         [Idle EXCEPT !.pc = "list", !.on = v, !.to = o, !.length = Length(o), !.primary = primary]]
  /\ UNCHANGED <<vehicle, garage, total, typed>>

(* The new primary vehicle is pushed and the others are marked: the whole  *)
(* array is written.  The total is the length of the copy.                 *)
SaveProfile(q) ==
  /\ req[q].pc = "list"
  /\ LET r == req[q] IN
       IF r.primary /\ r.length > 0 /\ ~r.fresh
       THEN Answer(q) /\ UNCHANGED <<garage, total, typed>>
       ELSE /\ garage[r.to][r.on] < MaxListed
            /\ garage' = [garage EXCEPT ![r.to][r.on] = @ + 1]
            /\ total' = [total EXCEPT ![r.to] = r.length + 1]
            /\ typed' = typed \cup {r.to}
            /\ req' = [Outdated(OnOwner(r.to), q) EXCEPT ![q] = Idle]
  /\ UNCHANGED <<vehicle, stale>>

-----------------------------------------------------------------------------
(* recomputeOwnerStats() *)

(* A request that is alone with the owner counts what will be there when   *)
(* it is through.                                                          *)
Count(q, o) ==
  /\ req[q].pc = "recount" /\ o \in req[q].due
  /\ req' = [req EXCEPT ![q].due = @ \ {o}, ![q].held[o] = Cardinality(OwnedBy(o))]
  /\ stale' = IF WorkOn(o) = {q} THEN stale \ {o} ELSE stale
  /\ UNCHANGED <<vehicle, garage, total, typed>>

Store(q, o) ==
  /\ req[q].pc = "recount" /\ req[q].held[o] # None
  /\ total' = [total EXCEPT ![o] = req[q].held[o]]
  /\ typed' = typed \ {o}
  /\ req' = [req EXCEPT ![q].held[o] = None]
  /\ UNCHANGED <<vehicle, garage, stale>>

(* refreshOwnerStats() swallows the error of one recount. *)
RecountFails(q, o) ==
  /\ MayFail
  /\ req[q].pc = "recount" /\ o \in Owing(q)
  /\ req' = [req EXCEPT ![q].due = @ \ {o}, ![q].held[o] = None]
  /\ stale' = stale \cup {o}
  /\ UNCHANGED <<vehicle, garage, total, typed>>

Finish(q) ==
  /\ req[q].pc = "recount" /\ Owing(q) = {}
  /\ Answer(q)
  /\ UNCHANGED <<vehicle, garage, total, stale, typed>>

(* A call rejects, or the process dies. *)
Abort(q) ==
  /\ MayFail
  /\ req[q].pc # "idle"
  /\ stale' = IF req[q].pc \in {"garage", "recount"} THEN stale \cup Owing(q) ELSE stale
  /\ Answer(q)
  /\ UNCHANGED <<vehicle, garage, total, typed>>

-----------------------------------------------------------------------------
Init ==
  /\ vehicle = [v \in Vehicles |-> NoVehicle]
  /\ garage = [o \in Owners |-> [v \in Vehicles |-> 0]]
  /\ total = [o \in Owners |-> 0]
  /\ req = [q \in Requests |-> Idle]
  /\ stale = {} /\ typed = {}

Next ==
  \/ \E q \in Requests, v \in Vehicles :
       \/ Delete(q, v)
       \/ \E o \in Owners : Create(q, v, o) \/ LoadVehicle(q, v, o) \/ LoadProfile(q, v, o)
  \/ \E q \in Requests :
       \/ LoadOwner(q) \/ SaveTransfer(q) \/ SaveGarage(q) \/ SaveProfile(q)
       \/ \E o \in Owners : Count(q, o) \/ Store(q, o) \/ RecountFails(q, o)
       \/ Finish(q) \/ Abort(q)
  \/ \E v \in Vehicles : SaveElsewhere(v)

Spec == Init /\ [][Next]_vars

-----------------------------------------------------------------------------
(* Properties *)

(* The history of a vehicle has one open entry, the last, and it is of the *)
(* current owner, however transfers interleave: the second of two is       *)
(* refused by the version of the array.                                    *)
HistoryMatchesOwner ==
  \A v \in Vehicles :
    Exists(v) =>
      LET h == vehicle[v].history
      IN  Open(h) = {Len(h)} /\ h[Len(h)].owner = vehicle[v].owner

(* Once nobody works on an owner, stats.totalVehicles counts the vehicles  *)
(* by currentOwnerId ("the source of truth", ownerStats.ts), after a       *)
(* transfer also for the owner who lost one.  What an overlap or a failure *)
(* has left wrong, the next recount that is alone corrects ("the next      *)
(* mutation corrects it").                                                 *)
TotalsExact ==
  \A o \in Owners :
    WorkOn(o) = {} /\ o \notin stale \cup typed => total[o] = Cardinality(OwnedBy(o))
=============================================================================
