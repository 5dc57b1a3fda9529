-------------------------- MODULE OdometerReadings --------------------------
(***************************************************************************)
(* The odometer of one vehicle: the cached Vehicle.currentOdometer and the *)
(* OdometerReading log, as src/services/odometerReading.service.ts and     *)
(* vehicle.service.ts write them.                                          *)
(***************************************************************************)
EXTENDS Integers

CONSTANTS
  Rows,       \* documents of the log
  Requests,   \* slots for concurrent requests
  MaxValue    \* readings are 0..MaxValue

OdometerConstants == MaxValue \in Nat

VARIABLES
  current,  \* Vehicle.currentOdometer.value
  rows,     \* the log
  req,      \* calls of record() in progress
  loose     \* history: the current value was not last written by a record() that went through

vars == <<current, rows, req, loose>>

Values == 0..MaxValue
Row == [at : {"absent", "live", "deleted"}, value : Values, isVerified : BOOLEAN]
Request == [pc : {"idle", "save", "insert"}, value : Values,
            monotonic : BOOLEAN]     \* manual_entry, api or obd_device

NoRow == [at |-> "absent", value |-> 0, isVerified |-> FALSE]
Idle == [pc |-> "idle", value |-> 0, monotonic |-> FALSE]

TypeOK ==
  /\ current \in Values
  /\ rows \in [Rows -> Row]
  /\ req \in [Requests -> Request]
  /\ loose \in BOOLEAN

Live(w) == rows[w].at = "live"

-----------------------------------------------------------------------------
(* record(): load, save the vehicle, insert the row *)

Record(q, value, monotonic) ==
  /\ req[q].pc = "idle"
  /\ monotonic => value >= current
  /\ req' = [req EXCEPT ![q] =
       [pc |-> "save", value |-> value, monotonic |-> monotonic]]
  /\ UNCHANGED <<current, rows, loose>>

(* Mutant of SaveVehicle: what a service record reports is written to the  *)
(* vehicle without a row, as it once was.                                  *)
SaveVehicleOnly(q) ==
  /\ req[q].pc = "save"
  /\ current' = req[q].value
  /\ req' = [req EXCEPT ![q] = IF req[q].monotonic THEN [@ EXCEPT !.pc = "insert"] ELSE Idle]
  /\ UNCHANGED <<rows, loose>>

SaveVehicle(q) ==
  /\ req[q].pc = "save"
  /\ current' = req[q].value
  /\ req' = [req EXCEPT ![q].pc = "insert"]
  /\ UNCHANGED <<rows, loose>>

InsertRow(q, w) ==
  /\ req[q].pc = "insert" /\ rows[w].at = "absent"
  /\ rows' = [rows EXCEPT ![w] = [at |-> "live", value |-> req[q].value, isVerified |-> FALSE]]
  /\ loose' = (loose /\ req[q].value # current)
  /\ req' = [req EXCEPT ![q] = Idle]
  /\ UNCHANGED current

(* A call rejects, or the process dies. *)
Abort(q) ==
  /\ req[q].pc # "idle"
  /\ loose' = (loose \/ (req[q].pc = "insert" /\ req[q].value = current))
  /\ req' = [req EXCEPT ![q] = Idle]
  /\ UNCHANGED <<current, rows>>

-----------------------------------------------------------------------------
(* The rows' own operations do not touch the vehicle. *)

UpdateRow(w) ==
  /\ Live(w)
  /\ \E v \in Values, b \in BOOLEAN :
       rows' = [rows EXCEPT ![w].value = v, ![w].isVerified = b]
  /\ loose' = (loose \/ rows[w].value = current)
  /\ UNCHANGED <<current, req>>

Verify(w) ==
  /\ Live(w)
  /\ rows' = [rows EXCEPT ![w].isVerified = TRUE]
  /\ UNCHANGED <<current, req, loose>>

DeleteRow(w) ==
  /\ Live(w)
  /\ rows' = [rows EXCEPT ![w].at = "deleted"]
  /\ loose' = (loose \/ rows[w].value = current)
  /\ UNCHANGED <<current, req>>

(* PUT of a vehicle writes currentOdometer as it comes. *)
PutVehicle ==
  /\ \E v \in Values \ {current} : current' = v
  /\ loose' = TRUE
  /\ UNCHANGED <<rows, req>>

-----------------------------------------------------------------------------
(* A vehicle is created with a reading and no row. *)
Init ==
  /\ current \in Values
  /\ rows = [w \in Rows |-> NoRow]
  /\ req = [q \in Requests |-> Idle]
  /\ loose = TRUE

Next ==
  \/ \E q \in Requests :
       \/ \E v \in Values, m \in BOOLEAN : Record(q, v, m)
       \/ SaveVehicle(q) \/ Abort(q)
       \/ \E w \in Rows : InsertRow(q, w)
  \/ \E w \in Rows : UpdateRow(w) \/ Verify(w) \/ DeleteRow(w)
  \/ PutVehicle

Spec == Init /\ [][Next]_vars

-----------------------------------------------------------------------------
(* Properties *)

(* Cache and log are in sync once nobody records: the current value has    *)
(* its row, whatever the order in which two calls save and insert, unless  *)
(* a call failed in between, the row was corrected, or the vehicle was     *)
(* written past record() ("nothing can update one without the other").     *)
CurrentIsLogged ==
  (\A q \in Requests : req[q].pc = "idle") /\ ~loose =>
    \E w \in Rows : Live(w) /\ rows[w].value = current
=============================================================================
