---------------------------- MODULE CenterAccess ----------------------------
(***************************************************************************)
(* Which service centers may work on one vehicle: the entries of its       *)
(* authorizedServiceCenters, which src/services/vehicle.service.ts writes, *)
(* and to which an accepted invitation pushes (src/models/Invitation.ts).  *)
(*                                                                         *)
(* save() pushes an entry unchecked, checks the version when it changes    *)
(* one by its position, and writes the whole array, checked, when it does  *)
(* both; adding changes the version.  The $push of an invitation does not. *)
(***************************************************************************)
EXTENDS Integers, Sequences, FiniteSets, FiniteSetsExt

CONSTANTS
  Centers,     \* service centers
  Requests,    \* slots for concurrent requests
  MaxEntries   \* bound on the entries

CenterAccessConstants == MaxEntries \in Nat

VARIABLES
  entries,  \* Vehicle.authorizedServiceCenters
  req       \* the calls in progress

vars == <<entries, req>>

(* Who has added an entry is there for the property.                       *)
Entry == [center : Centers, status : {"active", "revoked"}, isPrimary : BOOLEAN,
          by : {"owner", "invitation"}]

Request == [pc : {"idle", "vehicle"},
            copy : Seq(Entry), wanted : Seq(Entry),   \* as loaded, and as they shall be
            fresh : BOOLEAN]   \* the version is that of the load, as far as it matters

Idle == [pc |-> "idle", copy |-> << >>, wanted |-> << >>, fresh |-> TRUE]

TypeOK ==
  /\ entries \in Seq(Entry) /\ Len(entries) <= MaxEntries
  /\ req \in [Requests -> Request]

-----------------------------------------------------------------------------
Of(c) == {k \in DOMAIN entries : entries[k].center = c}

Change(q, wanted) ==
  /\ req[q].pc = "idle"
  /\ req' = [req EXCEPT ![q] = [pc |-> "vehicle", copy |-> entries, wanted |-> wanted, fresh |-> TRUE]]
  /\ UNCHANGED entries

OthersNotPrimary(s, c) ==
  [k \in DOMAIN s |-> IF s[k].center = c THEN s[k] ELSE [s[k] EXCEPT !.isPrimary = FALSE]]

(* authorizeServiceCenter(): the first entry of the center is activated,   *)
(* or one is added; a primary one takes the mark from the others.          *)
Authorize(q, c, isPrimary) ==
  LET new == [center |-> c, status |-> "active", isPrimary |-> isPrimary, by |-> "owner"]
      changed == IF Of(c) # {} THEN [entries EXCEPT ![Min(Of(c))].status = "active"]
                 ELSE Append(entries, new)
  IN  Change(q, IF isPrimary THEN OthersNotPrimary(changed, c) ELSE changed)

(* revokeServiceCenter(), updateServiceCenterAccess(): the first entry;    *)
(* expired is as good as revoked.                                          *)
SetAccess(q, c) ==
  /\ Of(c) # {}
  /\ \E s \in {"active", "revoked"} : Change(q, [entries EXCEPT ![Min(Of(c))].status = s])

-----------------------------------------------------------------------------
(* save() *)

Added(r) == Len(r.wanted) > Len(r.copy)
Altered(r) == \E k \in DOMAIN r.copy : r.wanted[k] # r.copy[k]

(* What it makes of the entries there are by then: the array is written    *)
(* when it grows and changes, else an entry is pushed, or fields are set.  *)
Saved(r) ==
  IF Added(r)
  THEN IF Altered(r) THEN r.wanted ELSE Append(entries, r.wanted[Len(r.wanted)])
  ELSE [k \in DOMAIN entries |->
         IF k \notin DOMAIN r.copy THEN entries[k]
         ELSE [entries[k] EXCEPT
                !.status = IF r.wanted[k].status = r.copy[k].status THEN @ ELSE r.wanted[k].status,
                !.isPrimary = IF r.wanted[k].isPrimary = r.copy[k].isPrimary THEN @ ELSE r.wanted[k].isPrimary]]

Written(q, r) ==
  /\ Len(Saved(r)) <= MaxEntries
  /\ entries' = Saved(r)
  /\ req' = [p \in Requests |->
       IF p = q THEN Idle
       ELSE IF Added(r) /\ Altered(req[p]) THEN [req[p] EXCEPT !.fresh = FALSE]
       ELSE req[p]]

(* Mutant of SaveVehicle: the version is not checked. *)
SaveUnchecked(q) == req[q].pc = "vehicle" /\ Written(q, req[q])

SaveVehicle(q) ==
  /\ req[q].pc = "vehicle"
  /\ IF Altered(req[q]) /\ ~req[q].fresh
     THEN req' = [req EXCEPT ![q] = Idle] /\ UNCHANGED entries
     ELSE Written(q, req[q])

(* A call rejects, or the process dies. *)
Abort(q) ==
  /\ req[q].pc # "idle"
  /\ req' = [req EXCEPT ![q] = Idle]
  /\ UNCHANGED entries

(* Invitation.grantAccess() pushes, whether the center has an entry or not. *)
GrantAccess(c) ==
  /\ Len(entries) < MaxEntries
  /\ entries' = Append(entries,
       [center |-> c, status |-> "active", isPrimary |-> FALSE, by |-> "invitation"])
  /\ UNCHANGED req

-----------------------------------------------------------------------------
Init == entries = << >> /\ req = [q \in Requests |-> Idle]

Next ==
  \/ \E q \in Requests :
       \/ \E c \in Centers : SetAccess(q, c) \/ \E p \in BOOLEAN : Authorize(q, c, p)
       \/ SaveVehicle(q) \/ Abort(q)
  \/ \E c \in Centers : GrantAccess(c)

Spec == Init /\ [][Next]_vars

-----------------------------------------------------------------------------
(* Properties *)

OwnEntries == {k \in DOMAIN entries : entries[k].by = "owner"}

(* No entry that an owner has added is lost to an overlapping save; one an *)
(* invitation has pushed may be, for its push leaves the version alone.    *)
OwnEntriesKept ==
  [][Cardinality(OwnEntries) <= Cardinality(OwnEntries')]_vars
=============================================================================
