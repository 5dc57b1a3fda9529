---------------------------- MODULE Permissions ----------------------------
(***************************************************************************)
(* Roles and one staff profile that holds one: src/services/role.service.ts *)
(* and src/services/staff.service.ts with their models.  The permissions   *)
(* of a role are left out: requests name them by id, the service looks     *)
(* them up by key and finds none, so that create() and update() leave a    *)
(* role without any, addPermission() on it always fails, removePermission() *)
(* does nothing, and only the seed fills a role.                           *)
(***************************************************************************)
EXTENDS Integers, FiniteSets

CONSTANTS
  Roles,     \* the system roles
  Perms,     \* permissions
  Requests,  \* slots for concurrent requests
  MaxSaves,  \* how often the profile's list is written
  None

PermissionConstants == MaxSaves \in Nat \ {0} /\ None \notin Roles \cup Perms

VARIABLES
  active,  \* the roles with isActive
  staff,   \* the profile: where it is, its role, customPermissions, __v
  req      \* the requests in progress

vars == <<active, staff, req>>

-----------------------------------------------------------------------------
(* Types *)

StaffProfile ==
  [at : {"absent", "there", "deleted"}, role : Roles \cup {None},
   custom : SUBSET Perms, v : 0..MaxSaves]

Request ==
  [pc : {"idle", "assign", "remove", "grant", "revoke"},
   role : Roles \cup {None}, perm : Perms \cup {None},
   held : [custom : SUBSET Perms, v : 0..MaxSaves]]  \* of the loaded profile

NoProfile == [at |-> "absent", role |-> None, custom |-> {}, v |-> 0]
Idle == [pc |-> "idle", role |-> None, perm |-> None, held |-> [custom |-> {}, v |-> 0]]

TypeOK ==
  /\ active \subseteq Roles
  /\ staff \in StaffProfile
  /\ req \in [Requests -> Request]

Finish(q) == req' = [req EXCEPT ![q] = Idle]

-----------------------------------------------------------------------------
(* Roles *)

UpdateRole(r) ==
  /\ \E kept \in {{}, {r}} : active' = (active \ {r}) \cup kept
  /\ UNCHANGED <<staff, req>>

(* delete() deactivates; who holds the role keeps it and what it grants. *)
DeleteRole(r) ==
  /\ active' = active \ {r}
  /\ UNCHANGED <<staff, req>>

-----------------------------------------------------------------------------
(* The profile *)

(* An account has one profile for good: the unique index also counts a     *)
(* deleted one.                                                            *)
CreateStaff(r) ==
  /\ staff.at = "absent"
  /\ staff' = [NoProfile EXCEPT !.at = "there", !.role = r]
  /\ UNCHANGED <<active, req>>

(* update() asks neither whether the role is active nor the profile there. *)
UpdateStaff(r) ==
  /\ staff.at # "absent"
  /\ staff' = [staff EXCEPT !.role = r]
  /\ UNCHANGED <<active, req>>

DeleteStaff ==
  /\ staff.at = "there"
  /\ staff' = [staff EXCEPT !.at = "deleted"]
  /\ UNCHANGED <<active, req>>

-----------------------------------------------------------------------------
(* assignToAccount(): the role is read first, the profile updated in place. *)

LoadRole(q, r) ==
  /\ req[q].pc = "idle" /\ r \in active
  /\ req' = [req EXCEPT ![q] = [Idle EXCEPT !.pc = "assign", !.role = r]]
  /\ UNCHANGED <<active, staff>>

AssignToAccount(q) ==
  /\ req[q].pc = "assign"
  /\ staff' = IF staff.at = "there" THEN [staff EXCEPT !.role = req[q].role] ELSE staff
  /\ Finish(q)
  /\ UNCHANGED active

(* removeFromAccount(): saved over whatever role was assigned since.       *)

LoadHolder(q, r) ==
  /\ req[q].pc = "idle" /\ staff.at = "there" /\ staff.role = r
  /\ req' = [req EXCEPT ![q] = [Idle EXCEPT !.pc = "remove"]]
  /\ UNCHANGED <<active, staff>>

RemoveFromAccount(q) ==
  /\ req[q].pc = "remove"
  /\ staff' = [staff EXCEPT !.role = None]
  /\ Finish(q)
  /\ UNCHANGED active

-----------------------------------------------------------------------------
(* addPermission() and removePermission() of a profile, deleted or not.    *)

LoadStaff(q, what, p) ==
  /\ req[q].pc = "idle" /\ staff.at # "absent"
  /\ what = "grant" => p \notin staff.custom
  /\ req' = [req EXCEPT ![q] = [Idle EXCEPT
       !.pc = what, !.perm = p,
       !.held = IF what = "revoke" THEN [custom |-> staff.custom, v |-> staff.v] ELSE @]]
  /\ UNCHANGED <<active, staff>>

(* One entry is pushed: the version counts it but is not compared.         *)
AddPermission(q) ==
  /\ req[q].pc = "grant" /\ staff.v < MaxSaves
  /\ staff' = [staff EXCEPT !.custom = @ \cup {req[q].perm}, !.v = @ + 1]
  /\ Finish(q)
  /\ UNCHANGED active

(* Mutant of RemovePermission: the version is not compared. *)
RemoveUnchecked(q) ==
  /\ req[q].pc = "revoke" /\ staff.v < MaxSaves
  /\ staff' = [staff EXCEPT !.custom = req[q].held.custom \ {req[q].perm}, !.v = @ + 1]
  /\ Finish(q)
  /\ UNCHANGED active

(* The whole list is replaced: only over the version that was loaded.      *)
RemovePermission(q) ==
  /\ req[q].pc = "revoke" /\ staff.v < MaxSaves
  /\ staff' = IF staff.v = req[q].held.v
              THEN [staff EXCEPT !.custom = req[q].held.custom \ {req[q].perm}, !.v = @ + 1]
              ELSE staff
  /\ Finish(q)
  /\ UNCHANGED active

(* A call rejects, or the process dies. *)
Abort(q) ==
  /\ req[q].pc # "idle"
  /\ Finish(q)
  /\ UNCHANGED <<active, staff>>

-----------------------------------------------------------------------------
Init ==
  /\ active = Roles
  /\ staff = NoProfile
  /\ req = [q \in Requests |-> Idle]

Next ==
  \/ \E r \in Roles :
       UpdateRole(r) \/ DeleteRole(r) \/ CreateStaff(r) \/ UpdateStaff(r)
  \/ DeleteStaff
  \/ \E q \in Requests :
       \/ \E r \in Roles : LoadRole(q, r) \/ LoadHolder(q, r)
       \/ AssignToAccount(q) \/ RemoveFromAccount(q)
       \/ \E p \in Perms, what \in {"grant", "revoke"} : LoadStaff(q, what, p)
       \/ AddPermission(q) \/ RemovePermission(q)
       \/ Abort(q)

Spec == Init /\ [][Next]_vars

-----------------------------------------------------------------------------
(* Properties *)

(* A permission granted to a staff member is taken away only by a request  *)
(* to take away this one, also when it was granted while the request ran.  *)
GrantsKept ==
  [][\A p \in staff.custom \ staff'.custom :
       \E q \in Requests : req[q].pc = "revoke" /\ req[q].perm = p]_vars
=============================================================================
