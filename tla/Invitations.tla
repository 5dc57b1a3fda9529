---------------------------- MODULE Invitations -----------------------------
(***************************************************************************)
(* Invitations to a vehicle or to the staff of a center, as                *)
(* src/models/Invitation.ts and src/services/invitation.service.ts keep    *)
(* them.  A handler loads the document and saves single fields, with no    *)
(* check that it is still as it was.  CenterAccess has what a grant adds.  *)
(***************************************************************************)
EXTENDS Integers, FiniteSets

CONSTANTS
  Invites,      \* invitation documents
  Requests,     \* slots for concurrent requests
  MaxUses,      \* bound on maxUses
  MaxReminders, \* reminders of one invitation
  None

InvitationConstants ==
  MaxUses \in Nat \ {0} /\ MaxReminders \in Nat /\ None \notin Invites

VARIABLES
  inv,      \* the Invitation collection
  req,      \* the acceptances in progress
  grants,   \* history: how often each invitation has granted, up to 2
  spared,   \* history: invitations whose last use found nothing to grant
  muddled   \* history: invitations accepted twice at once, or left unsaved after granting

vars == <<inv, req, grants, spared, muddled>>

(* The types that grant something, with the ids which that takes; "other"  *)
(* is any other type, or one of these without the ids.                     *)
InvitationTypes == {"vehicle_access", "center_staff", "other"}

Invitation ==
  [type : InvitationTypes,
   status : {"absent", "pending", "accepted", "expired", "revoked", "maxed_out"},
   useCount : 0..MaxUses, maxUses : 1..MaxUses, past : BOOLEAN,   \* expiresAt is past
   reminderCount : 0..MaxReminders, isDeleted : BOOLEAN]

(* What accept() uses of the copy it has loaded. *)
Request == [pc : {"idle", "grant", "accept"}, invitation : Invites \cup {None},
            useCount : 0..MaxUses, last : BOOLEAN]

NoInvitation == [type |-> "other", status |-> "absent", useCount |-> 0, maxUses |-> 1,
                 past |-> FALSE, reminderCount |-> 0, isDeleted |-> FALSE]
Idle == [pc |-> "idle", invitation |-> None, useCount |-> 0, last |-> FALSE]

TypeOK ==
  /\ inv \in [Invites -> Invitation]
  /\ req \in [Requests -> Request]
  /\ grants \in [Invites -> 0..2] /\ spared \subseteq Invites /\ muddled \subseteq Invites

Start(q, r) == req[q].pc = "idle" /\ req' = [req EXCEPT ![q] = r]
Answer(q) == req' = [req EXCEPT ![q] = Idle]

-----------------------------------------------------------------------------
(* Creation and acceptance *)

Create(i, n) ==
  /\ inv[i].status = "absent"
  /\ \E t \in InvitationTypes :
       inv' = [inv EXCEPT ![i] = [NoInvitation EXCEPT !.type = t, !.status = "pending",
                                                     !.maxUses = n]]
  /\ UNCHANGED <<req, grants, spared, muddled>>

(* The pre-save hook, on the status that save() is about to write. *)
OnSave(d) ==
  IF d.status = "pending" /\ d.past THEN "expired"
  ELSE IF d.status = "pending" /\ d.useCount >= d.maxUses THEN "maxed_out"
  ELSE d.status

IsValid(d) == d.status = "pending" /\ ~d.past /\ d.useCount < d.maxUses

Accepting(i) == {p \in Requests : req[p].pc \in {"grant", "accept"} /\ req[p].invitation = i}

(* Mutant of Accept: the status of the invitation is not looked at. *)
AcceptAgain(q, i) ==
  /\ inv[i].status # "absent" /\ ~inv[i].past
  /\ Start(q, [Idle EXCEPT !.pc = "grant", !.invitation = i, !.useCount = inv[i].useCount, !.last = TRUE])
  /\ muddled' = IF Accepting(i) # {} THEN muddled \cup {i} ELSE muddled
  /\ UNCHANGED <<inv, grants, spared>>

(* accept(): the last use grants, and every use is counted. *)
Accept(q, i) ==
  /\ IsValid(inv[i])
  /\ LET last == inv[i].useCount + 1 >= inv[i].maxUses IN
       Start(q, [Idle EXCEPT !.pc = IF last THEN "grant" ELSE "accept", !.invitation = i,
                             !.useCount = inv[i].useCount, !.last = last])
  /\ muddled' = IF Accepting(i) # {} THEN muddled \cup {i} ELSE muddled
  /\ UNCHANGED <<inv, grants, spared>>

(* Mutant of GrantAccess: the invitation is saved and the grant left to    *)
(* follow.                                                                 *)
SaveWithoutGrant(q) ==
  /\ req[q].pc = "grant"
  /\ req' = [req EXCEPT ![q].pc = "accept"]
  /\ UNCHANGED <<inv, grants, spared, muddled>>

(* grantAccess(): the entry of a center is pushed to the vehicle, or a     *)
(* profile is created for the invitee.  There may be nothing to grant: the *)
(* vehicle no longer exists, the invitee has a profile, the role is not    *)
(* seeded, or the invitation is of another type.                           *)
GrantAccess(q) ==
  /\ req[q].pc = "grant"
  /\ LET i == req[q].invitation IN
       \/ /\ inv[i].type \in {"vehicle_access", "center_staff"}
          /\ grants' = [grants EXCEPT ![i] = IF @ < 2 THEN @ + 1 ELSE @]
          /\ UNCHANGED spared
       \/ /\ spared' = spared \cup {i}
          /\ UNCHANGED grants
  /\ req' = [req EXCEPT ![q].pc = "accept"]
  /\ UNCHANGED <<inv, muddled>>

SaveAccepted(q) ==
  /\ req[q].pc = "accept"
  /\ LET i == req[q].invitation
         d == [inv[i] EXCEPT !.useCount = req[q].useCount + 1]
     IN  inv' = [inv EXCEPT ![i] =
           [d EXCEPT !.status = IF req[q].last THEN "accepted"
                                ELSE IF @ = "pending" THEN OnSave(d) ELSE @]]
  /\ Answer(q)
  /\ UNCHANGED <<grants, spared, muddled>>

(* revoke(), also of an accepted one; an invitee declines by it. *)
Revoke(i) ==
  /\ inv[i].status # "absent"
  /\ inv' = [inv EXCEPT ![i].status = "revoked"]
  /\ UNCHANGED <<req, grants, spared, muddled>>

(* update(): of a pending one; a change of expiresAt may bring it back. *)
Update(i) ==
  /\ inv[i].status = "pending" /\ ~inv[i].isDeleted
  /\ \E n \in 1..MaxUses : inv' = [inv EXCEPT ![i].maxUses = n, ![i].past = FALSE]
  /\ UNCHANGED <<req, grants, spared, muddled>>

(* Mutant of SendReminder: the reminders are not counted first. *)
RemindAgain(i) ==
  /\ inv[i].status # "absent"
  /\ inv' = [inv EXCEPT ![i].reminderCount = @ + 1, ![i].status = OnSave(inv[i])]
  /\ UNCHANGED <<req, grants, spared, muddled>>

SendReminder(i) ==
  /\ inv[i].status # "absent" /\ inv[i].reminderCount < MaxReminders
  /\ inv' = [inv EXCEPT ![i].reminderCount = @ + 1, ![i].status = OnSave(inv[i])]
  /\ UNCHANGED <<req, grants, spared, muddled>>

(* delete() hides an invitation from the lists, and from update(). *)
Delete(i) ==
  /\ inv[i].status # "absent" /\ ~inv[i].isDeleted
  /\ inv' = [inv EXCEPT ![i].isDeleted = TRUE]
  /\ UNCHANGED <<req, grants, spared, muddled>>

Expire(i) ==
  /\ inv[i].status # "absent" /\ ~inv[i].past
  /\ inv' = [inv EXCEPT ![i].past = TRUE]
  /\ UNCHANGED <<req, grants, spared, muddled>>

(* The index on expiresAt removes a document; who has loaded it and saves  *)
(* gets an error.                                                          *)
Remove(i) ==
  /\ inv[i].past /\ inv[i].status # "absent" /\ Accepting(i) = {}
  /\ inv' = [inv EXCEPT ![i] = NoInvitation]
  /\ grants' = [grants EXCEPT ![i] = 0]
  /\ spared' = spared \ {i} /\ muddled' = muddled \ {i}
  /\ UNCHANGED req

(* A call rejects, or the process dies. *)
Abort(q) ==
  /\ req[q].pc # "idle"
  /\ muddled' = IF req[q].pc = "accept" THEN muddled \cup {req[q].invitation} ELSE muddled
  /\ Answer(q)
  /\ UNCHANGED <<inv, grants, spared>>

-----------------------------------------------------------------------------
Init ==
  /\ inv = [i \in Invites |-> NoInvitation]
  /\ req = [q \in Requests |-> Idle]
  /\ grants = [i \in Invites |-> 0]
  /\ spared = {} /\ muddled = {}

Next ==
  \/ \E q \in Requests :
       \/ \E i \in Invites : Accept(q, i)
       \/ GrantAccess(q) \/ SaveAccepted(q) \/ Abort(q)
  \/ \E i \in Invites :
       \/ \E n \in 1..MaxUses : Create(i, n)
       \/ Revoke(i) \/ Update(i) \/ SendReminder(i) \/ Delete(i) \/ Expire(i) \/ Remove(i)

Spec == Init /\ [][Next]_vars

-----------------------------------------------------------------------------
(* Properties *)

(* An accepted invitation has granted its access, or found that there was  *)
(* nothing to grant: that comes before the save that accepts it, whatever  *)
(* fails in between.                                                       *)
GrantBeforeAccepted ==
  \A i \in Invites : inv[i].status = "accepted" => grants[i] > 0 \/ i \in spared

(* It grants once, unless two acceptances overlapped or one could not be   *)
(* saved after granting.                                                   *)
GrantedOnce ==
  \A i \in Invites : i \notin muddled => grants[i] <= 1
=============================================================================
