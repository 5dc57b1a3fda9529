---------------------------- MODULE Onboarding -----------------------------
(***************************************************************************)
(* Organizations: the sign-up of src/services/onboarding.service.ts, which *)
(* creates five documents in one transaction, and the review and deletion  *)
(* of tenants by src/services/tenant.service.ts.  A tenant created by an   *)
(* admin, an account that registers or a center that is added elsewhere    *)
(* takes a slug, an e-mail address or a registration number.               *)
(***************************************************************************)
EXTENDS Integers, Sequences

CONSTANTS
  Signups,        \* applications to sign up
  Emails,         \* e-mail addresses of applicants
  Registrations,  \* business registration numbers
  MaxSlug,        \* the slugs names may give: 1..MaxSlug
  None

OnboardingConstants == MaxSlug \in Nat \ {0} /\ None \notin Emails \cup Registrations

VARIABLES
  form,     \* what an application gives: e-mail, registration number and slug
  at,       \* where the sign-up stands
  written,  \* what its transaction has written
  stored,   \* what it has committed
  review,   \* onboarding.status of its tenant
  deleted,  \* applications whose tenant is deleted
  taken     \* keys that other handlers took

vars == <<form, at, written, stored, review, deleted, taken>>

-----------------------------------------------------------------------------
(* Types *)

(* The writes of the transaction, in their order: documents, and the       *)
(* references that are patched in once the document they name exists.      *)
Order ==
  << "tenant", "account", "ownerProfile", "tenant.ownerId", "account.ownerProfileId",
     "serviceCenter", "staffProfile", "center.createdBy", "account.staffProfileId", "commit" >>

Writes == {Order[i] : i \in 1..(Len(Order) - 1)}

After(write) == Order[1 + CHOOSE i \in 1..Len(Order) : Order[i] = write]

Form == [email : Emails \cup {None}, registration : Registrations \cup {None}, slug : 0..MaxSlug]
NoForm == [email |-> None, registration |-> None, slug |-> 0]

Review == {"none", "pending_review", "approved", "rejected"}

TypeOK ==
  /\ form \in [Signups -> Form]
  /\ at \in [Signups -> Writes \cup {"idle", "commit", "notify", "done"}]
  /\ written \in [Signups -> SUBSET Writes]
  /\ stored \in [Signups -> SUBSET Writes]
  /\ review \in [Signups -> Review]
  /\ deleted \subseteq Signups
  /\ taken \subseteq (1..MaxSlug) \cup Emails \cup Registrations

(* The unique indexes on slug, e-mail address and registration number.     *)
Key(s, write) ==
  CASE write = "tenant" -> form[s].slug
    [] write = "account" -> form[s].email
    [] write = "serviceCenter" -> form[s].registration
    [] OTHER -> s

Clashes(s, write) ==
  \/ Key(s, write) \in taken
  \/ \E t \in Signups \ {s} :
       write \in written[t] \cup stored[t] /\ Key(t, write) = Key(s, write)

-----------------------------------------------------------------------------
(* generateUniqueSlug() passes over the slugs of tenants not deleted: of a *)
(* name, a name with 2 after it, and so on, one that is free.              *)
FreeSlug(n) ==
  /\ n \notin taken
  /\ \A s \in Signups \ deleted : "tenant" \in stored[s] => form[s].slug # n

(* The checks before the transaction. *)
SignUp(s, email, registration, slug) ==
  /\ at[s] = "idle" /\ stored[s] = {}
  /\ {email, registration} \cap taken = {}
  /\ \A t \in Signups :
       /\ "account" \in stored[t] => form[t].email # email
       /\ "serviceCenter" \in stored[t] => form[t].registration # registration
  /\ FreeSlug(slug)
  /\ form' = [form EXCEPT ![s] = [email |-> email, registration |-> registration, slug |-> slug]]
  /\ at' = [at EXCEPT ![s] = "tenant"]
  /\ UNCHANGED <<written, stored, review, deleted, taken>>

(* Nothing stays of a transaction that is aborted; the applicant may try   *)
(* again.                                                                  *)
Rollback(s) ==
  /\ written' = [written EXCEPT ![s] = {}]
  /\ form' = [form EXCEPT ![s] = NoForm]
  /\ at' = [at EXCEPT ![s] = "idle"]
  /\ UNCHANGED <<stored, review, deleted, taken>>

(* Mutant of Write: the account is saved outside the session. *)
WriteOutside(s) ==
  /\ at[s] \in Writes
  /\ IF Clashes(s, at[s]) THEN Rollback(s)
     ELSE /\ written' = [written EXCEPT ![s] = @ \cup {at[s]}]
          /\ stored' = IF at[s] = "account" THEN [stored EXCEPT ![s] = @ \cup {"account"}] ELSE stored
          /\ at' = [at EXCEPT ![s] = After(@)]
          /\ UNCHANGED <<form, review, deleted, taken>>

(* A key another document has, committed or not yet, ends the transaction. *)
Write(s) ==
  /\ at[s] \in Writes
  /\ IF Clashes(s, at[s]) THEN Rollback(s)
     ELSE /\ written' = [written EXCEPT ![s] = @ \cup {at[s]}]
          /\ at' = [at EXCEPT ![s] = After(@)]
          /\ UNCHANGED <<form, stored, review, deleted, taken>>

Commit(s) ==
  /\ at[s] = "commit"
  /\ stored' = [stored EXCEPT ![s] = written[s]]
  /\ written' = [written EXCEPT ![s] = {}]
  /\ review' = [review EXCEPT ![s] = "pending_review"]
  /\ at' = [at EXCEPT ![s] = "notify"]
  /\ UNCHANGED <<form, deleted, taken>>

(* A call rejects, or the process dies and the server ends the session.    *)
Abort(s) == at[s] \in Writes \cup {"commit"} /\ Rollback(s)

(* The mails; a failure reports the sign-up as failed, though it is not.   *)
Notify(s) ==
  /\ at[s] = "notify"
  /\ at' = [at EXCEPT ![s] = "done"]
  /\ UNCHANGED <<form, written, stored, review, deleted, taken>>

-----------------------------------------------------------------------------
(* approveTenant() and rejectTenant(): once, of a tenant not deleted. *)
Decide(s, decision) ==
  /\ review[s] = "pending_review" /\ s \notin deleted
  /\ review' = [review EXCEPT ![s] = decision]
  /\ UNCHANGED <<form, at, written, stored, deleted, taken>>

Delete(s) ==
  /\ "tenant" \in stored[s] /\ s \notin deleted
  /\ deleted' = deleted \cup {s}
  /\ UNCHANGED <<form, at, written, stored, review, taken>>

(* create() of another handler; it waits for a transaction that holds the  *)
(* key.                                                                    *)
Take(key) ==
  /\ key \notin taken
  /\ \A s \in Signups :
       \A w \in (written[s] \cup stored[s]) \cap {"tenant", "account", "serviceCenter"} : Key(s, w) # key
  /\ taken' = taken \cup {key}
  /\ UNCHANGED <<form, at, written, stored, review, deleted>>

-----------------------------------------------------------------------------
Init ==
  /\ form = [s \in Signups |-> NoForm] /\ at = [s \in Signups |-> "idle"]
  /\ written = [s \in Signups |-> {}] /\ stored = [s \in Signups |-> {}]
  /\ review = [s \in Signups |-> "none"]
  /\ deleted = {} /\ taken = {}

Next ==
  \/ \E s \in Signups :
       \/ \E e \in Emails, r \in Registrations, n \in 1..MaxSlug : SignUp(s, e, r, n)
       \/ Write(s) \/ Commit(s) \/ Abort(s) \/ Notify(s)
       \/ \E d \in {"approved", "rejected"} : Decide(s, d)
       \/ Delete(s)
  \/ \E key \in (1..MaxSlug) \cup Emails \cup Registrations : Take(key)

Spec == Init /\ [][Next]_vars

-----------------------------------------------------------------------------
(* Properties *)

(* An organization is there with its account, profiles, center and every   *)
(* reference between them, or not at all ("so nothing is left half-created *)
(* on failure"), also when another sign-up or handler takes one of its     *)
(* keys half-way.                                                          *)
NoHalfOrganization ==
  \A s \in Signups : stored[s] \in {{}, Writes}
=============================================================================
