---------------------------- MODULE VoiceIntake ----------------------------
(***************************************************************************)
(* Job cards that are spoken: src/services/voiceIntake.service.ts.  The    *)
(* client holds the draft; parse() merges what was said into it and        *)
(* confirm() creates the customer, the vehicle and the job card, each if   *)
(* it is not there yet.  A customer's phone number stands for the account, *)
(* a registration number for the vehicle.                                  *)
(***************************************************************************)
EXTENDS Integers, FiniteSets

CONSTANTS
  Phones,         \* valid phone numbers
  Registrations,  \* registration numbers
  Requests,       \* mechanics, each with a draft
  MaxJobs,        \* job cards of one vehicle
  None

VoiceConstants == MaxJobs \in Nat \ {0} /\ None \notin Phones \cup Registrations

VARIABLES
  draft,     \* what each client has captured
  req,       \* where its confirm() stands
  accounts,  \* phone numbers with an account
  profiles,  \* the owner profile of each
  linked,    \* accounts that name their profile in ownerProfileId
  vehicles,  \* the owner of each vehicle, by phone number
  jobs       \* the number of job cards of each vehicle

vars == <<draft, req, accounts, profiles, linked, vehicles, jobs>>

customers == <<accounts, profiles, linked>>

-----------------------------------------------------------------------------
(* Types *)

(* The fields told apart: the description stands for those that only the   *)
(* language model finds, and a phone number may be no phone number.        *)
Draft ==
  [phone : Phones \cup {"garbled", None}, registrationNumber : Registrations \cup {None},
   description : {"said", None}]

Fields == {"phone", "registrationNumber", "description"}

EmptyDraft == [f \in Fields |-> None]

TypeOK ==
  /\ draft \in [Requests -> Draft]
  /\ req \in [Requests -> {"idle", "account", "createAccount", "profile", "createProfile",
                           "link", "createVehicle", "record"}]
  /\ accounts \subseteq Phones
  /\ profiles \in [Phones -> {"none", "live", "deleted"}]
  /\ linked \subseteq accounts
  /\ vehicles \in [Registrations -> Phones \cup {None}]
  /\ jobs \in [Registrations -> 0..MaxJobs]

-----------------------------------------------------------------------------
(* parse() *)

(* Mutant of MergeDraft: what the patch leaves out is overwritten too. *)
MergeUnpruned(base, patch) == patch

(* mergeDraft(): a field the patch leaves out, or gives as null or "",     *)
(* stays as it was.                                                        *)
MergeDraft(base, patch) == [f \in Fields |-> IF patch[f] = None THEN base[f] ELSE patch[f]]

(* The patterns find a plate and a phone number, and never a garbled one.  *)
ExtractWithRules ==
  {d \in Draft : d.description = None /\ d.phone # "garbled"}

(* Field-by-field checks: what is invalid is left out.  A model that does  *)
(* not answer in time gives nothing.                                       *)
SanitizeExtraction == Draft

EvaluateDraft(d) == {f \in Fields : d[f] = None}

Parse(q) ==
  /\ req[q] = "idle"
  /\ \E rules \in ExtractWithRules, llm \in SanitizeExtraction :
       draft' = [draft EXCEPT ![q] = MergeDraft(MergeDraft(@, rules), llm)]
  /\ UNCHANGED <<req, customers, vehicles, jobs>>

-----------------------------------------------------------------------------
(* confirm() *)

At(q, pc) == req[q] = pc
Goto(q, pc) == req' = [req EXCEPT ![q] = pc]

(* A vehicle that is known brings its owner. *)
Confirm(q) ==
  /\ At(q, "idle") /\ EvaluateDraft(draft[q]) = {}
  /\ IF vehicles[draft[q].registrationNumber] # None THEN Goto(q, "record")
     ELSE draft[q].phone # "garbled" /\ Goto(q, "account")
  /\ UNCHANGED <<draft, customers, vehicles, jobs>>

(* Mutant of FindAccount: whoever has an account is taken for a customer.  *)
TrustAccount(q) ==
  /\ At(q, "account")
  /\ Goto(q, IF draft[q].phone \in accounts THEN "createVehicle" ELSE "createAccount")
  /\ UNCHANGED <<draft, customers, vehicles, jobs>>

FindAccount(q) ==
  /\ At(q, "account")
  /\ Goto(q, IF draft[q].phone \in accounts THEN "profile" ELSE "createAccount")
  /\ UNCHANGED <<draft, customers, vehicles, jobs>>

(* The placeholder address is unique: who comes second is turned down. *)
CreateAccount(q) ==
  LET p == draft[q].phone
  IN  /\ At(q, "createAccount")
      /\ accounts' = accounts \cup {p}
      /\ Goto(q, IF p \in accounts THEN "idle" ELSE "profile")
      /\ UNCHANGED <<draft, profiles, linked, vehicles, jobs>>

FindProfile(q) ==
  /\ At(q, "profile")
  /\ Goto(q, IF profiles[draft[q].phone] = "live" THEN "createVehicle" ELSE "createProfile")
  /\ UNCHANGED <<draft, customers, vehicles, jobs>>

(* An account has one profile for good, deleted or not. *)
CreateProfile(q) ==
  LET p == draft[q].phone
  IN  /\ At(q, "createProfile")
      /\ IF profiles[p] = "none"
         THEN profiles' = [profiles EXCEPT ![p] = "live"] /\ Goto(q, "link")
         ELSE Goto(q, "idle") /\ UNCHANGED profiles
      /\ UNCHANGED <<draft, accounts, linked, vehicles, jobs>>

LinkProfile(q) ==
  /\ At(q, "link")
  /\ linked' = linked \cup {draft[q].phone}
  /\ Goto(q, "createVehicle")
  /\ UNCHANGED <<draft, accounts, profiles, vehicles, jobs>>

CreateVehicle(q) ==
  LET v == draft[q].registrationNumber
  IN  /\ At(q, "createVehicle")
      /\ IF vehicles[v] = None
         THEN vehicles' = [vehicles EXCEPT ![v] = draft[q].phone] /\ Goto(q, "record")
         ELSE Goto(q, "idle") /\ UNCHANGED vehicles
      /\ UNCHANGED <<draft, customers, jobs>>

(* An answer that is lost leaves the draft to be confirmed again. *)
CreateRecord(q) ==
  LET v == draft[q].registrationNumber
  IN  /\ At(q, "record") /\ jobs[v] < MaxJobs
      /\ jobs' = [jobs EXCEPT ![v] = @ + 1]
      /\ \E d \in {draft[q], EmptyDraft} : draft' = [draft EXCEPT ![q] = d]
      /\ Goto(q, "idle")
      /\ UNCHANGED <<customers, vehicles>>

(* A call rejects, or the process dies; the draft is still the client's.   *)
Abort(q) ==
  /\ ~At(q, "idle")
  /\ Goto(q, "idle")
  /\ UNCHANGED <<draft, customers, vehicles, jobs>>

-----------------------------------------------------------------------------
(* Other handlers: registration and the deletion of an owner's profile. *)

Register(p) ==
  /\ p \notin accounts
  /\ accounts' = accounts \cup {p}
  /\ profiles' = [profiles EXCEPT ![p] = "live"]
  /\ linked' = linked \cup {p}
  /\ UNCHANGED <<draft, req, vehicles, jobs>>

DeleteProfile(p) ==
  /\ profiles[p] = "live"
  /\ profiles' = [profiles EXCEPT ![p] = "deleted"]
  /\ UNCHANGED <<draft, req, accounts, linked, vehicles, jobs>>

-----------------------------------------------------------------------------
Init ==
  /\ draft = [q \in Requests |-> EmptyDraft] /\ req = [q \in Requests |-> "idle"]
  /\ accounts = {} /\ profiles = [p \in Phones |-> "none"] /\ linked = {}
  /\ vehicles = [v \in Registrations |-> None] /\ jobs = [v \in Registrations |-> 0]

Next ==
  \/ \E q \in Requests :
       \/ Parse(q) \/ Confirm(q) \/ FindAccount(q) \/ CreateAccount(q)
       \/ FindProfile(q) \/ CreateProfile(q) \/ LinkProfile(q)
       \/ CreateVehicle(q) \/ CreateRecord(q) \/ Abort(q)
  \/ \E p \in Phones : Register(p) \/ DeleteProfile(p)

Spec == Init /\ [][Next]_vars

-----------------------------------------------------------------------------
(* Properties *)

(* Every job card is for a vehicle whose owner has an account and a        *)
(* profile, wherever an earlier attempt or another mechanic's stopped.     *)
JobHasCustomer ==
  \A v \in Registrations :
    jobs[v] > 0 => vehicles[v] \in accounts /\ profiles[vehicles[v]] # "none"

(* "Untouched fields survive": what was captured is lost only with the     *)
(* draft, when its job card is created.                                    *)
CapturedIsKept ==
  [][\A q \in Requests, f \in Fields :
       draft[q][f] # None /\ draft'[q][f] = None => draft'[q] = EmptyDraft /\ jobs' # jobs]_vars
=============================================================================
