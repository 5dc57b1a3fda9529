----------------------------- MODULE PlanCatalog ------------------------------
(***************************************************************************)
(* One subscription plan, known by its slug, and the plan that the payment *)
(* provider keeps for it: src/services/subscriptionPlan.service.ts.        *)
(*                                                                         *)
(* A plan at the provider cannot be edited, so an edit of the price, the   *)
(* name or the interval registers a new one and points providerPriceId at  *)
(* it.  `name` stands for the name and the interval together; the fields   *)
(* the provider knows nothing of are left out, and so is the currency,     *)
(* whose edit registers nothing.  Razorpay is configured.                  *)
(***************************************************************************)
EXTENDS Integers, FiniteSets

CONSTANTS
  Names,     \* names of a plan
  MaxPrice,  \* prices are 0..MaxPrice; 0 is a free plan
  Requests,  \* slots for concurrent requests
  None

PlanConstants ==
  /\ MaxPrice \in Nat
  /\ None \notin Names \cup (0..MaxPrice) \cup [name : Names, price : 0..MaxPrice]

VARIABLES
  plan,  \* the document: where it is, its terms, and providerPriceId, for
         \* which the terms stand that the provider was given
  req,   \* the requests in progress
  mixed  \* history: the last edit wrote over another that it had not seen

vars == <<plan, req, mixed>>

-----------------------------------------------------------------------------
(* Types *)

Prices == 0..MaxPrice
Terms  == [name : Names, price : Prices]
Plan   == [at : {"absent", "there", "deleted"}, terms : Terms \cup {None},
           provider : Terms \cup {None}]

Request ==
  [pc : {"idle", "register", "insert", "edit", "write"},
   name : Names \cup {None}, price : Prices \cup {None},
   terms : Terms \cup {None}, provider : Terms \cup {None}, passed : BOOLEAN]

NoPlan == [at |-> "absent", terms |-> None, provider |-> None]
Idle == [pc |-> "idle", name |-> None, price |-> None, terms |-> None,
         provider |-> None, passed |-> FALSE]

TypeOK ==
  /\ plan \in Plan
  /\ req \in [Requests -> Request]
  /\ mixed \in BOOLEAN

Finish(q) == req' = [req EXCEPT ![q] = Idle]

(* What a request sent, or what the plan has where it sent nothing. *)
Sent(v, default) == IF v = None THEN default ELSE v

-----------------------------------------------------------------------------
(* create() *)

LookUpSlug(q) ==
  /\ req[q].pc = "idle" /\ plan.at # "there"
  /\ \E t \in Terms : req' = [req EXCEPT ![q] = [Idle EXCEPT !.pc = "register", !.terms = t]]
  /\ UNCHANGED <<plan, mixed>>

(* registerRazorpayPlan(): nothing for a free plan.                        *)
Registered(t) == IF t.price > 0 THEN t ELSE None

Register(q) ==
  /\ req[q].pc \in {"register", "edit"}
  /\ req' = [req EXCEPT ![q].provider = Registered(req[q].terms),
                        ![q].terms = IF req[q].pc = "register" THEN @ ELSE None,
                        ![q].pc = IF @ = "register" THEN "insert" ELSE "write"]
  /\ UNCHANGED <<plan, mixed>>

(* The index on the slug counts a deleted plan, which the lookup does not. *)
InsertPlan(q) ==
  /\ req[q].pc = "insert"
  /\ plan' = IF plan.at = "absent"
             THEN [at |-> "there", terms |-> req[q].terms, provider |-> req[q].provider]
             ELSE plan
  /\ Finish(q)
  /\ UNCHANGED mixed

-----------------------------------------------------------------------------
(* update() *)

(* Mutant of LoadPlan: a new name is not taken for a new plan. *)
LoadPriced(q) ==
  /\ req[q].pc = "idle" /\ plan.at = "there"
  /\ \E n \in Names \cup {None}, p \in Prices \cup {None} :
       LET t == [name |-> Sent(n, plan.terms.name), price |-> Sent(p, plan.terms.price)]
       IN  req' = [req EXCEPT ![q] =
                     IF t.price = plan.terms.price
                     THEN [Idle EXCEPT !.pc = "write", !.name = n, !.price = p]
                     ELSE [Idle EXCEPT !.pc = "edit", !.name = n, !.price = p, !.terms = t]]
  /\ UNCHANGED <<plan, mixed>>

(* Only an edit that changes the terms goes to the provider. *)
LoadPlan(q) ==
  /\ req[q].pc = "idle" /\ plan.at = "there"
  /\ \E n \in Names \cup {None}, p \in Prices \cup {None} :
       LET t == [name |-> Sent(n, plan.terms.name), price |-> Sent(p, plan.terms.price)]
       IN  req' = [req EXCEPT ![q] =
                     IF t = plan.terms
                     THEN [Idle EXCEPT !.pc = "write", !.name = n, !.price = p]
                     ELSE [Idle EXCEPT !.pc = "edit", !.name = n, !.price = p, !.terms = t]]
  /\ UNCHANGED <<plan, mixed>>

(* Only what was sent is written, on a deleted plan too, and a provider    *)
(* plan that was not registered is undefined, which leaves the old one.    *)
WritePlan(q) ==
  /\ req[q].pc = "write"
  /\ plan' = [plan EXCEPT !.terms.name = Sent(req[q].name, @),
                          !.terms.price = Sent(req[q].price, @),
                          !.provider = Sent(req[q].provider, @)]
  /\ mixed' = IF req[q].passed THEN TRUE ELSE mixed /\ req[q].provider = None
  /\ req' = [r \in Requests |->
               IF r = q THEN Idle
               ELSE IF req[r].pc \in {"edit", "write"} THEN [req[r] EXCEPT !.passed = TRUE]
               ELSE req[r]]

-----------------------------------------------------------------------------
DeletePlan ==
  /\ plan.at = "there"
  /\ plan' = [plan EXCEPT !.at = "deleted"]
  /\ UNCHANGED <<req, mixed>>

(* The provider or the database refuses, or the process dies. *)
Abort(q) ==
  /\ req[q].pc # "idle"
  /\ Finish(q)
  /\ UNCHANGED <<plan, mixed>>

Init ==
  /\ plan = NoPlan
  /\ req = [q \in Requests |-> Idle]
  /\ mixed = FALSE

Next ==
  \/ \E q \in Requests :
       \/ LookUpSlug(q) \/ Register(q) \/ InsertPlan(q)
       \/ LoadPlan(q) \/ WritePlan(q)
       \/ Abort(q)
  \/ DeletePlan

Spec == Init /\ [][Next]_vars

-----------------------------------------------------------------------------
(* Properties *)

(* Who subscribes to a plan with a price is charged what it says: the plan *)
(* at the provider is the one for its name and price, unless an edit wrote *)
(* over another since the last that registered one by itself.              *)
ChargedAsTold ==
  plan.at # "absent" /\ plan.terms.price > 0 /\ ~mixed => plan.provider = plan.terms
=============================================================================
