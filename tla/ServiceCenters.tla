--------------------------- MODULE ServiceCenters ---------------------------
(***************************************************************************)
(* One service center and the services it offers, as                       *)
(* src/services/serviceCenter.service.ts keeps them.                       *)
(*                                                                         *)
(* A change of one service is written to its position in the array, under  *)
(* a check of the version, which every save that adds or removes one has   *)
(* changed; PUT writes the array without either.                           *)
(***************************************************************************)
EXTENDS Integers, Sequences, FiniteSets, FiniteSetsExt, SequencesExt

CONSTANTS
  Names,        \* names of services
  Requests,     \* slots for concurrent requests
  MaxServices,  \* bound on the services offered, and on their ids
  None

ServiceCenterConstants == MaxServices \in Nat /\ None \notin Names

VARIABLES
  center,    \* whether the ServiceCenter document is there
  services,  \* servicesOffered
  req        \* the requests in progress

vars == <<center, services, req>>

-----------------------------------------------------------------------------
(* Types *)

Center == {"absent", "live", "deleted"}

(* A write past the end of the array makes entries without an id. *)
Service == [id : 0..MaxServices, name : Names \cup {None}]
NoService == [id |-> 0, name |-> None]

Request ==
  [pc : {"idle", "update", "remove", "splice"},
   id : 0..MaxServices, at : 0..MaxServices,    \* a service, and its position when loaded
   name : Names \cup {None},
   copy : Seq(Service),
   fresh : BOOLEAN,                             \* the version is that of the load
   replaced : BOOLEAN]                          \* history: a PUT has come in between

Idle == [pc |-> "idle", id |-> 0, at |-> 0, name |-> None, copy |-> << >>, fresh |-> TRUE,
         replaced |-> FALSE]

TypeOK ==
  /\ center \in Center
  /\ services \in Seq(Service) /\ Len(services) <= MaxServices
  /\ req \in [Requests -> Request]

-----------------------------------------------------------------------------
(* Helpers *)

Exists == center # "absent"
Start(q, r) == req[q].pc = "idle" /\ req' = [req EXCEPT ![q] = r]
Answer(q) == req' = [req EXCEPT ![q] = Idle]

Ids(s) == {s[i].id : i \in DOMAIN s}
InUse == Ids(services) \cup UNION {Ids(req[q].copy) \cup {req[q].id} : q \in Requests}
NewIds == (1..MaxServices) \ InUse

(* save() of q has added or removed a service. *)
AnswerOutdating(q) ==
  req' = [p \in Requests |-> IF p = q THEN Idle
                             ELSE IF req[p].pc \in {"update", "splice"} THEN [req[p] EXCEPT !.fresh = FALSE]
                             ELSE req[p]]

-----------------------------------------------------------------------------
(* The document *)

(* The registration number is unique, a deleted center's too. *)
Create ==
  /\ center = "absent"
  /\ center' = "live"
  /\ UNCHANGED <<services, req>>

Delete ==
  /\ center = "live"
  /\ center' = "deleted"
  /\ UNCHANGED <<services, req>>

(* update() with servicesOffered: an array of new subdocuments. *)
Update ==
  /\ Exists
  /\ \E n \in 0..Cardinality(NewIds) :
       \E names \in [1..n -> Names] :
         services' = [i \in 1..n |-> [id |-> SetToSeq(NewIds)[i], name |-> names[i]]]
  /\ req' = [q \in Requests |-> IF req[q].pc \in {"update", "splice"}
                                THEN [req[q] EXCEPT !.replaced = TRUE] ELSE req[q]]
  /\ UNCHANGED center

-----------------------------------------------------------------------------
(* Services *)

AddService(q, name) ==
  /\ Exists /\ req[q].pc = "idle"
  /\ Len(services) < MaxServices /\ NewIds # {}
  /\ services' = Append(services, [id |-> Min(NewIds), name |-> name])
  /\ AnswerOutdating(q)
  /\ UNCHANGED center

UpdateService(q, i, name) ==
  /\ center = "live" /\ i \in DOMAIN services /\ services[i].id # 0
  /\ Start(q, [Idle EXCEPT !.pc = "update", !.id = services[i].id, !.at = i, !.name = name])
  /\ UNCHANGED <<center, services>>

Put(s, i, name) ==
  IF i \in DOMAIN s THEN [s EXCEPT ![i].name = name]
  ELSE [k \in 1..i |-> IF k \in DOMAIN s THEN s[k]
                       ELSE IF k = i THEN [NoService EXCEPT !.name = name] ELSE NoService]

(* Mutant of SaveService: the version is not checked. *)
SaveUnchecked(q) ==
  /\ req[q].pc = "update"
  /\ services' = Put(services, req[q].at, req[q].name)
  /\ Answer(q)
  /\ UNCHANGED center

SaveService(q) ==
  /\ req[q].pc = "update"
  /\ services' = IF req[q].fresh THEN Put(services, req[q].at, req[q].name) ELSE services
  /\ Answer(q)
  /\ UNCHANGED center

(* deleteService(): the handler finds the service's name by its id, and    *)
(* removeService() keeps all that have another name.                       *)
DeleteService(q, i) ==
  /\ Exists /\ i \in DOMAIN services /\ services[i].id # 0
  /\ Start(q, [Idle EXCEPT !.pc = "remove", !.name = services[i].name])
  /\ UNCHANGED <<center, services>>

RemoveService(q) ==
  LET kept == {i \in DOMAIN services : services[i].name # req[q].name}
  IN  /\ req[q].pc = "remove"
      /\ \E from \in [1..Cardinality(kept) -> kept] :
           /\ \A j, k \in DOMAIN from : j < k => from[j] < from[k]
           /\ req' = [req EXCEPT ![q].pc = "splice",
                                 ![q].copy = [k \in DOMAIN from |-> services[from[k]]]]
      /\ UNCHANGED <<center, services>>

SaveRemaining(q) ==
  /\ req[q].pc = "splice"
  /\ IF req[q].fresh
     THEN services' = req[q].copy /\ AnswerOutdating(q)
     ELSE Answer(q) /\ UNCHANGED services
  /\ UNCHANGED center

(* A call rejects, or the process dies. *)
Abort(q) ==
  /\ req[q].pc # "idle"
  /\ Answer(q)
  /\ UNCHANGED <<center, services>>

-----------------------------------------------------------------------------
Init ==
  /\ center = "absent" /\ services = << >>
  /\ req = [q \in Requests |-> Idle]

Next ==
  \/ Create \/ Delete \/ Update
  \/ \E q \in Requests :
       \/ \E name \in Names : AddService(q, name) \/ \E i \in 1..MaxServices : UpdateService(q, i, name)
       \/ SaveService(q)
       \/ \E i \in 1..MaxServices : DeleteService(q, i)
       \/ RemoveService(q) \/ SaveRemaining(q)
       \/ Abort(q)

Spec == Init /\ [][Next]_vars

-----------------------------------------------------------------------------
(* Properties *)

(* A change of one service reaches no other, though services have been     *)
(* added and removed since its position was read; only a PUT in between    *)
(* may have put another there.                                             *)
OnlyItsService ==
  [][\A q \in Requests :
       req[q].pc = "update" /\ req'[q].pc = "idle" /\ ~req[q].replaced =>
         \A i \in DOMAIN services : services[i].id # req[q].id =>
           i \in DOMAIN services' /\ services'[i] = services[i]]_vars
=============================================================================
