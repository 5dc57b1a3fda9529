----------------------------- MODULE TenantScope ------------------------------
(***************************************************************************)
(* Which documents of a scoped collection a request reaches: the context   *)
(* that src/app.ts sets up before every route (authenticateOptional,       *)
(* requestContext, tenantIsolation) and the hooks that tenantPlugin puts   *)
(* on every query and save.  A filter or a new document that names a       *)
(* tenant itself, as lists do with tenantId of the query string and        *)
(* creations with that of the body, is left alone by the plugin.           *)
(* updateOne(), which it does not hook, and aggregates, which hold no      *)
(* document, are left out.                                                 *)
(***************************************************************************)
EXTENDS Integers, FiniteSets

CONSTANTS
  Tenants,
  Docs,      \* documents of one scoped collection
  Requests,  \* slots for concurrent requests and jobs
  None       \* no tenant, no user, no document

User == [tenant : Tenants \cup {None}, admin : BOOLEAN]

TenantConstants ==
  /\ None \notin Tenants \cup Docs \cup User
  /\ {"absent", "deleted"} \cap (Tenants \cup {None}) = {}

VARIABLES
  docs,  \* the tenantId of each document; before and after it: "absent", "deleted"
  req,   \* the requests in progress
  torn   \* history: two saves have claimed one document for two tenants

vars == <<docs, req, torn>>

-----------------------------------------------------------------------------
(* Types *)

(* The map in AsyncLocalStorage; `filled` if it has any entry.             *)
Context == [tenant : Tenants \cup {None}, admin : BOOLEAN, filled : BOOLEAN]

Request ==
  [pc : {"idle", "route", "handler"}, user : User \cup {None}, known : BOOLEAN,
   context : Context, held : Docs \cup {None},
   copy : Tenants \cup {None},   \* the tenantId of the loaded copy
   named : Tenants \cup {None}]  \* the tenant that was asked for by name, if any

NoContext == [tenant |-> None, admin |-> FALSE, filled |-> FALSE]
Idle == [pc |-> "idle", user |-> None, known |-> FALSE, context |-> NoContext, held |-> None,
         copy |-> None, named |-> None]

TypeOK ==
  /\ docs \in [Docs -> Tenants \cup {None, "absent", "deleted"}]
  /\ req \in [Requests -> Request]
  /\ torn \in BOOLEAN

-----------------------------------------------------------------------------
(* The context of a request that sent the token of user `u`, or none, and  *)
(* named tenant `h` in its header, or none; a user's own tenant goes       *)
(* before the header.                                                      *)
ContextOf(u, h) ==
  IF u = None THEN [NoContext EXCEPT !.tenant = h, !.filled = (h # None)]
  ELSE [tenant |-> IF u.tenant = None THEN h ELSE u.tenant, admin |-> u.admin, filled |-> TRUE]

(* Mutant of Enter: the context is made before the token is looked at.     *)
EnterUnscoped(q) ==
  /\ req[q].pc = "idle"
  /\ \E u \in User, h \in Tenants \cup {None} :
       req' = [req EXCEPT ![q] = [Idle EXCEPT
                 !.pc = "route", !.user = u, !.known = TRUE, !.context = ContextOf(None, h)]]
  /\ UNCHANGED <<docs, torn>>

(* authenticateOptional() goes on without the user when the check of his   *)
(* token fails, also when it fails because Redis does not answer.          *)
Enter(q) ==
  /\ req[q].pc = "idle"
  /\ \E u \in User, h \in Tenants \cup {None}, known \in BOOLEAN :
       req' = [req EXCEPT ![q] = [Idle EXCEPT
                 !.pc = "route", !.user = u, !.known = known,
                 !.context = ContextOf(IF known THEN u ELSE None, h)]]
  /\ UNCHANGED <<docs, torn>>

(* The route's own authenticate() asks again; the context stays. *)
Authenticate(q) ==
  /\ req[q].pc = "route"
  /\ req' = [req EXCEPT ![q].pc = "handler"]
  /\ UNCHANGED <<docs, torn>>

(* A public route, or a job of the queue or the scheduler. *)
EnterAnonymous(q) ==
  /\ req[q].pc = "idle"
  /\ \E h \in Tenants \cup {None} :
       req' = [req EXCEPT ![q] = [Idle EXCEPT !.pc = "handler", !.context = ContextOf(None, h)]]
  /\ UNCHANGED <<docs, torn>>

-----------------------------------------------------------------------------
(* The plugin *)

Exists(d) == docs[d] \notin {"absent", "deleted"}

(* An admin's queries and those of code without a context are left alone.  *)
Unscoped(c) == c.admin \/ ~c.filled

(* applyTenantScope(): the documents a query in context `c` can match      *)
(* whose filter names the tenant `n`, or none.  A tenant in the filter     *)
(* goes before the one of the context; without a tenant in the context the *)
(* filter is for documents that have none, whatever it named.              *)
InScope(c, n) ==
  {d \in Docs :
     /\ Exists(d)
     /\ IF Unscoped(c) THEN n \in {None, docs[d]}
        ELSE docs[d] = IF n = None \/ c.tenant = None THEN c.tenant ELSE n}

(* The hooks of save() and insertMany(), which an admin's tenant stamps    *)
(* like any other.                                                         *)
Stamped(c, t) == IF c.filled /\ t = None THEN c.tenant ELSE t

Find(q) ==
  /\ req[q].pc = "handler"
  /\ \E n \in Tenants \cup {None} : \E d \in InScope(req[q].context, n) :
       req' = [req EXCEPT ![q].held = d, ![q].copy = docs[d], ![q].named = n]
  /\ UNCHANGED <<docs, torn>>

(* A save looks the document up by its id alone, and writes a tenant where *)
(* the copy has none.                                                      *)
Save(q) ==
  /\ req[q].pc = "handler" /\ req[q].held # None
  /\ LET d == req[q].held
         t == Stamped(req[q].context, req[q].copy)
     IN  /\ Exists(d)
         /\ docs' = [docs EXCEPT ![d] = IF req[q].copy = None /\ t # None THEN t ELSE @]
         /\ torn' = (torn \/ (docs[d] # None /\ docs'[d] # docs[d]))
         /\ req' = [req EXCEPT ![q].copy = t]

(* A tenant in the body, or given by the code, stays. *)
Create(q) ==
  /\ req[q].pc = "handler"
  /\ \E d \in Docs, n \in Tenants \cup {None} :
       /\ docs[d] = "absent"
       /\ docs' = [docs EXCEPT ![d] = Stamped(req[q].context, n)]
       /\ req' = [req EXCEPT ![q].held = d, ![q].named = n,
                             ![q].copy = Stamped(req[q].context, n)]
  /\ UNCHANGED torn

(* deleteMany(), whose filters name no tenant. *)
Delete(q) ==
  /\ req[q].pc = "handler"
  /\ \E d \in InScope(req[q].context, None) : docs' = [docs EXCEPT ![d] = "deleted"]
  /\ UNCHANGED <<req, torn>>

(* The request is answered or refused. *)
Leave(q) ==
  /\ req[q].pc # "idle"
  /\ req' = [req EXCEPT ![q] = Idle]
  /\ UNCHANGED <<docs, torn>>

Init ==
  /\ docs = [d \in Docs |-> "absent"]
  /\ req = [q \in Requests |-> Idle]
  /\ torn = FALSE

Next ==
  \E q \in Requests :
    \/ Enter(q) \/ Authenticate(q) \/ EnterAnonymous(q)
    \/ Find(q) \/ Save(q) \/ Create(q) \/ Delete(q)
    \/ Leave(q)

Spec == Init /\ [][Next]_vars

-----------------------------------------------------------------------------
(* Properties *)

(* Requests whose user was recognised before the context was made, who has *)
(* a tenant and is no admin.                                               *)
Scoped == {q \in Requests : /\ req[q].known /\ ~req[q].user.admin
                            /\ req[q].user.tenant # None}

(* The tenant such a request may work for: the one it asked for by name,   *)
(* and its user's otherwise.                                               *)
TenantAsked(q) == IF req[q].named = None THEN req[q].user.tenant ELSE req[q].named

(* Unless it names a tenant itself, such a request holds documents of its  *)
(* user's tenant only ("controllers cannot accidentally leak or            *)
(* cross-tenant data"), also those it has created and also while others    *)
(* save them, and otherwise documents of the tenant it names; unless two   *)
(* saves have given one document without a tenant to two.                  *)
AskedTenantOnly ==
  ~torn => \A q \in Scoped :
             req[q].held # None => docs[req[q].held] \in {TenantAsked(q), "deleted"}
=============================================================================
