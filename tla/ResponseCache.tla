---------------------------- MODULE ResponseCache -----------------------------
(***************************************************************************)
(* One cached answer of src/middleware/cache.middleware.ts: the public     *)
(* list of plans under its key, while the plans change and the key is      *)
(* cleared by hand (POST /admin/maintenance/clear-cache).                  *)
(*                                                                         *)
(* Time passes in ticks.  That a request takes at most MaxWait of them is  *)
(* an assumption: the code limits how long a client waits, and not how     *)
(* long a handler runs.                                                    *)
(***************************************************************************)
EXTENDS Integers, FiniteSets

CONSTANTS
  Requests,    \* slots for concurrent requests
  Ttl,         \* ttlSeconds in ticks
  MaxWait,     \* how long a request may take
  MaxVersions  \* bound on the changes of the plans

CacheConstants == Ttl \in Nat \ {0} /\ MaxWait \in Nat /\ MaxVersions \in Nat

VARIABLES
  version,  \* the plans, counted in changes
  changed,  \* ticks since the plans changed, up to the longest that matters
  entry,    \* the cached answer: the plans it shows and the ticks it has left
  req       \* the requests in progress and how long each has taken

vars == <<version, changed, entry, req>>

-----------------------------------------------------------------------------
(* Types *)

(* An answer computed before a change is gone that long after it. *)
Horizon == Ttl + MaxWait

Versions == 0..MaxVersions
Entry    == [shows : Versions, left : 0..Ttl]
Request  == [pc : {"idle", "find", "send", "clear"}, shows : Versions, age : 0..MaxWait]

NoEntry == [shows |-> 0, left |-> 0]
Idle    == [pc |-> "idle", shows |-> 0, age |-> 0]

TypeOK ==
  /\ version \in Versions /\ changed \in 0..Horizon
  /\ entry \in Entry
  /\ req \in [Requests -> Request]

Cached == entry.left > 0

-----------------------------------------------------------------------------
(* Mutant of LookUp: a hit lets the answer last longer. *)
SlidingLookUp(q) ==
  /\ req[q].pc = "idle"
  /\ IF Cached
     THEN entry' = [entry EXCEPT !.left = Ttl] /\ UNCHANGED req
     ELSE req' = [req EXCEPT ![q].pc = "find"] /\ UNCHANGED entry
  /\ UNCHANGED <<version, changed>>

(* cacheGet(): a hit is answered at once and changes nothing. *)
LookUp(q) ==
  /\ req[q].pc = "idle" /\ ~Cached
  /\ req' = [req EXCEPT ![q].pc = "find"]
  /\ UNCHANGED <<version, changed, entry>>

(* The handler reads the plans. *)
FindPublic(q) ==
  /\ req[q].pc = "find"
  /\ req' = [req EXCEPT ![q].pc = "send", ![q].shows = version]
  /\ UNCHANGED <<version, changed, entry>>

(* res.json(): the answer is stored with a fresh ttl, over whatever is     *)
(* there by now.                                                           *)
SendJson(q) ==
  /\ req[q].pc = "send"
  /\ entry' = [shows |-> req[q].shows, left |-> Ttl]
  /\ req' = [req EXCEPT ![q] = Idle]
  /\ UNCHANGED <<version, changed>>

-----------------------------------------------------------------------------
(* clearCache(): the keys are listed, then deleted. *)

ListKeys(q) ==
  /\ req[q].pc = "idle" /\ Cached
  /\ req' = [req EXCEPT ![q].pc = "clear"]
  /\ UNCHANGED <<version, changed, entry>>

DeleteKeys(q) ==
  /\ req[q].pc = "clear"
  /\ entry' = NoEntry
  /\ req' = [req EXCEPT ![q] = Idle]
  /\ UNCHANGED <<version, changed>>

(* Redis or the database refuses, or the process dies. *)
Abort(q) ==
  /\ req[q].pc # "idle"
  /\ req' = [req EXCEPT ![q] = Idle]
  /\ UNCHANGED <<version, changed, entry>>

-----------------------------------------------------------------------------
(* Nothing tells the cache. *)
ChangePlans ==
  /\ version < MaxVersions
  /\ version' = version + 1 /\ changed' = 0
  /\ UNCHANGED <<entry, req>>

Tick ==
  /\ \A q \in Requests : req[q].pc # "idle" => req[q].age < MaxWait
  /\ changed' = IF changed < Horizon THEN changed + 1 ELSE changed
  /\ entry' = IF entry.left > 1 THEN [entry EXCEPT !.left = @ - 1] ELSE NoEntry
  /\ req' = [q \in Requests |->
               IF req[q].pc = "idle" THEN Idle ELSE [req[q] EXCEPT !.age = @ + 1]]
  /\ UNCHANGED version

Init ==
  /\ version = 0 /\ changed = Horizon
  /\ entry = NoEntry
  /\ req = [q \in Requests |-> Idle]

Next ==
  \/ \E q \in Requests :
       \/ LookUp(q) \/ FindPublic(q) \/ SendJson(q)
       \/ ListKeys(q) \/ DeleteKeys(q)
       \/ Abort(q)
  \/ ChangePlans \/ Tick

Spec == Init /\ [][Next]_vars

-----------------------------------------------------------------------------
(* Properties *)

(* A change of the plans is seen by everybody once the ttl and the time of *)
(* one request have passed: "staleness is bounded by a short TTL", by that *)
(* much more than the ttl, whatever is cleared or filled in between.       *)
StalenessBounded ==
  Cached /\ changed = Horizon => entry.shows = version
=============================================================================
