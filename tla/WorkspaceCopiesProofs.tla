------------------------ MODULE WorkspaceCopiesProofs ------------------------
(***************************************************************************)
(* More proofs about the parts of the workspace: what is written down      *)
(* twice agrees, and what takes several steps is not left half done.       *)
(***************************************************************************)
EXTENDS WorkspaceProofs

(* A step of the workspace is a step of a part, or leaves it alone.        *)
LEMMA OtherPartsStep ==
  ASSUME [Next]_vars
  PROVE  /\ O!Next \/ UNCHANGED readingsVars
         /\ R!Next \/ UNCHANGED reviewsVars
         /\ G!Next \/ UNCHANGED plansVars
         /\ H!Next \/ UNCHANGED cacheVars
         /\ D!Next \/ UNCHANGED documentsVars
         /\ N!Next \/ UNCHANGED onboardingVars
         /\ I!Next \/ UNCHANGED invitationsVars
         /\ K!Next \/ UNCHANGED standInVars
<1>1. CASE Next
  BY <1>1 DEF Next
<1>2. CASE UNCHANGED vars
  BY <1>2 DEF vars
<1>3. QED BY <1>1, <1>2

-----------------------------------------------------------------------------
(* Odometer readings.  While the value of the vehicle was last written by  *)
(* a call of record(), it has its row or the call is about to insert it.   *)
LoggedInv ==
  /\ O!TypeOK
  /\ ~loose => \/ \E w \in Rows : O!Live(w) /\ readings[w].value = current
               \/ \E q \in Requests : recordReq[q].pc = "insert" /\ recordReq[q].value = current

LEMMA LoggedConstants == 0 \in O!Values
  BY WorkspaceConstants DEF O!OdometerConstants, O!Values

LEMMA LoggedIdle == O!Idle \in O!Request /\ O!Idle.pc = "idle"
  BY LoggedConstants DEF O!Idle, O!Request

LEMMA LoggedInit == Init => LoggedInv
<1> SUFFICES ASSUME Init PROVE LoggedInv
  OBVIOUS
<1>1. O!Init
  BY DEF Init
<1>2. O!NoRow \in O!Row
  BY LoggedConstants DEF O!NoRow, O!Row
<1>3. QED BY <1>1, <1>2, LoggedIdle DEF O!Init, O!TypeOK, LoggedInv

(* Which steps keep the value with its row, or with the call that inserts  *)
(* it.                                                                     *)
LEMMA LoggedRequest ==
  ASSUME LoggedInv, NEW q \in Requests, NEW x \in O!Request,
         recordReq' = [recordReq EXCEPT ![q] = x],
         readings' = readings, current' = current, loose' \in BOOLEAN, loose => loose',
         recordReq[q].pc = "insert" /\ recordReq[q].value = current => loose'
  PROVE  LoggedInv'
  BY DEF LoggedInv, O!TypeOK, O!Live

LEMMA LoggedRow ==
  ASSUME LoggedInv, NEW w \in Rows, NEW x \in O!Row,
         readings' = [readings EXCEPT ![w] = x],
         recordReq' = recordReq, current' = current, loose' \in BOOLEAN, loose => loose',
         readings[w].at = "live" /\ readings[w].value = current
           => loose' \/ (x.at = "live" /\ x.value = current)
  PROVE  LoggedInv'
  BY DEF LoggedInv, O!TypeOK, O!Live

LEMMA LoggedRecords ==
  ASSUME LoggedInv, NEW q \in Requests,
         \/ O!SaveVehicle(q) \/ O!Abort(q)
         \/ \E v \in O!Values, m \in BOOLEAN : O!Record(q, v, m)
         \/ \E w \in Rows : O!InsertRow(q, w)
  PROVE  LoggedInv'
<1>1. PICK r \in O!Request : r = recordReq[q]
  BY DEF LoggedInv, O!TypeOK
<1>2. ASSUME NEW v \in O!Values, NEW m \in BOOLEAN, O!Record(q, v, m) PROVE LoggedInv'
  <2>1. PICK x \in O!Request : x = [pc |-> "save", value |-> v, monotonic |-> m]
    BY DEF O!Request
  <2>2. /\ recordReq' = [recordReq EXCEPT ![q] = x] /\ recordReq[q].pc = "idle"
        /\ UNCHANGED <<current, readings, loose>>
    BY <1>2, <2>1 DEF O!Record
  <2>3. QED BY <2>1, <2>2, LoggedRequest DEF LoggedInv, O!TypeOK
<1>3. CASE O!SaveVehicle(q)
  <2>1. PICK x : x = [r EXCEPT !.pc = "insert"]
    OBVIOUS
  <2>2. x \in O!Request /\ x.pc = "insert" /\ x.value = r.value /\ r.value \in O!Values
    BY <1>1, <2>1 DEF O!Request
  <2>3. /\ recordReq' = [recordReq EXCEPT ![q] = x]
        /\ current' = r.value /\ UNCHANGED <<readings, loose>>
    BY <1>1, <1>3, <2>1 DEF O!SaveVehicle
  <2>4. QED BY <2>2, <2>3 DEF LoggedInv, O!TypeOK
<1>4. CASE O!Abort(q)
  <2>1. /\ loose' = (loose \/ (r.pc = "insert" /\ r.value = current))
        /\ recordReq' = [recordReq EXCEPT ![q] = O!Idle] /\ UNCHANGED <<current, readings>>
    BY <1>1, <1>4 DEF O!Abort
  <2>2. QED BY <1>1, <2>1, LoggedIdle, LoggedRequest DEF LoggedInv, O!TypeOK
<1>5. ASSUME NEW w \in Rows, O!InsertRow(q, w) PROVE LoggedInv'
  <2>1. PICK x : x = [at |-> "live", value |-> r.value, isVerified |-> FALSE]
    OBVIOUS
  <2>2. x \in O!Row /\ x.at = "live" /\ x.value = r.value
    BY <1>1, <2>1 DEF O!Row, O!Request
  <2>3. /\ readings' = [readings EXCEPT ![w] = x]
        /\ readings[w].at = "absent" /\ current' = current
        /\ loose' = (loose /\ r.value # current)
        /\ recordReq' = [recordReq EXCEPT ![q] = O!Idle]
    BY <1>1, <1>5, <2>1 DEF O!InsertRow
  <2>4. O!TypeOK'
    BY <2>2, <2>3, LoggedIdle DEF LoggedInv, O!TypeOK
  <2>5. QED BY <1>1, <2>2, <2>3, <2>4 DEF LoggedInv, O!TypeOK, O!Live
<1>6. QED BY <1>2, <1>3, <1>4, <1>5

LEMMA LoggedRows ==
  ASSUME LoggedInv, NEW w \in Rows, O!UpdateRow(w) \/ O!Verify(w) \/ O!DeleteRow(w)
  PROVE  LoggedInv'
<1>1. PICK r \in O!Row : r = readings[w]
  BY DEF LoggedInv, O!TypeOK
<1>2. /\ loose \in BOOLEAN /\ recordReq' = recordReq /\ current' = current
  BY DEF O!UpdateRow, O!Verify, O!DeleteRow, LoggedInv, O!TypeOK
<1>3. CASE O!UpdateRow(w)
  <2>1. PICK v \in O!Values, b \in BOOLEAN :
          readings' = [readings EXCEPT ![w].value = v, ![w].isVerified = b]
    BY <1>3 DEF O!UpdateRow
  <2>2. PICK x : x = [r EXCEPT !.value = v, !.isVerified = b]
    OBVIOUS
  <2>3. x \in O!Row /\ readings' = [readings EXCEPT ![w] = x]
    BY <1>1, <2>1, <2>2 DEF O!Row
  <2>4. loose' = (loose \/ r.value = current)
    BY <1>1, <1>3 DEF O!UpdateRow
  <2>5. QED BY <1>1, <1>2, <2>3, <2>4, LoggedRow
<1>4. CASE O!Verify(w)
  <2>1. PICK x : x = [r EXCEPT !.isVerified = TRUE]
    OBVIOUS
  <2>2. x \in O!Row /\ x.at = r.at /\ x.value = r.value
    BY <1>1, <2>1 DEF O!Row
  <2>3. readings' = [readings EXCEPT ![w] = x] /\ loose' = loose
    BY <1>1, <1>4, <2>1 DEF O!Verify
  <2>4. QED BY <1>1, <1>2, <2>2, <2>3, LoggedRow
<1>5. CASE O!DeleteRow(w)
  <2>1. PICK x : x = [r EXCEPT !.at = "deleted"]
    OBVIOUS
  <2>2. x \in O!Row
    BY <1>1, <2>1 DEF O!Row
  <2>3. readings' = [readings EXCEPT ![w] = x] /\ loose' = (loose \/ r.value = current)
    BY <1>1, <1>5, <2>1 DEF O!DeleteRow
  <2>4. QED BY <1>1, <1>2, <2>2, <2>3, LoggedRow
<1>6. QED BY <1>3, <1>4, <1>5

LEMMA LoggedNext ==
  ASSUME LoggedInv, O!Next \/ UNCHANGED readingsVars
  PROVE  LoggedInv'
<1>1. CASE O!PutVehicle
  BY <1>1 DEF O!PutVehicle, LoggedInv, O!TypeOK
<1>2. CASE UNCHANGED readingsVars
  BY <1>2 DEF readingsVars, LoggedInv, O!TypeOK, O!Live
<1>3. QED BY <1>1, <1>2, LoggedRecords, LoggedRows DEF O!Next

(* The current value of a vehicle has its row in the log once no call is   *)
(* between its two writes.                                                 *)
THEOREM ReadingsAreLogged == Spec => []O!CurrentIsLogged
<1>1. LoggedInv => O!CurrentIsLogged
  BY DEF LoggedInv, O!CurrentIsLogged
<1>2. LoggedInv /\ [Next]_vars => LoggedInv'
  BY OtherPartsStep, LoggedNext
<1>3. QED BY LoggedInit, <1>1, <1>2, PTL DEF Spec

-----------------------------------------------------------------------------
(* Reviews.  While no summary has failed or overlapped another review, one *)
(* request at most is at it, and what it stores is the summary of the      *)
(* reviews there are.                                                      *)
WholeReview(r) ==
  r = [pc |-> r.pc, account |-> r.account, rating |-> r.rating, held |-> r.held]

RatingInv ==
  /\ reviewReq = [q \in Requests |-> reviewReq[q]]
  /\ \A q \in Requests : WholeReview(reviewReq[q])
  /\ ~reviewStale =>
       \/ R!Reviewing = {} /\ stats = R!GetRatingSummary
       \/ \E q \in Requests :
            /\ R!Reviewing = {q}
            /\ reviewReq[q].pc = "store" => reviewReq[q].held = R!GetRatingSummary

LEMMA SummaryKept ==
  ASSUME reviews' = reviews
  PROVE  R!GetRatingSummary' = R!GetRatingSummary
  BY DEF R!GetRatingSummary

LEMMA ReviewMoves ==
  ASSUME RatingInv, NEW q \in Requests, NEW x, WholeReview(x),
         reviewReq' = [reviewReq EXCEPT ![q] = x]
  PROVE  /\ reviewReq' = [p \in Requests |-> reviewReq'[p]]
         /\ \A p \in Requests : WholeReview(reviewReq'[p])
         /\ reviewReq'[q] = x
         /\ R!Reviewing' = IF x.pc \in {"summary", "store"} THEN R!Reviewing \cup {q}
                           ELSE R!Reviewing \ {q}
  BY DEF RatingInv, R!Reviewing

LEMMA RatingInit == Init => RatingInv
<1> SUFFICES ASSUME Init PROVE RatingInv
  OBVIOUS
<1>1. R!Init
  BY DEF Init
<1>2. reviewReq = [q \in Requests |-> R!Idle] /\ R!Idle.pc = "idle" /\ WholeReview(R!Idle)
  BY <1>1 DEF R!Init, R!Idle, WholeReview
<1>3. R!Reviewing = {}
  BY <1>2 DEF R!Reviewing
<1>4. stats = R!GetRatingSummary
  <2>1. PICK rated : rated = {a \in Things : reviews[a] > 0}
    OBVIOUS
  <2>2. rated = {}
    BY <1>1, <2>1 DEF R!Init
  <2>3. R!Cardinality(rated) = 0
    <3>1. R!Cardinality(rated) = Cardinality(rated)
      BY DEF R!Cardinality, Cardinality
    <3>2. QED BY <2>2, <3>1, FS_EmptySet
  <2>4. R!GetRatingSummary = R!NoStats
    BY <2>1, <2>3 DEF R!GetRatingSummary, R!RatingSummary
  <2>5. QED BY <1>1, <2>4 DEF R!Init
<1>5. QED BY <1>2, <1>3, <1>4 DEF RatingInv

LEMMA RatingStep ==
  ASSUME RatingInv, NEW q \in Requests,
         \/ R!UpsertForCenter(q) \/ R!Summarise(q) \/ R!SyncCenterRating(q) \/ R!Abort(q)
         \/ \E a \in Things, n \in 1..MaxRating : R!AddReview(q, a, n)
  PROVE  RatingInv'
<1>1. PICK r : r = reviewReq[q] /\ WholeReview(r)
  BY DEF RatingInv
<1>2. q \in R!Reviewing <=> r.pc \in {"summary", "store"}
  BY <1>1 DEF R!Reviewing
<1>3. ASSUME NEW a \in Things, NEW n \in 1..MaxRating, R!AddReview(q, a, n) PROVE RatingInv'
  <2>1. PICK x : x = [R!Idle EXCEPT !.pc = "upsert", !.account = a, !.rating = n]
    OBVIOUS
  <2>2. x.pc = "upsert" /\ WholeReview(x)
    BY <2>1 DEF R!Idle, WholeReview
  <2>3. /\ reviewReq' = [reviewReq EXCEPT ![q] = x] /\ r.pc = "idle"
        /\ UNCHANGED <<reviews, stats, reviewStale>>
    BY <1>1, <1>3, <2>1 DEF R!AddReview
  <2>4. R!GetRatingSummary' = R!GetRatingSummary
    BY <2>3, SummaryKept
  <2>5. R!Reviewing' = R!Reviewing /\ q \notin R!Reviewing
    <3>1. R!Reviewing' = R!Reviewing \ {q}
      BY <2>2, <2>3, ReviewMoves
    <3>2. q \notin R!Reviewing
      BY <1>2, <2>3
    <3>3. QED BY <3>1, <3>2
  <2>6. \A p \in R!Reviewing : reviewReq'[p] = reviewReq[p]
    BY <2>3, <2>5 DEF RatingInv
  <2>7. QED BY <2>2, <2>3, <2>4, <2>5, <2>6, ReviewMoves DEF RatingInv
<1>4. CASE R!UpsertForCenter(q)
  <2>1. PICK x : x = [r EXCEPT !.pc = "summary"]
    OBVIOUS
  <2>2. x.pc = "summary" /\ WholeReview(x)
    BY <1>1, <2>1 DEF WholeReview
  <2>3. /\ reviewReq' = [reviewReq EXCEPT ![q] = x] /\ r.pc = "upsert"
        /\ reviewStale' = (reviewStale \/ R!Reviewing # {})
    BY <1>1, <1>4, <2>1 DEF R!UpsertForCenter
  <2>4. ~reviewStale' => R!Reviewing' = {q}
    BY <2>2, <2>3, ReviewMoves
  <2>5. QED BY <2>2, <2>3, <2>4, ReviewMoves DEF RatingInv
<1>5. CASE R!Summarise(q)
  <2>1. PICK x : x = [r EXCEPT !.pc = "store", !.held = R!GetRatingSummary]
    OBVIOUS
  <2>2. x.pc = "store" /\ x.held = R!GetRatingSummary /\ WholeReview(x)
    BY <1>1, <2>1 DEF WholeReview
  <2>3. /\ reviewReq' = [reviewReq EXCEPT ![q] = x] /\ r.pc = "summary" /\ reviews' = reviews
        /\ reviewStale' = (reviewStale /\ R!Reviewing # {q})
    BY <1>1, <1>5, <2>1 DEF R!Summarise
  <2>4. R!GetRatingSummary' = R!GetRatingSummary
    BY <2>3, SummaryKept
  <2>5. q \in R!Reviewing
    BY <1>2, <2>3
  <2>6. ~reviewStale' => R!Reviewing = {q}
    BY <2>3, <2>5 DEF RatingInv
  <2>7. R!Reviewing' = R!Reviewing
    <3>1. R!Reviewing' = R!Reviewing \cup {q}
      BY <2>2, <2>3, ReviewMoves
    <3>2. QED BY <2>5, <3>1
  <2>8. QED BY <2>2, <2>3, <2>4, <2>6, <2>7, ReviewMoves DEF RatingInv
<1>6. CASE R!SyncCenterRating(q)
  <2>1. /\ reviewReq' = [reviewReq EXCEPT ![q] = R!Idle] /\ r.pc = "store"
        /\ stats' = r.held /\ reviews' = reviews /\ reviewStale' = reviewStale
    BY <1>1, <1>6 DEF R!SyncCenterRating
  <2>2. R!Idle.pc = "idle" /\ WholeReview(R!Idle)
    BY DEF R!Idle, WholeReview
  <2>3. R!GetRatingSummary' = R!GetRatingSummary
    BY <2>1, SummaryKept
  <2>4. ~reviewStale => R!Reviewing = {q} /\ r.held = R!GetRatingSummary
    BY <1>1, <1>2, <2>1 DEF RatingInv
  <2>5. ~reviewStale => R!Reviewing' = {}
    BY <2>1, <2>2, <2>4, ReviewMoves
  <2>6. QED BY <2>1, <2>2, <2>3, <2>4, <2>5, ReviewMoves DEF RatingInv
<1>7. CASE R!Abort(q)
  <2>1. /\ reviewReq' = [reviewReq EXCEPT ![q] = R!Idle] /\ UNCHANGED <<reviews, stats>>
        /\ reviewStale' = (reviewStale \/ q \in R!Reviewing)
    BY <1>1, <1>7 DEF R!Abort
  <2>2. R!Idle.pc = "idle" /\ WholeReview(R!Idle)
    BY DEF R!Idle, WholeReview
  <2>3. R!GetRatingSummary' = R!GetRatingSummary
    BY <2>1, SummaryKept
  <2>4. ~reviewStale' => R!Reviewing' = R!Reviewing /\ q \notin R!Reviewing
    <3>1. R!Reviewing' = R!Reviewing \ {q}
      BY <2>1, <2>2, ReviewMoves
    <3>2. ~reviewStale' => q \notin R!Reviewing
      BY <2>1
    <3>3. QED BY <3>1, <3>2
  <2>5. \A p \in R!Reviewing : p # q => reviewReq'[p] = reviewReq[p]
    BY <2>1 DEF RatingInv, R!Reviewing
  <2>6. QED BY <2>1, <2>2, <2>3, <2>4, <2>5, ReviewMoves DEF RatingInv
<1>8. QED BY <1>3, <1>4, <1>5, <1>6, <1>7

LEMMA RatingNext ==
  ASSUME RatingInv, R!Next \/ UNCHANGED reviewsVars
  PROVE  RatingInv'
<1>1. CASE R!Next
  BY <1>1, RatingStep DEF R!Next
<1>2. CASE UNCHANGED reviewsVars
  <2>1. R!GetRatingSummary' = R!GetRatingSummary
    BY <1>2, SummaryKept DEF reviewsVars
  <2>2. QED BY <1>2, <2>1 DEF reviewsVars, RatingInv, R!Reviewing, WholeReview
<1>3. QED BY <1>1, <1>2

(* The rating of a center is that of its reviews once nobody is reviewing, *)
(* unless the last summary failed or overlapped another review.            *)
THEOREM RatingsAreExact == Spec => []R!RatingExact
<1>1. RatingInv => R!RatingExact
  BY DEF RatingInv, R!RatingExact
<1>2. RatingInv /\ [Next]_vars => RatingInv'
  BY OtherPartsStep, RatingNext
<1>3. QED BY RatingInit, <1>1, <1>2, PTL DEF Spec

-----------------------------------------------------------------------------
(* Plans.  An edit over which no other has been written wants what the     *)
(* plan is with what it was sent put in; the provider has been given just  *)
(* that, unless the terms stay as they are or the plan gets free.          *)
Wanted(r) ==
  [name |-> G!Sent(r.name, plan.terms.name), price |-> G!Sent(r.price, plan.terms.price)]

PlanCall(r) ==
  /\ r.pc \in {"register", "edit", "insert"} => r.terms \in G!Terms
  /\ r.pc = "insert" => r.provider = G!Registered(r.terms)
  /\ r.pc \in {"edit", "write"} => plan.at # "absent"
  /\ r.pc = "edit" /\ ~r.passed => r.terms = Wanted(r)
  /\ r.pc = "write" /\ ~r.passed =>
       \/ r.provider = None /\ (Wanted(r) = plan.terms \/ ~(Wanted(r).price > 0))
       \/ r.provider # None /\ r.provider = Wanted(r)

PlanInv ==
  /\ G!TypeOK
  /\ plan.at # "absent" => plan.terms \in G!Terms
  /\ \A q \in Requests : PlanCall(planReq[q])
  /\ G!ChargedAsTold

LEMMA PlanConstants == None \notin G!Terms
  BY WorkspaceConstants DEF G!PlanConstants, G!Terms, G!Prices

LEMMA PlanIdle == G!Idle \in G!Request /\ PlanCall(G!Idle)
  BY DEF G!Idle, G!Request, PlanCall

LEMMA PlanInit == Init => PlanInv
<1> SUFFICES ASSUME Init PROVE PlanInv
  OBVIOUS
<1>1. G!Init
  BY DEF Init
<1>2. plan \in G!Plan /\ plan.at = "absent"
  BY <1>1 DEF G!Init, G!NoPlan, G!Plan
<1>3. QED BY <1>1, <1>2, PlanIdle DEF G!Init, PlanInv, G!TypeOK, G!ChargedAsTold

(* A request goes on, and the plan is as it was. *)
LEMMA PlanMoves ==
  ASSUME PlanInv, NEW q \in Requests, NEW x \in G!Request, PlanCall(x),
         planReq' = [planReq EXCEPT ![q] = x], plan' = plan, mixed' = mixed
  PROVE  PlanInv'
<1>1. \A p \in Requests : planReq'[p] \in G!Request /\ PlanCall(planReq'[p])
  BY DEF PlanInv, G!TypeOK
<1>2. ASSUME NEW p \in Requests PROVE PlanCall(planReq[p])'
  <2>1. PICK y : y = planReq'[p] /\ PlanCall(y)
    BY <1>1
  <2>2. QED BY <2>1 DEF PlanCall, Wanted
<1>3. QED BY <1>1, <1>2 DEF PlanInv, G!TypeOK, G!ChargedAsTold

LEMMA PlanRegisters ==
  ASSUME PlanInv, NEW q \in Requests, G!LookUpSlug(q) \/ G!Register(q)
  PROVE  PlanInv'
<1>1. PICK r \in G!Request : r = planReq[q] /\ PlanCall(r)
  BY DEF PlanInv, G!TypeOK
<1>2. CASE G!LookUpSlug(q)
  <2>1. PICK t \in G!Terms :
          planReq' = [planReq EXCEPT ![q] = [G!Idle EXCEPT !.pc = "register", !.terms = t]]
    BY <1>2 DEF G!LookUpSlug
  <2>2. PICK x : x = [G!Idle EXCEPT !.pc = "register", !.terms = t]
    OBVIOUS
  <2>3. x \in G!Request /\ PlanCall(x)
    BY <2>2 DEF G!Idle, G!Request, PlanCall
  <2>4. QED BY <1>2, <2>1, <2>2, <2>3, PlanMoves DEF G!LookUpSlug
<1>3. CASE G!Register(q)
  <2>1. r.pc \in {"register", "edit"} /\ r.terms \in G!Terms
    BY <1>1, <1>3 DEF G!Register, PlanCall
  <2>2. PICK provider : provider = G!Registered(r.terms)
    OBVIOUS
  <2>3. PICK terms : terms = IF r.pc = "register" THEN r.terms ELSE None
    OBVIOUS
  <2>4. PICK pc : pc = IF r.pc = "register" THEN "insert" ELSE "write"
    OBVIOUS
  <2>5. PICK x : x = [r EXCEPT !.provider = provider, !.terms = terms, !.pc = pc]
    OBVIOUS
  <2>6. planReq' = [planReq EXCEPT ![q] = x] /\ plan' = plan /\ mixed' = mixed
    BY <1>1, <1>3, <2>2, <2>3, <2>4, <2>5 DEF G!Register
  <2>7. provider \in G!Terms \cup {None} /\ terms \in G!Terms \cup {None}
    BY <2>1, <2>2, <2>3 DEF G!Registered
  <2>8. /\ x \in G!Request /\ x.pc = pc /\ x.terms = terms /\ x.provider = provider
        /\ x.name = r.name /\ x.price = r.price /\ x.passed = r.passed
    <3>1. pc \in {"idle", "register", "insert", "edit", "write"}
      BY <2>4
    <3>2. x = [pc |-> pc, name |-> r.name, price |-> r.price, terms |-> terms,
               provider |-> provider, passed |-> r.passed]
      BY <1>1, <2>5 DEF G!Request
    <3>3. QED BY <1>1, <2>7, <3>1, <3>2 DEF G!Request
  <2>9. Wanted(x) = Wanted(r)
    BY <2>8 DEF Wanted
  <2>10. PlanCall(x)
    <3>1. CASE r.pc = "register"
      BY <2>1, <2>2, <2>3, <2>4, <2>8, <3>1 DEF PlanCall
    <3>2. CASE r.pc = "edit"
      <4>1. r.terms # None
        BY <2>1, PlanConstants
      <4>2. provider = IF r.terms.price > 0 THEN r.terms ELSE None
        BY <2>2 DEF G!Registered
      <4>3. pc = "write" /\ plan.at # "absent" /\ (~r.passed => r.terms = Wanted(r))
        BY <1>1, <2>4, <3>2 DEF PlanCall
      <4>4. QED BY <2>8, <2>9, <4>1, <4>2, <4>3 DEF PlanCall
    <3>3. QED BY <2>1, <3>1, <3>2
  <2>11. QED BY <2>6, <2>8, <2>10, PlanMoves
<1>4. QED BY <1>2, <1>3

LEMMA PlanLoads ==
  ASSUME PlanInv, NEW q \in Requests, G!LoadPlan(q)
  PROVE  PlanInv'
<1>1. PICK n \in Things \cup {None}, p \in G!Prices \cup {None} :
        LET t == [name |-> G!Sent(n, plan.terms.name), price |-> G!Sent(p, plan.terms.price)]
        IN  planReq' = [planReq EXCEPT ![q] =
              IF t = plan.terms
              THEN [G!Idle EXCEPT !.pc = "write", !.name = n, !.price = p]
              ELSE [G!Idle EXCEPT !.pc = "edit", !.name = n, !.price = p, !.terms = t]]
  BY DEF G!LoadPlan
<1>2. PICK t : t = [name |-> G!Sent(n, plan.terms.name), price |-> G!Sent(p, plan.terms.price)]
  OBVIOUS
<1>3. plan.at # "absent" /\ plan' = plan /\ mixed' = mixed
  BY DEF G!LoadPlan
<1>4. t \in G!Terms
  BY <1>2, <1>3 DEF PlanInv, G!Terms, G!Sent
<1>5. CASE t = plan.terms
  <2>1. PICK x : x = [G!Idle EXCEPT !.pc = "write", !.name = n, !.price = p]
    OBVIOUS
  <2>2. x = [pc |-> "write", name |-> n, price |-> p, terms |-> None, provider |-> None,
             passed |-> FALSE]
    BY <2>1 DEF G!Idle
  <2>3. x \in G!Request /\ Wanted(x) = t
    BY <1>2, <2>2 DEF G!Request, Wanted
  <2>4. PlanCall(x)
    BY <1>3, <1>5, <2>2, <2>3 DEF PlanCall
  <2>5. planReq' = [planReq EXCEPT ![q] = x]
    BY <1>1, <1>2, <1>5, <2>1
  <2>6. QED BY <1>3, <2>3, <2>4, <2>5, PlanMoves
<1>6. CASE t # plan.terms
  <2>1. PICK x : x = [G!Idle EXCEPT !.pc = "edit", !.name = n, !.price = p, !.terms = t]
    OBVIOUS
  <2>2. x = [pc |-> "edit", name |-> n, price |-> p, terms |-> t, provider |-> None,
             passed |-> FALSE]
    BY <2>1 DEF G!Idle
  <2>3. x \in G!Request /\ Wanted(x) = t
    BY <1>2, <1>4, <2>2 DEF G!Request, Wanted
  <2>4. PlanCall(x)
    BY <1>3, <1>4, <2>2, <2>3 DEF PlanCall
  <2>5. planReq' = [planReq EXCEPT ![q] = x]
    BY <1>1, <1>2, <1>6, <2>1
  <2>6. QED BY <1>3, <2>3, <2>4, <2>5, PlanMoves
<1>7. QED BY <1>5, <1>6

LEMMA PlanInserts ==
  ASSUME PlanInv, NEW q \in Requests, G!InsertPlan(q)
  PROVE  PlanInv'
<1>1. PICK r \in G!Request : r = planReq[q] /\ PlanCall(r)
  BY DEF PlanInv, G!TypeOK
<1>2. planReq' = [planReq EXCEPT ![q] = G!Idle] /\ mixed' = mixed /\ r.pc = "insert"
  BY <1>1 DEF G!InsertPlan, G!Finish
<1>3. CASE plan.at # "absent"
  <2>1. plan' = plan
    BY <1>3 DEF G!InsertPlan
  <2>2. QED BY <1>2, <2>1, PlanIdle, PlanMoves
<1>4. CASE plan.at = "absent"
  <2>1. PICK x : x = [at |-> "there", terms |-> r.terms, provider |-> r.provider]
    OBVIOUS
  <2>2. /\ x \in G!Plan /\ x.terms \in G!Terms /\ x.at = "there"
        /\ x.terms.price > 0 => x.provider = x.terms
    BY <1>1, <1>2, <2>1 DEF G!Plan, G!Request, PlanCall, G!Registered
  <2>3. plan' = x
    BY <1>1, <1>4, <2>1 DEF G!InsertPlan
  <2>4. ASSUME NEW p \in Requests PROVE PlanCall(planReq[p])'
    <3>1. PICK y : y = planReq'[p] /\ PlanCall(y)
      BY <1>2, PlanIdle DEF PlanInv, G!TypeOK
    <3>2. y.pc \notin {"edit", "write"}
      BY <1>4, <3>1 DEF PlanCall
    <3>3. QED BY <3>1, <3>2 DEF PlanCall
  <2>5. G!TypeOK'
    BY <1>2, <2>2, <2>3, PlanIdle DEF PlanInv, G!TypeOK
  <2>6. QED BY <2>2, <2>3, <2>4, <2>5 DEF PlanInv, G!ChargedAsTold
<1>5. QED BY <1>3, <1>4

LEMMA PlanWrites ==
  ASSUME PlanInv, NEW q \in Requests, G!WritePlan(q)
  PROVE  PlanInv'
<1>1. PICK r \in G!Request : r = planReq[q] /\ PlanCall(r)
  BY DEF PlanInv, G!TypeOK
<1>2. r.pc = "write" /\ plan.at # "absent" /\ plan.terms \in G!Terms /\ plan \in G!Plan
  BY <1>1 DEF G!WritePlan, PlanCall, PlanInv, G!TypeOK
<1>3. PICK t : t = Wanted(r)
  OBVIOUS
<1>4. t \in G!Terms
  BY <1>1, <1>2, <1>3 DEF Wanted, G!Sent, G!Request, G!Terms
<1>5. PICK provider : provider = G!Sent(r.provider, plan.provider)
  OBVIOUS
<1>6. provider \in G!Terms \cup {None}
  BY <1>1, <1>2, <1>5 DEF G!Sent, G!Request, G!Plan
<1>7. t = [plan.terms EXCEPT !.name = G!Sent(r.name, @), !.price = G!Sent(r.price, @)]
  <2>1. PICK name, price :
          name = G!Sent(r.name, plan.terms.name) /\ price = G!Sent(r.price, plan.terms.price)
    OBVIOUS
  <2>2. t = [name |-> name, price |-> price]
    BY <1>3, <2>1 DEF Wanted
  <2>3. [plan.terms EXCEPT !.name = name, !.price = price] = [name |-> name, price |-> price]
    <3>1. PICK w : w = plan.terms
      OBVIOUS
    <3>2. w = [name |-> w.name, price |-> w.price]
      BY <1>2, <3>1 DEF G!Terms
    <3>3. PICK y : y = [w EXCEPT !.name = name]
      OBVIOUS
    <3>4. y = [name |-> name, price |-> w.price]
      BY <3>2, <3>3
    <3>5. [y EXCEPT !.price = price] = [name |-> name, price |-> price]
      BY <3>4
    <3>6. QED BY <3>1, <3>3, <3>5
  <2>4. QED BY <2>1, <2>2, <2>3
<1>8. plan' = [plan EXCEPT !.terms = t, !.provider = provider]
  BY <1>1, <1>2, <1>5, <1>7 DEF G!WritePlan, G!Plan
<1>9. /\ plan' \in G!Plan /\ plan'.terms = t /\ plan'.provider = provider
      /\ plan'.at = plan.at
  BY <1>2, <1>4, <1>6, <1>8 DEF G!Plan
<1>10. ASSUME NEW p \in Requests
       PROVE  planReq'[p] \in G!Request /\ PlanCall(planReq[p])'
  <2>1. PICK y \in G!Request : y = planReq[p] /\ PlanCall(y)
    BY DEF PlanInv, G!TypeOK
  <2>2. CASE p = q
    <3>1. planReq'[p] = G!Idle
      BY <2>2 DEF G!WritePlan
    <3>2. QED BY <3>1, PlanIdle DEF PlanCall, G!Idle
  <2>3. CASE p # q /\ y.pc \in {"edit", "write"}
    <3>1. PICK z : z = [y EXCEPT !.passed = TRUE]
      OBVIOUS
    <3>2. z \in G!Request /\ z.passed /\ z.pc = y.pc /\ z.terms = y.terms
      BY <2>1, <3>1 DEF G!Request
    <3>3. planReq'[p] = z
      BY <2>1, <2>3, <3>1 DEF G!WritePlan
    <3>4. QED BY <1>2, <1>9, <2>1, <2>3, <3>2, <3>3 DEF PlanCall
  <2>4. CASE p # q /\ y.pc \notin {"edit", "write"}
    <3>1. planReq'[p] = y
      BY <2>1, <2>4 DEF G!WritePlan
    <3>2. QED BY <2>1, <2>4, <3>1 DEF PlanCall
  <2>5. QED BY <2>2, <2>3, <2>4
<1>11. planReq' = [p \in Requests |-> planReq'[p]]
  BY DEF G!WritePlan
<1>12. mixed' = (IF r.passed THEN TRUE ELSE mixed /\ r.provider = None)
  BY <1>1 DEF G!WritePlan
<1>13. G!TypeOK'
  BY <1>9, <1>10, <1>11, <1>12 DEF PlanInv, G!TypeOK
<1>14. t.price > 0 /\ ~mixed' => provider = t
  <2>1. SUFFICES ASSUME t.price > 0, ~r.passed, ~(mixed /\ r.provider = None) PROVE provider = t
    BY <1>12
  <2>2. CASE r.provider = None
    BY <1>1, <1>2, <1>3, <1>5, <2>1, <2>2 DEF PlanCall, PlanInv, G!ChargedAsTold, G!Sent
  <2>3. CASE r.provider # None
    BY <1>1, <1>2, <1>3, <1>5, <2>1, <2>3 DEF PlanCall, G!Sent
  <2>4. QED BY <2>2, <2>3
<1>15. QED BY <1>4, <1>9, <1>10, <1>13, <1>14 DEF PlanInv, G!ChargedAsTold

LEMMA PlanNext ==
  ASSUME PlanInv, G!Next \/ UNCHANGED plansVars
  PROVE  PlanInv'
<1>1. CASE G!DeletePlan
  <2>1. PICK x : x = [plan EXCEPT !.at = "deleted"]
    OBVIOUS
  <2>2. /\ x \in G!Plan /\ x.at # "absent" /\ plan.at # "absent" /\ x.terms = plan.terms
        /\ x.provider = plan.provider
    BY <1>1, <2>1 DEF G!DeletePlan, PlanInv, G!TypeOK, G!Plan
  <2>3. plan' = x /\ planReq' = planReq /\ mixed' = mixed
    BY <1>1, <2>1 DEF G!DeletePlan
  <2>4. ASSUME NEW p \in Requests PROVE PlanCall(planReq[p])'
    BY <2>2, <2>3 DEF PlanInv, PlanCall, Wanted
  <2>5. QED BY <2>2, <2>3, <2>4 DEF PlanInv, G!TypeOK, G!ChargedAsTold
<1>2. ASSUME NEW q \in Requests, G!Abort(q) PROVE PlanInv'
  BY <1>2, PlanIdle, PlanMoves DEF G!Abort, G!Finish
<1>3. CASE UNCHANGED plansVars
  BY <1>3 DEF plansVars, PlanInv, PlanCall, Wanted, G!TypeOK, G!ChargedAsTold
<1>4. QED
  BY <1>1, <1>2, <1>3, PlanRegisters, PlanLoads, PlanInserts, PlanWrites DEF G!Next

(* Subscribers are charged what the plan says, unless an edit was written  *)
(* over one it had not seen.                                               *)
THEOREM ChargesAreAsTold == Spec => []G!ChargedAsTold
<1>1. PlanInv => G!ChargedAsTold
  BY DEF PlanInv
<1>2. PlanInv /\ [Next]_vars => PlanInv'
  BY OtherPartsStep, PlanNext
<1>3. QED BY PlanInit, <1>1, <1>2, PTL DEF Spec

-----------------------------------------------------------------------------
(* The cached answer.  One that shows plans from before a change is gone   *)
(* when the time of a request and the ttl have passed since: the answer of *)
(* a request is no older than the request, and that in the cache no older  *)
(* than a request and the part of its ttl that is over.                    *)
StaleInv ==
  /\ H!TypeOK
  /\ entry.left > 0 /\ entry.shows # version => changed + entry.left <= H!Horizon
  /\ \A q \in Requests :
       cacheReq[q].pc = "send" /\ cacheReq[q].shows # version => changed <= cacheReq[q].age

LEMMA CacheConstants == Ttl \in Nat \ {0} /\ MaxWait \in Nat /\ MaxVersions \in Nat
  BY WorkspaceConstants DEF H!CacheConstants

LEMMA CacheIdle == H!Idle \in H!Request /\ H!Idle.pc = "idle"
  BY CacheConstants DEF H!Idle, H!Request, H!Versions

LEMMA NoAnswer == H!NoEntry \in H!Entry /\ H!NoEntry.left = 0
  BY CacheConstants DEF H!NoEntry, H!Entry, H!Versions

LEMMA StaleInit == Init => StaleInv
<1> SUFFICES ASSUME Init PROVE StaleInv
  OBVIOUS
<1>1. H!Init
  BY DEF Init
<1>2. QED BY <1>1, CacheConstants, CacheIdle, NoAnswer
     DEF H!Init, StaleInv, H!TypeOK, H!Versions, H!Horizon

(* A request goes on, and what it has read, if anything, is current.       *)
LEMMA StaleMoves ==
  ASSUME StaleInv, NEW q \in Requests, NEW x \in H!Request,
         cacheReq' = [cacheReq EXCEPT ![q] = x], x.pc = "send" => x.shows = version,
         UNCHANGED <<version, changed>>, entry' = entry \/ entry' = H!NoEntry
  PROVE  StaleInv'
<1>1. entry' = entry \/ entry'.left = 0
  BY NoAnswer
<1>2. H!TypeOK'
  BY NoAnswer DEF StaleInv, H!TypeOK
<1>3. QED BY <1>1, <1>2 DEF StaleInv, H!TypeOK, H!Horizon

LEMMA StaleRequests ==
  ASSUME StaleInv, NEW q \in Requests,
         \/ H!LookUp(q) \/ H!FindPublic(q) \/ H!ListKeys(q) \/ H!DeleteKeys(q) \/ H!Abort(q)
  PROVE  StaleInv'
<1>1. PICK r \in H!Request : r = cacheReq[q]
  BY DEF StaleInv, H!TypeOK
<1>2. version \in H!Versions
  BY DEF StaleInv, H!TypeOK
<1>3. CASE H!LookUp(q) \/ H!ListKeys(q)
  <2>1. PICK pc \in {"find", "clear"} : cacheReq' = [cacheReq EXCEPT ![q].pc = pc]
    BY <1>3 DEF H!LookUp, H!ListKeys
  <2>2. PICK x : x = [r EXCEPT !.pc = pc]
    OBVIOUS
  <2>3. x \in H!Request /\ x.pc # "send" /\ cacheReq' = [cacheReq EXCEPT ![q] = x]
    BY <1>1, <2>1, <2>2 DEF H!Request
  <2>4. UNCHANGED <<version, changed, entry>>
    BY <1>3 DEF H!LookUp, H!ListKeys
  <2>5. QED BY <2>3, <2>4, StaleMoves
<1>4. CASE H!FindPublic(q)
  <2>1. PICK x : x = [r EXCEPT !.pc = "send", !.shows = version]
    OBVIOUS
  <2>2. x \in H!Request /\ x.shows = version
    BY <1>1, <1>2, <2>1 DEF H!Request
  <2>3. cacheReq' = [cacheReq EXCEPT ![q] = x] /\ UNCHANGED <<version, changed, entry>>
    BY <1>1, <1>4, <2>1 DEF H!FindPublic
  <2>4. QED BY <2>2, <2>3, StaleMoves
<1>5. CASE H!DeleteKeys(q) \/ H!Abort(q)
  <2>1. /\ cacheReq' = [cacheReq EXCEPT ![q] = H!Idle] /\ UNCHANGED <<version, changed>>
        /\ entry' = entry \/ entry' = H!NoEntry
    BY <1>5 DEF H!DeleteKeys, H!Abort
  <2>2. QED BY <2>1, CacheIdle, StaleMoves
<1>6. QED BY <1>3, <1>4, <1>5

LEMMA StaleStores ==
  ASSUME StaleInv, NEW q \in Requests, H!SendJson(q)
  PROVE  StaleInv'
<1>1. PICK r \in H!Request : r = cacheReq[q]
  BY DEF StaleInv, H!TypeOK
<1>2. PICK e : e = [shows |-> r.shows, left |-> Ttl]
  OBVIOUS
<1>3. /\ e \in H!Entry /\ e.shows = r.shows /\ e.left = Ttl
      /\ r.age \in Nat /\ r.age <= MaxWait /\ changed \in Nat
  BY <1>1, <1>2, CacheConstants DEF H!Entry, H!Request, StaleInv, H!TypeOK, H!Horizon
<1>4. /\ entry' = e /\ cacheReq' = [cacheReq EXCEPT ![q] = H!Idle] /\ r.pc = "send"
      /\ UNCHANGED <<version, changed>>
  BY <1>1, <1>2 DEF H!SendJson
<1>5. r.shows # version => changed <= r.age
  BY <1>1, <1>4 DEF StaleInv
<1>6. e.shows # version => changed + e.left <= H!Horizon
  BY <1>3, <1>5, CacheConstants DEF H!Horizon
<1>7. H!TypeOK'
  BY <1>3, <1>4, CacheIdle DEF StaleInv, H!TypeOK
<1>8. QED BY <1>4, <1>6, <1>7, CacheIdle DEF StaleInv, H!TypeOK, H!Horizon

LEMMA StaleChange ==
  ASSUME StaleInv, H!ChangePlans
  PROVE  StaleInv'
<1>1. /\ version' = version + 1 /\ changed' = 0 /\ UNCHANGED <<entry, cacheReq>>
      /\ version < MaxVersions
  BY DEF H!ChangePlans
<1>2. /\ entry.left \in Nat /\ entry.left <= Ttl
      /\ \A q \in Requests : cacheReq[q].age \in Nat
  BY CacheConstants DEF StaleInv, H!TypeOK, H!Entry, H!Request
<1>3. H!TypeOK'
  BY <1>1, CacheConstants DEF StaleInv, H!TypeOK, H!Versions, H!Horizon
<1>4. QED BY <1>1, <1>2, <1>3, CacheConstants DEF StaleInv, H!Horizon

LEMMA StaleTick ==
  ASSUME StaleInv, H!Tick
  PROVE  StaleInv'
<1>1. changed \in Nat /\ changed <= H!Horizon /\ H!Horizon \in Nat /\ version' = version
  BY CacheConstants DEF StaleInv, H!TypeOK, H!Horizon, H!Tick
<1>2. changed' \in 0..H!Horizon /\ changed' <= changed + 1
  BY <1>1 DEF H!Tick
<1>3. PICK e \in H!Entry : e = entry
  BY DEF StaleInv, H!TypeOK
<1>4. /\ entry' \in H!Entry
      /\ entry'.left > 0 => entry'.shows = e.shows /\ entry'.left = e.left - 1
  <2>1. e.left \in Nat /\ e.left <= Ttl
    BY <1>3, CacheConstants DEF H!Entry
  <2>2. CASE e.left > 1
    <3>1. PICK x : x = [e EXCEPT !.left = @ - 1]
      OBVIOUS
    <3>2. x \in H!Entry /\ x.left = e.left - 1 /\ x.shows = e.shows
      <4>1. e.left - 1 \in 0..Ttl
        BY <2>1, <2>2, CacheConstants
      <4>2. x = [shows |-> e.shows, left |-> e.left - 1]
        BY <3>1 DEF H!Entry
      <4>3. QED BY <4>1, <4>2 DEF H!Entry
    <3>3. entry' = x
      BY <1>3, <2>2, <3>1 DEF H!Tick
    <3>4. QED BY <3>2, <3>3
  <2>3. CASE ~(e.left > 1)
    BY <1>3, <2>3, NoAnswer DEF H!Tick
  <2>4. QED BY <2>2, <2>3
<1>5. ASSUME NEW q \in Requests
      PROVE  /\ cacheReq'[q] \in H!Request
             /\ cacheReq'[q].pc = "send" =>
                  /\ cacheReq[q].pc = "send" /\ cacheReq'[q].shows = cacheReq[q].shows
                  /\ cacheReq'[q].age = cacheReq[q].age + 1
  <2>1. PICK r \in H!Request : r = cacheReq[q]
    BY DEF StaleInv, H!TypeOK
  <2>2. r.age \in Nat
    BY <2>1, CacheConstants DEF H!Request
  <2>3. CASE r.pc = "idle"
    BY <2>1, <2>3, CacheIdle DEF H!Tick
  <2>4. CASE r.pc # "idle"
    <3>1. PICK x : x = [r EXCEPT !.age = @ + 1]
      OBVIOUS
    <3>2. r.age < MaxWait
      BY <2>1, <2>4 DEF H!Tick
    <3>3. x \in H!Request /\ x.pc = r.pc /\ x.shows = r.shows /\ x.age = r.age + 1
      BY <2>1, <2>2, <3>1, <3>2, CacheConstants DEF H!Request
    <3>4. cacheReq'[q] = x
      BY <2>1, <2>4, <3>1 DEF H!Tick
    <3>5. QED BY <2>1, <3>3, <3>4
  <2>5. QED BY <2>3, <2>4
<1>6. cacheReq' \in [Requests -> H!Request]
  <2>1. cacheReq' = [q \in Requests |-> cacheReq'[q]]
    BY DEF H!Tick
  <2>2. QED BY <1>5, <2>1
<1>7. H!TypeOK'
  BY <1>1, <1>2, <1>4, <1>6 DEF StaleInv, H!TypeOK
<1>8. entry'.left > 0 /\ entry'.shows # version' => changed' + entry'.left <= H!Horizon
  <2>1. e.left \in Nat /\ changed' \in Nat
    BY <1>1, <1>2, <1>3, CacheConstants DEF H!Entry
  <2>2. e.left > 0 /\ e.shows # version => changed + e.left <= H!Horizon
    BY <1>3 DEF StaleInv
  <2>3. QED BY <1>1, <1>2, <1>4, <2>1, <2>2
<1>9. ASSUME NEW q \in Requests, cacheReq'[q].pc = "send", cacheReq'[q].shows # version'
      PROVE  changed' <= cacheReq'[q].age
  <2>1. cacheReq[q].age \in Nat /\ changed' \in Nat
    BY <1>1, <1>2, CacheConstants DEF StaleInv, H!TypeOK, H!Request
  <2>2. changed <= cacheReq[q].age
    BY <1>1, <1>5, <1>9 DEF StaleInv
  <2>3. QED BY <1>1, <1>2, <1>5, <1>9, <2>1, <2>2
<1>10. QED BY <1>7, <1>8, <1>9 DEF StaleInv, H!Horizon

LEMMA StaleNext ==
  ASSUME StaleInv, H!Next \/ UNCHANGED cacheVars
  PROVE  StaleInv'
<1>1. CASE H!Next
  BY <1>1, StaleRequests, StaleStores, StaleChange, StaleTick DEF H!Next
<1>2. CASE UNCHANGED cacheVars
  BY <1>2 DEF cacheVars, StaleInv, H!TypeOK, H!Horizon
<1>3. QED BY <1>1, <1>2

(* A change of the plans is seen by everybody once the ttl and the time of *)
(* one request have passed, for every ttl and every such time.             *)
THEOREM StalenessIsBounded == Spec => []H!StalenessBounded
<1>1. StaleInv => H!StalenessBounded
  <2> SUFFICES ASSUME StaleInv, H!Cached, changed = H!Horizon PROVE entry.shows = version
    BY DEF H!StalenessBounded
  <2>1. entry.left \in Nat /\ H!Horizon \in Nat /\ entry.left > 0
    BY CacheConstants DEF StaleInv, H!TypeOK, H!Entry, H!Horizon, H!Cached
  <2>2. QED BY <2>1 DEF StaleInv
<1>2. StaleInv /\ [Next]_vars => StaleInv'
  BY OtherPartsStep, StaleNext
<1>3. QED BY StaleInit, <1>1, <1>2, PTL DEF Spec

-----------------------------------------------------------------------------
(* Totals of the owners.  While the last recount of an owner has neither   *)
(* failed nor overlapped another request, one request at most works on the *)
(* owner.  What it holds is the number of vehicles the owner has, and so   *)
(* is the total until it has saved something.                              *)
CountOf(o) == V!Cardinality(V!OwnedBy(o))

Owes(r, o) == o = r.to \/ o = r.from \/ o \in r.due \/ r.held[o] # None

Ahead == {"owner", "save", "list"}

Accounted(o) ==
  o \notin vehicleStale =>
    /\ \A p, q \in Requests : Owes(vehicleReq[p], o) /\ Owes(vehicleReq[q], o) => p = q
    /\ \/ total[o] = CountOf(o)
       \/ o \in typed
       \/ \E q \in Requests : Owes(vehicleReq[q], o) /\ vehicleReq[q].pc \notin Ahead
    /\ \A q \in Requests : vehicleReq[q].held[o] # None => vehicleReq[q].held[o] = CountOf(o)

(* Only a request that recounts has something to count or to store.        *)
Recounts(r) ==
  /\ r.pc \in {"idle", "owner", "save", "garage", "list", "recount"}
  /\ r.held = [o \in Things |-> r.held[o]]
  /\ r.pc # "recount" => r.due = {} /\ \A o \in Things : r.held[o] = None
  /\ r.pc = "idle" => r.to = None /\ r.from = None

TotalInv ==
  /\ OwnerInv
  /\ total = [o \in Things |-> total[o]]
  /\ \A q \in Requests : Recounts(vehicleReq[q])
  /\ \A o \in Things : Accounted(o)

LEMMA VehicleNone ==
  /\ None \notin Things
  /\ \A o \in Things : CountOf(o) # None
<1>1. None \notin Things /\ V!IsFiniteSet(Vehicles) /\ None \notin 0..V!Cardinality(Vehicles)
  BY WorkspaceConstants DEF V!VehicleConstants
<1>2. IsFiniteSet(Vehicles)
  BY <1>1 DEF V!IsFiniteSet, IsFiniteSet
<1>3. ASSUME NEW o \in Things PROVE CountOf(o) # None
  <2>1. PICK own : own = V!OwnedBy(o)
    OBVIOUS
  <2>2. own \subseteq Vehicles
    BY <2>1 DEF V!OwnedBy
  <2>3. IsFiniteSet(own) /\ Cardinality(own) <= Cardinality(Vehicles)
    BY <1>2, <2>2, FS_Subset
  <2>4. Cardinality(own) \in Nat /\ Cardinality(Vehicles) \in Nat
    BY <1>2, <2>3, FS_CardinalityType
  <2>5. V!Cardinality(own) = Cardinality(own) /\ V!Cardinality(Vehicles) = Cardinality(Vehicles)
    BY DEF V!Cardinality, Cardinality
  <2>6. QED BY <1>1, <2>1, <2>3, <2>4, <2>5 DEF CountOf
<1>4. QED BY <1>1, <1>3

LEMMA WorkedOn ==
  ASSUME NEW o \in Things
  PROVE  /\ \A q \in Requests : o \in V!Owing(q) <=> Owes(vehicleReq[q], o)
         /\ \A q \in Requests : q \in V!WorkOn(o) <=> Owes(vehicleReq[q], o)
  BY VehicleNone DEF V!Owing, V!WorkOn, Owes

(* Which requests owe an owner nothing.                                    *)
LEMMA IdleRecounts ==
  Recounts(V!Idle) /\ V!Idle.pc = "idle" /\ \A o \in Things : ~Owes(V!Idle, o)
<1>1. PICK n : n = V!Idle
  OBVIOUS
<1>2. /\ n.pc = "idle" /\ n.to = None /\ n.from = None /\ n.due = {}
      /\ n.held = [o \in Things |-> None]
  BY <1>1 DEF V!Idle
<1>3. QED BY <1>1, <1>2, VehicleNone DEF Recounts, Owes

LEMMA RecountingOwes ==
  ASSUME NEW due
  PROVE  LET n == V!Recounting(due)
         IN  /\ Recounts(n) /\ n.pc = "recount" /\ n.due = due
             /\ \A o \in Things : n.held[o] = None /\ (Owes(n, o) <=> o \in due)
<1>1. PICK n : n = [V!Idle EXCEPT !.pc = "recount", !.due = due]
  OBVIOUS
<1>2. /\ n.pc = "recount" /\ n.to = None /\ n.from = None /\ n.due = due
      /\ n.held = [o \in Things |-> None]
  BY <1>1 DEF V!Idle
<1>3. Recounts(n) /\ \A o \in Things : n.held[o] = None /\ (Owes(n, o) <=> o \in due)
  BY <1>2, VehicleNone DEF Recounts, Owes
<1>4. QED BY <1>1, <1>2, <1>3 DEF V!Recounting

(* The requests but q owe what they owed.                                  *)
Others(q) ==
  \A p \in Requests \ {q} :
    /\ vehicleReq'[p].pc = vehicleReq[p].pc
    /\ vehicleReq'[p].to = vehicleReq[p].to /\ vehicleReq'[p].from = vehicleReq[p].from
    /\ vehicleReq'[p].due = vehicleReq[p].due /\ vehicleReq'[p].held = vehicleReq[p].held

(* A step of request q keeps the account of an owner when the request has  *)
(* not given up a recount, comes to an owner that nobody works on, and     *)
(* recounts the vehicles it has moved.                                     *)
LEMMA AccountKept ==
  ASSUME NEW o \in Things, Accounted(o), NEW q \in Requests, Others(q),
         total'[o] = total[o] \/ o \in typed', o \in typed => o \in typed',
         o \in vehicleStale => o \in vehicleStale',
         Owes(vehicleReq'[q], o) =>
           \/ Owes(vehicleReq[q], o) \/ o \in vehicleStale'
           \/ \A p \in Requests : ~Owes(vehicleReq[p], o),
         Owes(vehicleReq[q], o) /\ vehicleReq[q].pc \notin Ahead =>
           \/ Owes(vehicleReq'[q], o) /\ vehicleReq'[q].pc \notin Ahead
           \/ o \in vehicleStale',
         vehicleReq'[q].held[o] \in {None, vehicleReq[q].held[o]},
         \/ V!OwnedBy(o)' = V!OwnedBy(o)
         \/ /\ Owes(vehicleReq'[q], o) /\ vehicleReq'[q].pc \notin Ahead
            /\ vehicleReq'[q].held[o] = None
  PROVE  Accounted(o)'
<1> SUFFICES ASSUME o \notin vehicleStale' PROVE Accounted(o)'
  BY DEF Accounted
<1>1. \A p \in Requests \ {q} :
        /\ Owes(vehicleReq'[p], o) <=> Owes(vehicleReq[p], o)
        /\ vehicleReq'[p].pc = vehicleReq[p].pc
        /\ vehicleReq'[p].held[o] = vehicleReq[p].held[o]
  BY DEF Others, Owes
<1>2. \A p \in Requests : vehicleReq'[p].held[o] # None => Owes(vehicleReq'[p], o)
  BY DEF Owes
<1>3. \A p, r \in Requests : Owes(vehicleReq'[p], o) /\ Owes(vehicleReq'[r], o) => p = r
  BY <1>1 DEF Accounted
<1>4. CASE V!OwnedBy(o)' = V!OwnedBy(o)
  <2>1. CountOf(o)' = CountOf(o)
    BY <1>4 DEF CountOf
  <2>2. \A p \in Requests : vehicleReq'[p].held[o] # None => vehicleReq'[p].held[o] = CountOf(o)'
    BY <1>1, <2>1 DEF Accounted
  <2>3. \/ total'[o] = CountOf(o)'
        \/ o \in typed'
        \/ \E p \in Requests : Owes(vehicleReq'[p], o) /\ vehicleReq'[p].pc \notin Ahead
    BY <1>1, <2>1 DEF Accounted
  <2>4. QED BY <1>3, <2>2, <2>3 DEF Accounted, CountOf, Owes
<1>5. CASE /\ Owes(vehicleReq'[q], o) /\ vehicleReq'[q].pc \notin Ahead
           /\ vehicleReq'[q].held[o] = None
  <2>1. \A p \in Requests : vehicleReq'[p].held[o] = None
    BY <1>2, <1>3, <1>5
  <2>2. QED BY <1>3, <1>5, <2>1 DEF Accounted, CountOf, Owes
<1>6. QED BY <1>4, <1>5

LEMMA Replaces ==
  ASSUME TotalInv, NEW q \in Requests, NEW v, Recounts(v),
         vehicleReq' = [vehicleReq EXCEPT ![q] = v]
  PROVE  /\ Others(q) /\ vehicleReq'[q] = v
         /\ \A p \in Requests : Recounts(vehicleReq'[p])
  BY DEF TotalInv, OwnerInv, Others

LEMMA OutdatedOthers ==
  ASSUME TotalInv, NEW U, NEW q \in Requests, NEW v, Recounts(v),
         vehicleReq' = [V!Outdated(U, q) EXCEPT ![q] = v]
  PROVE  /\ Others(q) /\ vehicleReq'[q] = v
         /\ \A p \in Requests : Recounts(vehicleReq'[p])
<1>1. \A p \in Requests : Whole(vehicleReq[p]) /\ Recounts(vehicleReq[p])
  BY DEF TotalInv, OwnerInv
<1>2. ASSUME NEW p \in Requests
      PROVE  LET n == [vehicleReq[p] EXCEPT !.fresh = FALSE]
             IN  /\ n.pc = vehicleReq[p].pc /\ n.to = vehicleReq[p].to
                 /\ n.from = vehicleReq[p].from
                 /\ n.due = vehicleReq[p].due /\ n.held = vehicleReq[p].held
  <2>1. PICK x : x = vehicleReq[p]
    OBVIOUS
  <2>2. PICK n : n = [x EXCEPT !.fresh = FALSE]
    OBVIOUS
  <2>3. /\ n.pc = x.pc /\ n.to = x.to /\ n.from = x.from /\ n.due = x.due /\ n.held = x.held
    BY <1>1, <2>1, <2>2 DEF Whole
  <2>4. QED BY <2>1, <2>2, <2>3
<1>3. vehicleReq'[q] = v
  BY DEF V!Outdated
<1>4. \A p \in Requests \ {q} :
        vehicleReq'[p] \in {vehicleReq[p], [vehicleReq[p] EXCEPT !.fresh = FALSE]}
  BY DEF V!Outdated
<1>5. Others(q)
  BY <1>2, <1>4 DEF Others
<1>6. QED BY <1>1, <1>3, <1>5 DEF Others, Recounts

(* A request is admitted: who is worked on by another is stale.            *)
LEMMA TotalAdmits ==
  ASSUME TotalInv, OwnerInv', NEW q \in Requests, NEW own, NEW n, V!Admit(q, own),
         vehicleReq' = [vehicleReq EXCEPT ![q] = n], Recounts(n), total' = total, typed' = typed,
         \A o \in Things : (Owes(n, o) => o \in own) /\ n.held[o] = None,
         \A o \in Things : \/ V!OwnedBy(o)' = V!OwnedBy(o)
                           \/ Owes(n, o) /\ n.pc = "recount"
  PROVE  TotalInv'
<1>1. /\ vehicleReq[q].pc = "idle" /\ Recounts(vehicleReq[q])
      /\ vehicleStale' = vehicleStale \cup {o \in own : V!WorkOn(o) # {}}
  BY DEF V!Admit, TotalInv
<1>2. \A o \in Things : ~Owes(vehicleReq[q], o)
  BY <1>1, VehicleNone DEF Recounts, Owes
<1>3. ASSUME NEW o \in Things PROVE Accounted(o)'
  <2>1. Owes(n, o) => o \in vehicleStale' \/ \A p \in Requests : ~Owes(vehicleReq[p], o)
    BY <1>1, WorkedOn
  <2>2. Others(q) /\ vehicleReq'[q] = n /\ Accounted(o)
    BY Replaces DEF TotalInv
  <2>3. QED BY <1>1, <1>2, <2>1, <2>2, AccountKept DEF Ahead
<1>4. \A p \in Requests : Recounts(vehicleReq'[p])
  BY Replaces
<1>5. QED BY <1>3, <1>4 DEF TotalInv

LEMMA TotalCreates ==
  ASSUME TotalInv, OwnerInv', NEW q \in Requests, NEW v \in Vehicles,
         V!Delete(q, v) \/ \E o \in Things : V!Create(q, v, o)
  PROVE  TotalInv'
<1>1. vehicle \in [Vehicles -> V!Vehicle]
  BY DEF TotalInv, OwnerInv
<1>2. ASSUME NEW o \in Things, V!Create(q, v, o) PROVE TotalInv'
  <2>1. PICK n : n = V!Recounting({o})
    OBVIOUS
  <2>2. /\ Recounts(n) /\ n.pc = "recount"
        /\ \A p \in Things : n.held[p] = None /\ (Owes(n, p) <=> p \in {o})
    BY <2>1, RecountingOwes
  <2>3. \A p \in Things \ {o} : V!OwnedBy(p)' = V!OwnedBy(p)
    <3>1. PICK x : x = [at |-> "live", owner |-> o, history |-> <<[owner |-> o, open |-> TRUE]>>]
      OBVIOUS
    <3>2. vehicle' = [vehicle EXCEPT ![v] = x] /\ x.owner = o /\ vehicle[v].at = "absent"
      BY <1>2, <3>1 DEF V!Create, V!Exists
    <3>3. QED BY <1>1, <3>2 DEF V!OwnedBy
  <2>4. /\ V!Admit(q, {o}) /\ vehicleReq' = [vehicleReq EXCEPT ![q] = n]
        /\ total' = total /\ typed' = typed
    BY <1>2, <2>1 DEF V!Create
  <2>5. QED BY <2>2, <2>3, <2>4, TotalAdmits
<1>3. CASE V!Delete(q, v)
  <2>1. PICK o : o = vehicle[v].owner
    OBVIOUS
  <2>2. PICK n : n = V!Recounting({o})
    OBVIOUS
  <2>3. /\ Recounts(n) /\ n.pc = "recount"
        /\ \A p \in Things : n.held[p] = None /\ (Owes(n, p) <=> p \in {o})
    BY <2>2, RecountingOwes
  <2>4. \A p \in Things \ {o} : V!OwnedBy(p)' = V!OwnedBy(p)
    <3>1. PICK x : x = [vehicle[v] EXCEPT !.at = "deleted"]
      OBVIOUS
    <3>2. vehicle' = [vehicle EXCEPT ![v] = x] /\ x.at = "deleted"
      BY <1>1, <1>3, <3>1 DEF V!Delete, V!Vehicle
    <3>3. QED BY <1>1, <2>1, <3>2 DEF V!OwnedBy
  <2>5. /\ V!Admit(q, {o}) /\ vehicleReq' = [vehicleReq EXCEPT ![q] = n]
        /\ total' = total /\ typed' = typed
    BY <1>3, <2>1, <2>2 DEF V!Delete
  <2>6. QED BY <2>3, <2>4, <2>5, TotalAdmits
<1>4. QED BY <1>2, <1>3

LEMMA TotalLoads ==
  ASSUME TotalInv, OwnerInv', NEW q \in Requests, NEW v \in Vehicles, NEW o \in Things,
         V!LoadVehicle(q, v, o) \/ V!LoadProfile(q, v, o)
  PROVE  TotalInv'
<1>1. \A p \in Things : V!OwnedBy(p)' = V!OwnedBy(p)
  BY DEF V!LoadVehicle, V!LoadProfile, V!OwnedBy
<1>2. total' = total /\ typed' = typed
  BY DEF V!LoadVehicle, V!LoadProfile
<1>3. CASE V!LoadVehicle(q, v, o)
  <2>1. PICK from : from = vehicle[v].owner
    OBVIOUS
  <2>2. PICK closes : vehicleReq' = [vehicleReq EXCEPT ![q] =
           [V!Idle EXCEPT !.pc = "owner", !.on = v, !.to = o, !.from = vehicle[v].owner,
                          !.closes = closes]]
    BY <1>3 DEF V!LoadVehicle
  <2>3. PICK n : n = [V!Idle EXCEPT !.pc = "owner", !.on = v, !.to = o, !.from = from,
                                    !.closes = closes]
    OBVIOUS
  <2>4. n.pc = "owner" /\ n.to = o /\ n.from = from
        /\ n.due = {} /\ n.held = [p \in Things |-> None]
    BY <2>3 DEF V!Idle
  <2>5. Recounts(n) /\ \A p \in Things : n.held[p] = None /\ (Owes(n, p) => p \in {o, from})
    BY <2>4 DEF Recounts, Owes
  <2>6. V!Admit(q, {o, from})
    BY <1>3, <2>1 DEF V!LoadVehicle
  <2>7. QED BY <1>1, <1>2, <2>1, <2>2, <2>3, <2>5, <2>6, TotalAdmits
<1>4. CASE V!LoadProfile(q, v, o)
  <2>1. PICK length, primary : vehicleReq' = [vehicleReq EXCEPT ![q] =
           [V!Idle EXCEPT !.pc = "list", !.on = v, !.to = o, !.length = length,
                          !.primary = primary]]
    BY <1>4 DEF V!LoadProfile
  <2>2. PICK n : n = [V!Idle EXCEPT !.pc = "list", !.on = v, !.to = o, !.length = length,
                                    !.primary = primary]
    OBVIOUS
  <2>3. n.pc = "list" /\ n.to = o /\ n.from = None /\ n.due = {} /\ n.held = [p \in Things |-> None]
    BY <2>2 DEF V!Idle
  <2>4. Recounts(n) /\ \A p \in Things : n.held[p] = None /\ (Owes(n, p) => p \in {o})
    BY <2>3, VehicleNone DEF Recounts, Owes
  <2>5. V!Admit(q, {o})
    BY <1>4 DEF V!LoadProfile
  <2>6. QED BY <1>1, <1>2, <2>1, <2>2, <2>4, <2>5, TotalAdmits
<1>5. QED BY <1>3, <1>4

(* A request goes on, and is still to recount whom it works on.            *)
LEMMA TotalMoves ==
  ASSUME TotalInv, OwnerInv', NEW q \in Requests, Others(q),
         \A p \in Requests : Recounts(vehicleReq'[p]),
         total' = total, typed' = typed, vehicleStale' = vehicleStale,
         \A o \in Things :
           /\ vehicleReq'[q].held[o] = None
           /\ Owes(vehicleReq'[q], o) => Owes(vehicleReq[q], o)
           /\ Owes(vehicleReq[q], o) /\ vehicleReq[q].pc \notin Ahead =>
                Owes(vehicleReq'[q], o) /\ vehicleReq'[q].pc \notin Ahead
           /\ \/ V!OwnedBy(o)' = V!OwnedBy(o)
              \/ Owes(vehicleReq'[q], o) /\ vehicleReq'[q].pc \notin Ahead
  PROVE  TotalInv'
<1>1. ASSUME NEW o \in Things PROVE Accounted(o)'
  <2>1. Accounted(o)
    BY DEF TotalInv
  <2>2. vehicleReq'[q].held[o] \in {None, vehicleReq[q].held[o]}
    OBVIOUS
  <2>3. QED BY <2>1, <2>2, AccountKept
<1>2. QED BY <1>1 DEF TotalInv

LEMMA TotalTransfers ==
  ASSUME TotalInv, OwnerInv', NEW q \in Requests, V!LoadOwner(q) \/ V!SaveTransfer(q)
  PROVE  TotalInv'
<1>1. PICK r : r = vehicleReq[q]
  OBVIOUS
<1>2. /\ Whole(r) /\ Transfers(r) /\ Recounts(r) /\ vehicle \in [Vehicles -> V!Vehicle]
      /\ vehicleReq = [p \in Requests |-> vehicleReq[p]]
  BY <1>1 DEF TotalInv, OwnerInv
<1>3. UNCHANGED <<total, typed, vehicleStale>>
  BY DEF V!LoadOwner, V!SaveTransfer
<1>4. CASE V!LoadOwner(q)
  <2>1. PICK listed : vehicleReq' = [vehicleReq EXCEPT ![q].pc = "save", ![q].listed = listed]
    BY <1>4 DEF V!LoadOwner
  <2>2. PICK n : n = [r EXCEPT !.pc = "save", !.listed = listed]
    OBVIOUS
  <2>3. /\ n.pc = "save" /\ n.to = r.to /\ n.from = r.from /\ n.due = r.due /\ n.held = r.held
    BY <1>2, <2>2 DEF Whole
  <2>4. vehicleReq' = [vehicleReq EXCEPT ![q] = n]
    BY <1>1, <1>2, <2>1, <2>2 DEF Whole
  <2>5. r.pc = "owner" /\ vehicle' = vehicle
    BY <1>1, <1>4 DEF V!LoadOwner
  <2>6. Recounts(n) /\ \A o \in Things : n.held[o] = None /\ (Owes(n, o) <=> Owes(r, o))
    BY <1>2, <2>3, <2>5 DEF Recounts, Owes
  <2>7. \A o \in Things : V!OwnedBy(o)' = V!OwnedBy(o)
    BY <2>5 DEF V!OwnedBy
  <2>8. Others(q) /\ vehicleReq'[q] = n /\ \A p \in Requests : Recounts(vehicleReq'[p])
    BY <2>4, <2>6, Replaces
  <2>9. QED BY <1>1, <1>3, <2>5, <2>6, <2>7, <2>8, TotalMoves DEF Ahead
<1>5. CASE V!SaveTransfer(q)
  <2>1. PICK v \in Vehicles : v = r.on
    BY <1>1, <1>2, <1>5 DEF V!SaveTransfer, Transfers
  <2>2. r.pc = "save" /\ r.closes > 0 /\ V!Exists(v)
    BY <1>1, <1>2, <1>5, <2>1 DEF V!SaveTransfer, Transfers
  <2>3. CASE ~r.fresh
    <3>1. vehicleReq' = [vehicleReq EXCEPT ![q] = V!Idle] /\ vehicle' = vehicle
      BY <1>1, <1>5, <2>2, <2>3 DEF V!SaveTransfer, V!Answer
    <3>2. Others(q) /\ vehicleReq'[q] = V!Idle /\ \A p \in Requests : Recounts(vehicleReq'[p])
      BY <3>1, IdleRecounts, Replaces
    <3>3. \A o \in Things : V!OwnedBy(o)' = V!OwnedBy(o)
      BY <3>1 DEF V!OwnedBy
    <3>4. \A o \in Things : V!Idle.held[o] = None
      BY IdleRecounts DEF Recounts
    <3>5. QED BY <1>1, <1>3, <2>2, <3>2, <3>3, <3>4, IdleRecounts, TotalMoves DEF Ahead
  <2>4. CASE r.fresh
    <3>1. r.from = vehicle[v].owner
      BY <1>2, <2>1, <2>2, <2>4 DEF Transfers
    <3>2. PICK g : vehicle' = [vehicle EXCEPT ![v].owner = IF r.to = r.from THEN @ ELSE r.to,
                                              ![v].history = g]
      BY <1>1, <1>5, <2>1, <2>2, <2>4 DEF V!SaveTransfer
    <3>3. PICK owner : owner = IF r.to = r.from THEN vehicle[v].owner ELSE r.to
      OBVIOUS
    <3>4. PICK x : x = [vehicle[v] EXCEPT !.owner = owner, !.history = g]
      OBVIOUS
    <3>5. vehicle' = [vehicle EXCEPT ![v] = x] /\ x.at = vehicle[v].at /\ x.owner = r.to
      BY <1>2, <3>1, <3>2, <3>3, <3>4 DEF V!Vehicle
    <3>6. \A o \in Things \ {r.to, r.from} : V!OwnedBy(o)' = V!OwnedBy(o)
      BY <1>2, <3>1, <3>5 DEF V!OwnedBy
    <3>7. PICK n : /\ vehicleReq' = [V!Outdated(V!OnVehicle(v), q) EXCEPT ![q] = n]
                   /\ Recounts(n) /\ n.pc \in {"recount", "garage"}
                   /\ \A o \in Things : /\ n.held[o] = None
                                        /\ Owes(n, o) <=> o \in {r.to, r.from}
      <4>1. CASE r.listed
        <5>1. PICK n : n = V!Recounting({r.from, r.to})
          OBVIOUS
        <5>2. vehicleReq' = [V!Outdated(V!OnVehicle(v), q) EXCEPT ![q] = n]
          <6>1. PICK s : s = V!Outdated(V!OnVehicle(v), q)
            OBVIOUS
          <6>2. vehicleReq' = [s EXCEPT ![q] = n]
            BY <1>1, <1>5, <2>1, <2>2, <2>4, <4>1, <5>1, <6>1 DEF V!SaveTransfer
          <6>3. QED BY <6>1, <6>2
        <5>3. /\ Recounts(n) /\ n.pc = "recount"
              /\ \A o \in Things : n.held[o] = None /\ (Owes(n, o) <=> o \in {r.from, r.to})
          BY <5>1, RecountingOwes
        <5>4. \A o \in Things : n.held[o] = None /\ (Owes(n, o) <=> o \in {r.to, r.from})
          BY <5>3
        <5>5. QED BY <5>2, <5>3, <5>4
      <4>2. CASE ~r.listed
        <5>1. PICK n : n = [r EXCEPT !.pc = "garage"]
          OBVIOUS
        <5>2. vehicleReq' = [V!Outdated(V!OnVehicle(v), q) EXCEPT ![q] = n]
          BY <1>1, <1>5, <2>1, <2>2, <2>4, <4>2, <5>1 DEF V!SaveTransfer
        <5>3. /\ n.pc = "garage" /\ n.to = r.to /\ n.from = r.from /\ n.due = r.due
              /\ n.held = r.held
          BY <1>2, <5>1 DEF Whole
        <5>4. Recounts(n) /\ \A o \in Things : /\ n.held[o] = None
                                               /\ Owes(n, o) <=> o \in {r.to, r.from}
          BY <1>2, <2>2, <5>3 DEF Recounts, Owes
        <5>5. QED BY <5>2, <5>3, <5>4
      <4>3. QED BY <4>1, <4>2
    <3>8. Others(q) /\ vehicleReq'[q] = n /\ \A p \in Requests : Recounts(vehicleReq'[p])
      BY <3>7, OutdatedOthers
    <3>9. \A o \in Things : o \in {r.to, r.from} <=> Owes(r, o)
      BY <1>2, <2>2 DEF Recounts, Owes
    <3>10. QED BY <1>1, <1>3, <2>2, <3>6, <3>7, <3>8, <3>9, TotalMoves DEF Ahead
  <2>5. QED BY <2>3, <2>4
<1>6. QED BY <1>4, <1>5

LEMMA TotalProfiles ==
  ASSUME TotalInv, OwnerInv', NEW q \in Requests, V!SaveGarage(q) \/ V!SaveProfile(q)
  PROVE  TotalInv'
<1>1. PICK r : r = vehicleReq[q]
  OBVIOUS
<1>2. Recounts(r) /\ vehicle' = vehicle /\ vehicleStale' = vehicleStale
  BY <1>1 DEF TotalInv, V!SaveGarage, V!SaveProfile
<1>3. \A o \in Things : V!OwnedBy(o)' = V!OwnedBy(o)
  BY <1>2 DEF V!OwnedBy
<1>4. \A o \in Things : V!Idle.held[o] = None /\ ~Owes(V!Idle, o)
  BY IdleRecounts DEF Recounts
<1>5. CASE V!SaveGarage(q)
  <2>1. PICK n : n = V!Recounting({r.from, r.to})
    OBVIOUS
  <2>2. /\ vehicleReq' = [V!Outdated(V!OnOwner(r.to), q) EXCEPT ![q] = n]
        /\ r.pc = "garage" /\ total' = total /\ typed' = typed
    BY <1>1, <1>5, <2>1 DEF V!SaveGarage
  <2>3. /\ Recounts(n) /\ n.pc = "recount"
        /\ \A o \in Things : n.held[o] = None /\ (Owes(n, o) <=> o \in {r.from, r.to})
    BY <2>1, RecountingOwes
  <2>4. Others(q) /\ vehicleReq'[q] = n /\ \A p \in Requests : Recounts(vehicleReq'[p])
    BY <2>2, <2>3, OutdatedOthers
  <2>5. \A o \in Things : Owes(r, o) <=> o \in {r.from, r.to}
    BY <1>2, <2>2 DEF Recounts, Owes
  <2>6. QED BY <1>1, <1>2, <1>3, <2>2, <2>3, <2>4, <2>5, TotalMoves DEF Ahead
<1>6. CASE V!SaveProfile(q)
  <2>1. r.pc = "list"
    BY <1>1, <1>6 DEF V!SaveProfile
  <2>2. CASE r.primary /\ r.length > 0 /\ ~r.fresh
    <3>1. vehicleReq' = [vehicleReq EXCEPT ![q] = V!Idle] /\ total' = total /\ typed' = typed
      BY <1>1, <1>6, <2>2 DEF V!SaveProfile, V!Answer
    <3>2. Others(q) /\ vehicleReq'[q] = V!Idle /\ \A p \in Requests : Recounts(vehicleReq'[p])
      BY <3>1, IdleRecounts, Replaces
    <3>3. QED BY <1>1, <1>2, <1>3, <1>4, <2>1, <3>1, <3>2, TotalMoves DEF Ahead
  <2>3. CASE ~(r.primary /\ r.length > 0 /\ ~r.fresh)
    <3>1. /\ total' = [total EXCEPT ![r.to] = r.length + 1] /\ typed' = typed \cup {r.to}
          /\ vehicleReq' = [V!Outdated(V!OnOwner(r.to), q) EXCEPT ![q] = V!Idle]
      BY <1>1, <1>6, <2>3 DEF V!SaveProfile
    <3>2. Others(q) /\ vehicleReq'[q] = V!Idle /\ \A p \in Requests : Recounts(vehicleReq'[p])
      BY <3>1, IdleRecounts, OutdatedOthers
    <3>3. ASSUME NEW o \in Things PROVE Accounted(o)'
      <4>1. Accounted(o) /\ (total'[o] = total[o] \/ o \in typed')
        BY <3>1 DEF TotalInv
      <4>2. QED BY <1>1, <1>2, <1>3, <1>4, <2>1, <3>1, <3>2, <4>1, AccountKept DEF Ahead
    <3>4. total' = [o \in Things |-> total'[o]]
      BY <3>1 DEF TotalInv
    <3>5. QED BY <3>2, <3>3, <3>4 DEF TotalInv
  <2>4. QED BY <2>2, <2>3
<1>7. QED BY <1>5, <1>6

(* Nothing is owed to anybody else, and nothing has been counted.          *)
LEMMA TotalStill ==
  ASSUME TotalInv, OwnerInv', UNCHANGED <<vehicle, total, typed, vehicleStale>>,
         \A p \in Requests :
           /\ vehicleReq'[p].pc = vehicleReq[p].pc
           /\ vehicleReq'[p].to = vehicleReq[p].to /\ vehicleReq'[p].from = vehicleReq[p].from
           /\ vehicleReq'[p].due = vehicleReq[p].due /\ vehicleReq'[p].held = vehicleReq[p].held
  PROVE  TotalInv'
<1>1. ASSUME NEW p \in Requests
      PROVE  /\ Recounts(vehicleReq'[p])
             /\ \A o \in Things : Owes(vehicleReq'[p], o) <=> Owes(vehicleReq[p], o)
  BY DEF TotalInv, Recounts, Owes
<1>2. ASSUME NEW o \in Things PROVE Accounted(o)'
  <2>1. CountOf(o)' = CountOf(o)
    BY DEF CountOf, V!OwnedBy
  <2>2. Accounted(o)
    BY DEF TotalInv
  <2>3. \A p \in Requests : vehicleReq'[p].held[o] # None => vehicleReq'[p].held[o] = CountOf(o)'
          \/ o \in vehicleStale'
    BY <2>1, <2>2 DEF Accounted
  <2>4. QED BY <1>1, <2>1, <2>2, <2>3 DEF Accounted, CountOf, Owes
<1>3. QED BY <1>1, <1>2 DEF TotalInv

LEMMA TotalElsewhere ==
  ASSUME TotalInv, OwnerInv', NEW v \in Vehicles, V!SaveElsewhere(v)
  PROVE  TotalInv'
<1>1. /\ vehicleReq' = V!Outdated(V!OnVehicle(v), None)
      /\ UNCHANGED <<vehicle, total, typed, vehicleStale>>
  BY DEF V!SaveElsewhere
<1>2. ASSUME NEW p \in Requests
      PROVE  /\ vehicleReq'[p].pc = vehicleReq[p].pc
             /\ vehicleReq'[p].to = vehicleReq[p].to /\ vehicleReq'[p].from = vehicleReq[p].from
             /\ vehicleReq'[p].due = vehicleReq[p].due /\ vehicleReq'[p].held = vehicleReq[p].held
  <2>1. PICK x : x = vehicleReq[p] /\ Whole(x)
    BY DEF TotalInv, OwnerInv
  <2>2. PICK n : n = [x EXCEPT !.fresh = FALSE]
    OBVIOUS
  <2>3. /\ n.pc = x.pc /\ n.to = x.to /\ n.from = x.from /\ n.due = x.due /\ n.held = x.held
    BY <2>1, <2>2 DEF Whole
  <2>4. vehicleReq'[p] \in {x, n}
    BY <1>1, <2>1, <2>2 DEF V!Outdated
  <2>5. QED BY <2>1, <2>3, <2>4
<1>3. QED BY <1>1, <1>2, TotalStill

(* A request that recounts sets what it holds of one owner, and what is    *)
(* still due.                                                              *)
LEMMA Holds ==
  ASSUME TotalInv, NEW q \in Requests, vehicleReq[q].pc = "recount",
         NEW o \in Things, NEW due, due \in {vehicleReq[q].due, vehicleReq[q].due \ {o}}, NEW c,
         vehicleReq' = [vehicleReq EXCEPT ![q] =
           [vehicleReq[q] EXCEPT !.due = due, !.held = [@ EXCEPT ![o] = c]]]
  PROVE  /\ Others(q) /\ \A p \in Requests : Recounts(vehicleReq'[p])
         /\ vehicleReq'[q].pc = "recount" /\ vehicleReq'[q].held[o] = c
         /\ vehicleReq'[q].due = due
         /\ \A p \in Things \ {o} :
              /\ vehicleReq'[q].held[p] = vehicleReq[q].held[p]
              /\ Owes(vehicleReq'[q], p) <=> Owes(vehicleReq[q], p)
         /\ Owes(vehicleReq'[q], o) =>
              c # None \/ Owes(vehicleReq[q], o)
<1>1. PICK r : r = vehicleReq[q] /\ Whole(r) /\ Recounts(r)
  BY DEF TotalInv, OwnerInv
<1>2. PICK held : held = [r.held EXCEPT ![o] = c]
  OBVIOUS
<1>3. /\ held = [p \in Things |-> held[p]] /\ held[o] = c
      /\ \A p \in Things \ {o} : held[p] = r.held[p]
  BY <1>1, <1>2 DEF Recounts
<1>4. PICK n : n = [r EXCEPT !.due = due, !.held = held]
  OBVIOUS
<1>5. /\ n.pc = "recount" /\ n.to = r.to /\ n.from = r.from /\ n.due = due /\ n.held = held
  BY <1>1, <1>4 DEF Whole
<1>6. vehicleReq' = [vehicleReq EXCEPT ![q] = n]
  BY <1>1, <1>2, <1>4 DEF Whole
<1>7. Recounts(n)
  BY <1>3, <1>5 DEF Recounts
<1>8. Others(q) /\ vehicleReq'[q] = n /\ \A p \in Requests : Recounts(vehicleReq'[p])
  BY <1>6, <1>7, Replaces
<1>9. \A p \in Things \ {o} : Owes(n, p) <=> Owes(r, p)
  BY <1>1, <1>3, <1>5 DEF Owes
<1>10. Owes(n, o) => c # None \/ Owes(r, o)
  BY <1>1, <1>3, <1>5 DEF Owes
<1>11. QED BY <1>1, <1>3, <1>5, <1>8, <1>9, <1>10

(* What is due to the owners but o is as it was.                           *)
LEMMA TotalOthers ==
  ASSUME TotalInv, OwnerInv', NEW q \in Requests, vehicleReq[q].pc = "recount",
         NEW o \in Things, NEW due, due \in {vehicleReq[q].due, vehicleReq[q].due \ {o}}, NEW c,
         vehicleReq' = [vehicleReq EXCEPT ![q] =
           [vehicleReq[q] EXCEPT !.due = due, !.held = [@ EXCEPT ![o] = c]]],
         vehicle' = vehicle, total' = [p \in Things |-> total'[p]],
         \A p \in Things \ {o} :
           /\ total'[p] = total[p] /\ (p \in typed' <=> p \in typed)
           /\ p \in vehicleStale' <=> p \in vehicleStale,
         Accounted(o)'
  PROVE  TotalInv'
<1>1. ASSUME NEW p \in Things \ {o} PROVE Accounted(p)'
  <2>1. Accounted(p) /\ V!OwnedBy(p)' = V!OwnedBy(p)
    BY DEF TotalInv, V!OwnedBy
  <2>2. /\ Others(q) /\ vehicleReq'[q].pc = "recount"
        /\ vehicleReq'[q].held[p] = vehicleReq[q].held[p]
        /\ Owes(vehicleReq'[q], p) <=> Owes(vehicleReq[q], p)
    BY Holds
  <2>3. QED BY <2>1, <2>2, AccountKept DEF Ahead
<1>2. \A p \in Requests : Recounts(vehicleReq'[p])
  BY Holds
<1>3. QED BY <1>1, <1>2 DEF TotalInv

LEMMA TotalCounts ==
  ASSUME TotalInv, OwnerInv', NEW q \in Requests, NEW o \in Things,
         V!Count(q, o) \/ V!Store(q, o) \/ V!RecountFails(q, o)
  PROVE  TotalInv'
<1>1. PICK r : r = vehicleReq[q] /\ Whole(r)
  BY DEF TotalInv, OwnerInv
<1>2. /\ r.pc = "recount" /\ vehicle' = vehicle
      /\ vehicleReq = [p \in Requests |-> vehicleReq[p]] /\ total = [p \in Things |-> total[p]]
  BY <1>1 DEF V!Count, V!Store, V!RecountFails, TotalInv, OwnerInv
<1>3. CountOf(o)' = CountOf(o) /\ Accounted(o)
  BY <1>2 DEF CountOf, V!OwnedBy, TotalInv
<1>4. CASE V!Count(q, o)
  <2>1. PICK c : c = CountOf(o) /\ c # None
    BY VehicleNone
  <2>2. PICK due : due = r.due \ {o}
    OBVIOUS
  <2>3. vehicleReq' = [vehicleReq EXCEPT ![q].due = @ \ {o}, ![q].held[o] = c]
    BY <1>4, <2>1 DEF V!Count, CountOf
  <2>4. vehicleReq' =
          [vehicleReq EXCEPT ![q] = [r EXCEPT !.due = due, !.held = [@ EXCEPT ![o] = c]]]
    BY <1>1, <1>2, <2>2, <2>3 DEF Whole
  <2>5. /\ o \in r.due /\ total' = total /\ typed' = typed
        /\ vehicleStale' = IF V!WorkOn(o) = {q} THEN vehicleStale \ {o} ELSE vehicleStale
    BY <1>1, <1>4 DEF V!Count
  <2>6. /\ Others(q) /\ vehicleReq'[q].pc = "recount" /\ vehicleReq'[q].held[o] = c
    BY <1>1, <1>2, <2>2, <2>4, Holds
  <2>7. Owes(r, o) /\ Owes(vehicleReq'[q], o)
    BY <2>1, <2>5, <2>6 DEF Owes
  <2>8. Accounted(o)'
    <3>1. SUFFICES ASSUME o \notin vehicleStale' PROVE Accounted(o)'
      BY DEF Accounted
    <3>2. \A p \in Requests : Owes(vehicleReq[p], o) => p = q
      BY <1>1, <1>3, <2>5, <2>7, <3>1, WorkedOn DEF Accounted
    <3>3. \A p \in Requests : Owes(vehicleReq'[p], o) => p = q
      BY <2>6, <3>2 DEF Others, Owes
    <3>4. \A p \in Requests : vehicleReq'[p].held[o] # None => p = q
      BY <3>3 DEF Owes
    <3>5. QED BY <1>3, <2>1, <2>6, <2>7, <3>3, <3>4 DEF Accounted, Ahead, CountOf, Owes
  <2>9. QED BY <1>1, <1>2, <2>2, <2>4, <2>5, <2>8, TotalOthers
<1>5. CASE V!Store(q, o)
  <2>1. PICK due : due = r.due
    OBVIOUS
  <2>2. vehicleReq' =
          [vehicleReq EXCEPT ![q] = [r EXCEPT !.due = due, !.held = [@ EXCEPT ![o] = None]]]
    BY <1>1, <1>2, <1>5, <2>1 DEF V!Store, Whole
  <2>3. /\ r.held[o] # None /\ total' = [total EXCEPT ![o] = r.held[o]]
        /\ typed' = typed \ {o} /\ vehicleStale' = vehicleStale
    BY <1>1, <1>5 DEF V!Store
  <2>4. /\ Others(q) /\ vehicleReq'[q].held[o] = None
        /\ Owes(vehicleReq'[q], o) => Owes(r, o)
    BY <1>1, <1>2, <2>1, <2>2, Holds
  <2>5. Accounted(o)'
    <3>1. SUFFICES ASSUME o \notin vehicleStale' PROVE Accounted(o)'
      BY DEF Accounted
    <3>2. r.held[o] = CountOf(o)
      BY <1>1, <1>3, <2>3, <3>1 DEF Accounted
    <3>3. total'[o] = CountOf(o)
      BY <1>2, <2>3, <3>2
    <3>4. \A p \in Requests : Owes(vehicleReq'[p], o) => Owes(vehicleReq[p], o)
      BY <1>1, <2>4 DEF Others, Owes
    <3>5. \A p \in Requests : vehicleReq'[p].held[o] # None
          => vehicleReq'[p].held[o] = vehicleReq[p].held[o]
      BY <2>4 DEF Others
    <3>6. QED BY <1>3, <2>3, <3>1, <3>3, <3>4, <3>5 DEF Accounted, CountOf, Owes
  <2>6. \A p \in Things \ {o} : total'[p] = total[p] /\ (p \in typed' <=> p \in typed)
    BY <1>2, <2>3
  <2>7. total' = [p \in Things |-> total'[p]]
    BY <1>2, <2>3
  <2>8. QED BY <1>1, <1>2, <2>1, <2>2, <2>3, <2>5, <2>6, <2>7, TotalOthers
<1>6. CASE V!RecountFails(q, o)
  <2>1. PICK due : due = r.due \ {o}
    OBVIOUS
  <2>2. vehicleReq' =
          [vehicleReq EXCEPT ![q] = [r EXCEPT !.due = due, !.held = [@ EXCEPT ![o] = None]]]
    BY <1>1, <1>2, <1>6, <2>1 DEF V!RecountFails, Whole
  <2>3. total' = total /\ typed' = typed /\ vehicleStale' = vehicleStale \cup {o}
    BY <1>6 DEF V!RecountFails
  <2>4. Accounted(o)'
    BY <2>3 DEF Accounted
  <2>5. QED BY <1>1, <1>2, <2>1, <2>2, <2>3, <2>4, TotalOthers
<1>7. QED BY <1>4, <1>5, <1>6

LEMMA TotalEnds ==
  ASSUME TotalInv, OwnerInv', NEW q \in Requests, V!Finish(q) \/ V!Abort(q)
  PROVE  TotalInv'
<1>1. /\ vehicleReq' = [vehicleReq EXCEPT ![q] = V!Idle]
      /\ UNCHANGED <<vehicle, total, typed>>
  BY DEF V!Finish, V!Abort, V!Answer
<1>2. Others(q) /\ vehicleReq'[q] = V!Idle /\ \A p \in Requests : Recounts(vehicleReq'[p])
  BY <1>1, IdleRecounts, Replaces
<1>3. ASSUME NEW o \in Things
      PROVE  /\ o \in vehicleStale => o \in vehicleStale'
             /\ Owes(vehicleReq[q], o) /\ vehicleReq[q].pc \notin Ahead => o \in vehicleStale'
  <2>1. CASE V!Finish(q)
    BY <2>1, WorkedOn DEF V!Finish
  <2>2. CASE V!Abort(q)
    <3>1. \/ vehicleReq[q].pc \in {"garage", "recount"}
           /\ vehicleStale' = vehicleStale \cup V!Owing(q)
          \/ vehicleReq[q].pc \notin {"garage", "recount", "idle"} /\ vehicleStale' = vehicleStale
      BY <2>2 DEF V!Abort
    <3>2. vehicleReq[q].pc \in {"idle", "owner", "save", "garage", "list", "recount"}
      BY DEF TotalInv, Recounts
    <3>3. QED BY <3>1, <3>2, WorkedOn DEF Ahead
  <2>3. QED BY <2>1, <2>2
<1>4. ASSUME NEW o \in Things PROVE Accounted(o)'
  <2>1. Accounted(o) /\ V!OwnedBy(o)' = V!OwnedBy(o)
    BY <1>1 DEF TotalInv, V!OwnedBy
  <2>2. V!Idle.held[o] = None /\ ~Owes(V!Idle, o)
    BY IdleRecounts DEF Recounts
  <2>3. QED BY <1>1, <1>2, <1>3, <2>1, <2>2, AccountKept
<1>5. QED BY <1>1, <1>2, <1>4 DEF TotalInv

LEMMA TotalInit == Init => TotalInv
<1> SUFFICES ASSUME Init PROVE TotalInv
  OBVIOUS
<1>1. V!Init
  BY DEF Init
<1>2. /\ \A q \in Requests : vehicleReq[q] = V!Idle
      /\ total = [o \in Things |-> 0] /\ \A v \in Vehicles : vehicle[v].at = "absent"
  BY <1>1 DEF V!Init, V!NoVehicle
<1>3. ASSUME NEW o \in Things PROVE CountOf(o) = 0
  <2>1. PICK own : own = V!OwnedBy(o)
    OBVIOUS
  <2>2. own = {}
    BY <1>2, <2>1 DEF V!OwnedBy
  <2>3. V!Cardinality(own) = Cardinality(own)
    BY DEF V!Cardinality, Cardinality
  <2>4. QED BY <2>1, <2>2, <2>3, FS_EmptySet DEF CountOf
<1>4. \A o \in Things : Accounted(o)
  <2>1. \A o \in Things, q \in Requests : vehicleReq[q].held[o] = None /\ ~Owes(vehicleReq[q], o)
    BY <1>2, IdleRecounts DEF Recounts
  <2>2. QED BY <1>2, <1>3, <2>1 DEF Accounted
<1>5. QED BY <1>2, <1>4, IdleRecounts, OwnerInit DEF TotalInv

(* The total of an owner counts the vehicles the owner has, once nobody    *)
(* works on the owner and the last recount was alone and went through.     *)
THEOREM TotalsAreExact == Spec => []V!TotalsExact
<1>1. TotalInv /\ [Next]_vars => TotalInv'
  <2> SUFFICES ASSUME TotalInv, [Next]_vars PROVE TotalInv'
    OBVIOUS
  <2>1. V!Next \/ UNCHANGED vehiclesVars
    BY PartsStep
  <2>2. OwnerInv'
    BY <2>1, OwnerNext DEF TotalInv
  <2>3. CASE V!Next
    BY <2>2, <2>3, TotalCreates, TotalLoads, TotalTransfers, TotalProfiles, TotalCounts,
       TotalEnds, TotalElsewhere DEF V!Next
  <2>4. CASE UNCHANGED vehiclesVars
    <3>1. UNCHANGED <<vehicle, vehicleReq, total, typed, vehicleStale>>
      BY <2>4 DEF vehiclesVars
    <3>2. QED BY <2>2, <3>1, TotalStill
  <2>5. QED BY <2>1, <2>3, <2>4
<1>2. TotalInv => V!TotalsExact
  <2> SUFFICES ASSUME TotalInv, NEW o \in Things, V!WorkOn(o) = {},
                      o \notin vehicleStale \cup typed
               PROVE  total[o] = V!Cardinality(V!OwnedBy(o))
    BY DEF V!TotalsExact
  <2>1. \A q \in Requests : ~Owes(vehicleReq[q], o)
    BY WorkedOn
  <2>2. QED BY <2>1 DEF TotalInv, Accounted, CountOf
<1>3. QED BY TotalInit, <1>1, <1>2, PTL DEF Spec

-----------------------------------------------------------------------------
(* What is written down twice agrees, in every part that does so.          *)
THEOREM CopiesAlwaysAgree == Spec => []CopiesAgree
<1>1. V!TotalsExact /\ R!RatingExact /\ O!CurrentIsLogged /\ G!ChargedAsTold /\ H!StalenessBounded
        => CopiesAgree
  BY DEF CopiesAgree
<1>2. QED
  BY <1>1, TotalsAreExact, RatingsAreExact, ReadingsAreLogged, ChargesAreAsTold,
     StalenessIsBounded, PTL

-----------------------------------------------------------------------------
(* Documents.  Who is about to create a document has stored its file, and  *)
(* nobody else has loaded it; who is about to remove a file has marked the *)
(* document as deleted, and nothing takes that back.                       *)
UploadCall(r) ==
  /\ r.pc # "idle" => r.doc \in Docs
  /\ r.pc = "create" => r.doc \in files /\ documents[r.doc].at = "absent"
  /\ r.pc \in {"verify", "archive", "delete", "softDelete", "deleteFile"} =>
       documents[r.doc].at = "there"
  /\ r.pc = "deleteFile" => documents[r.doc].isDeleted

FileInv ==
  /\ D!TypeOK
  /\ \A q \in Requests : UploadCall(documentReq[q])
  /\ \A p, q \in Requests :
       /\ documentReq[p].pc = "create" /\ documentReq[q].pc = "create"
       /\ documentReq[p].doc = documentReq[q].doc
       => p = q
  /\ D!LiveHasFile

LEMMA FileIdle == D!Idle \in D!Request /\ D!Idle.pc = "idle"
  BY DEF D!Idle, D!Request, D!NoDocument, D!Document

LEMMA FileInit == Init => FileInv
<1> SUFFICES ASSUME Init PROVE FileInv
  OBVIOUS
<1>1. D!Init
  BY DEF Init
<1>2. D!NoDocument \in D!Document /\ D!NoDocument.at = "absent"
  BY DEF D!NoDocument, D!Document
<1>3. QED BY <1>1, <1>2, FileIdle DEF D!Init, FileInv, D!TypeOK, UploadCall, D!LiveHasFile

(* A document stays there, and deleted; its file is there until it is.     *)
LEMMA FileMoves ==
  ASSUME FileInv, NEW q \in Requests, NEW x \in D!Request,
         documentReq' = [documentReq EXCEPT ![q] = x],
         documents' \in [Docs -> D!Document], files' \subseteq Docs,
         \A d \in Docs : documents[d].at = "there" =>
           documents'[d].at = "there" /\ (documents[d].isDeleted => documents'[d].isDeleted),
         \A p \in Requests \ {q} : documentReq[p].pc = "create" =>
           /\ documentReq[p].doc \in files' /\ documents'[documentReq[p].doc].at = "absent"
           /\ x.pc = "create" => x.doc # documentReq[p].doc,
         UploadCall(x)',
         D!LiveHasFile'
  PROVE  FileInv'
<1>1. documentReq' \in [Requests -> D!Request] /\ documentReq'[q] = x
      /\ \A p \in Requests \ {q} : documentReq'[p] = documentReq[p]
  BY DEF FileInv, D!TypeOK
<1>2. ASSUME NEW p \in Requests PROVE UploadCall(documentReq[p])'
  <2>1. CASE p = q
    BY <1>1, <2>1 DEF UploadCall
  <2>2. CASE p # q
    <3>1. documentReq'[p] = documentReq[p] /\ UploadCall(documentReq[p])
      BY <1>1, <2>2 DEF FileInv
    <3>2. QED BY <2>2, <3>1 DEF UploadCall
  <2>3. QED BY <2>1, <2>2
<1>3. \A p, r \in Requests :
        /\ documentReq'[p].pc = "create" /\ documentReq'[r].pc = "create"
        /\ documentReq'[p].doc = documentReq'[r].doc
        => p = r
  BY <1>1 DEF FileInv
<1>4. D!TypeOK'
  BY <1>1 DEF D!TypeOK
<1>5. QED BY <1>2, <1>3, <1>4 DEF FileInv

LEMMA FileUploads ==
  ASSUME FileInv, NEW q \in Requests, D!Create(q) \/ \E d \in Docs : D!SaveFile(q, d)
  PROVE  FileInv'
<1>1. D!TypeOK /\ UploadCall(documentReq[q])
  BY DEF FileInv
<1>2. ASSUME NEW d \in Docs, D!SaveFile(q, d) PROVE FileInv'
  <2>1. PICK x : x = [D!Idle EXCEPT !.pc = "create", !.doc = d]
    OBVIOUS
  <2>2. x \in D!Request /\ x.pc = "create" /\ x.doc = d
    BY <2>1 DEF D!Idle, D!Request, D!NoDocument, D!Document
  <2>3. /\ documentReq' = [documentReq EXCEPT ![q] = x] /\ documents' = documents
        /\ files' = files \cup {d} /\ d \notin files /\ documents[d].at = "absent"
    BY <1>2, <2>1 DEF D!SaveFile
  <2>4. UploadCall(x)'
    BY <2>2, <2>3 DEF UploadCall
  <2>5. D!LiveHasFile'
    BY <2>3 DEF FileInv, D!LiveHasFile
  <2>6. \A p \in Requests : documentReq[p].pc = "create" =>
           documentReq[p].doc \in files /\ documents[documentReq[p].doc].at = "absent"
    BY DEF FileInv, UploadCall
  <2>7. QED BY <1>1, <2>2, <2>3, <2>4, <2>5, <2>6, FileMoves DEF D!TypeOK
<1>3. CASE D!Create(q)
  <2>1. PICK d \in Docs : d = documentReq[q].doc
    BY <1>1, <1>3 DEF D!Create, UploadCall
  <2>2. PICK x : x = [D!NoDocument EXCEPT !.at = "there"]
    OBVIOUS
  <2>3. x \in D!Document /\ x.at = "there"
    BY <2>2 DEF D!NoDocument, D!Document
  <2>4. /\ documents' = [documents EXCEPT ![d] = x] /\ files' = files
        /\ documentReq' = [documentReq EXCEPT ![q] = D!Idle] /\ documentReq[q].pc = "create"
    BY <1>3, <2>1, <2>2 DEF D!Create
  <2>5. d \in files /\ documents[d].at = "absent"
    BY <1>1, <2>1, <2>4 DEF UploadCall
  <2>6. D!LiveHasFile'
    BY <1>1, <2>4, <2>5 DEF FileInv, D!LiveHasFile, D!TypeOK
  <2>7. \A p \in Requests \ {q} : documentReq[p].pc = "create" =>
          /\ documentReq[p].doc \in Docs \ {d} /\ documentReq[p].doc \in files
          /\ documents[documentReq[p].doc].at = "absent"
    BY <2>1, <2>4 DEF FileInv, UploadCall
  <2>8. /\ documents' \in [Docs -> D!Document]
        /\ \A c \in Docs \ {d} : documents'[c] = documents[c]
    BY <1>1, <2>3, <2>4 DEF D!TypeOK
  <2>9. UploadCall(D!Idle)'
    BY FileIdle DEF UploadCall
  <2>10. QED BY <1>1, <2>4, <2>5, <2>6, <2>7, <2>8, <2>9, FileIdle, FileMoves DEF D!TypeOK
<1>4. QED BY <1>2, <1>3

(* verify(), archive() and delete() of a document that is there.           *)
LEMMA FileSaves ==
  ASSUME FileInv, NEW q \in Requests,
         \/ \E d \in Docs, what \in {"verify", "archive", "delete"} : D!Load(q, d, what)
         \/ D!Reload(q) \/ D!SaveVerified(q) \/ D!SaveArchived(q) \/ D!SoftDelete(q)
  PROVE  FileInv'
<1>1. D!TypeOK /\ UploadCall(documentReq[q]) /\ files' = files
  BY DEF FileInv, D!Load, D!Reload, D!SaveVerified, D!SaveArchived, D!SoftDelete
<1>2. \A p \in Requests : documentReq[p].pc = "create" =>
        /\ documentReq[p].doc \in Docs /\ documentReq[p].doc \in files
        /\ documents[documentReq[p].doc].at = "absent"
  BY DEF FileInv, UploadCall
<1>3. PICK r \in D!Request : r = documentReq[q]
  BY <1>1 DEF D!TypeOK
<1>4. ASSUME documents' = documents,
             NEW x \in D!Request, documentReq' = [documentReq EXCEPT ![q] = x],
             x.doc \in Docs, documents[x.doc].at = "there", x.pc \notin {"create", "deleteFile"}
      PROVE  FileInv'
  <2>1. D!LiveHasFile' /\ UploadCall(x)'
    BY <1>1, <1>4 DEF FileInv, D!LiveHasFile, UploadCall
  <2>2. QED BY <1>1, <1>2, <1>4, <2>1, FileMoves DEF D!TypeOK
<1>5. ASSUME NEW d \in Docs, NEW x \in D!Document, documents' = [documents EXCEPT ![d] = x],
             NEW y \in D!Request, documentReq' = [documentReq EXCEPT ![q] = y],
             documents[d].at = "there", x.at = "there", documents[d].isDeleted => x.isDeleted,
             y.pc = "idle" \/ (y.pc = "deleteFile" /\ y.doc = d /\ x.isDeleted)
      PROVE  FileInv'
  <2>1. /\ documents' \in [Docs -> D!Document] /\ documents'[d] = x
        /\ \A c \in Docs \ {d} : documents'[c] = documents[c]
    BY <1>1, <1>5 DEF D!TypeOK
  <2>2. D!LiveHasFile'
    BY <1>1, <1>5, <2>1 DEF FileInv, D!LiveHasFile
  <2>3. UploadCall(y)'
    BY <1>5, <2>1 DEF UploadCall
  <2>4. \A p \in Requests : documentReq[p].pc = "create" =>
          documentReq[p].doc \in files' /\ documents'[documentReq[p].doc].at = "absent"
    BY <1>1, <1>2, <1>5, <2>1
  <2>5. \A c \in Docs : documents[c].at = "there" =>
          documents'[c].at = "there" /\ (documents[c].isDeleted => documents'[c].isDeleted)
    BY <1>5, <2>1
  <2>6. y.pc # "create" /\ files' \subseteq Docs
    BY <1>1, <1>5 DEF D!TypeOK
  <2>7. QED BY <1>5, <2>1, <2>2, <2>3, <2>4, <2>5, <2>6, FileMoves
<1>6. ASSUME NEW d \in Docs, NEW what \in {"verify", "archive", "delete"}, D!Load(q, d, what)
      PROVE  FileInv'
  <2>1. PICK x : x = [pc |-> what, doc |-> d, held |-> documents[d]]
    OBVIOUS
  <2>2. x \in D!Request /\ x.pc = what /\ x.doc = d
    BY <1>1, <2>1 DEF D!Request, D!TypeOK
  <2>3. /\ documentReq' = [documentReq EXCEPT ![q] = x] /\ documents' = documents
        /\ documents[d].at = "there"
    BY <1>6, <2>1 DEF D!Load
  <2>4. QED BY <1>4, <2>2, <2>3
<1>7. ASSUME r.pc \in {"verify", "archive", "delete", "softDelete"}
      PROVE  /\ r.doc \in Docs /\ documents[r.doc].at = "there"
             /\ documents[r.doc] \in D!Document
  BY <1>1, <1>3, <1>7 DEF UploadCall, D!TypeOK
<1>8. CASE D!Reload(q)
  <2>1. PICK x : x = [r EXCEPT !.pc = "softDelete", !.held = documents[r.doc]]
    OBVIOUS
  <2>2. r.pc = "delete" /\ documents' = documents /\ documentReq' = [documentReq EXCEPT ![q] = x]
    BY <1>3, <1>8, <2>1 DEF D!Reload
  <2>3. x \in D!Request /\ x.pc = "softDelete" /\ x.doc = r.doc
    BY <1>3, <1>7, <2>1, <2>2 DEF D!Request
  <2>4. QED BY <1>4, <1>7, <2>2, <2>3
<1>9. CASE D!SaveVerified(q)
  <2>1. r.pc = "verify" /\ documentReq' = [documentReq EXCEPT ![q] = D!Idle]
    BY <1>3, <1>9 DEF D!SaveVerified
  <2>2. PICK w \in D!Document : w = documents[r.doc]
    BY <1>7, <2>1
  <2>3. PICK x : x = [w EXCEPT !.isVerified = TRUE]
    OBVIOUS
  <2>4. x \in D!Document /\ x.at = w.at /\ x.isDeleted = w.isDeleted
    BY <2>2, <2>3 DEF D!Document
  <2>5. documents' = [documents EXCEPT ![r.doc] = x]
    BY <1>1, <1>3, <1>7, <1>9, <2>1, <2>2, <2>3 DEF D!SaveVerified, D!TypeOK
  <2>6. QED BY <1>5, <1>7, <2>1, <2>2, <2>4, <2>5, FileIdle
<1>10. CASE D!SaveArchived(q)
  <2>1. r.pc = "archive" /\ documentReq' = [documentReq EXCEPT ![q] = D!Idle]
    BY <1>3, <1>10 DEF D!SaveArchived
  <2>2. PICK w \in D!Document : w = documents[r.doc]
    BY <1>7, <2>1
  <2>3. PICK x : x = IF r.held.status = "archived" THEN w ELSE [w EXCEPT !.status = "archived"]
    OBVIOUS
  <2>4. x \in D!Document /\ x.at = w.at /\ x.isDeleted = w.isDeleted
    BY <2>2, <2>3 DEF D!Document
  <2>5. documents' = [documents EXCEPT ![r.doc] = x]
    BY <1>1, <1>3, <1>7, <1>10, <2>1, <2>2, <2>3 DEF D!SaveArchived, D!TypeOK
  <2>6. QED BY <1>5, <1>7, <2>1, <2>2, <2>4, <2>5, FileIdle
<1>11. CASE D!SoftDelete(q)
  <2>1. r.pc = "softDelete"
    BY <1>3, <1>11 DEF D!SoftDelete
  <2>2. PICK w \in D!Document : w = documents[r.doc]
    BY <1>7, <2>1
  <2>3. PICK status : status = IF r.held.status = "deleted" THEN w.status ELSE "deleted"
    OBVIOUS
  <2>4. PICK x : x = [w EXCEPT !.isDeleted = TRUE, !.status = status]
    OBVIOUS
  <2>5. status \in {"active", "archived", "deleted"}
    BY <2>2, <2>3 DEF D!Document
  <2>6. x = [at |-> w.at, isDeleted |-> TRUE, isVerified |-> w.isVerified, status |-> status]
    BY <2>2, <2>4 DEF D!Document
  <2>7. x \in D!Document /\ x.at = w.at /\ x.isDeleted
    BY <2>2, <2>5, <2>6 DEF D!Document
  <2>8. documents' = [documents EXCEPT ![r.doc] = x]
    BY <1>1, <1>3, <1>7, <1>11, <2>1, <2>2, <2>3, <2>4 DEF D!SoftDelete, D!TypeOK
  <2>9. PICK y : y = [r EXCEPT !.pc = "deleteFile"]
    OBVIOUS
  <2>10. y \in D!Request /\ y.pc = "deleteFile" /\ y.doc = r.doc
    BY <1>3, <2>9 DEF D!Request
  <2>11. documentReq' = [documentReq EXCEPT ![q] = y]
    BY <1>1, <1>3, <1>11, <2>9 DEF D!SoftDelete, D!TypeOK
  <2>12. QED BY <1>5, <1>7, <2>1, <2>2, <2>7, <2>8, <2>10, <2>11
<1>12. QED BY <1>6, <1>8, <1>9, <1>10, <1>11

LEMMA FileEnds ==
  ASSUME FileInv, NEW q \in Requests, D!DeleteFile(q) \/ D!Abort(q)
  PROVE  FileInv'
<1>1. /\ D!TypeOK /\ UploadCall(documentReq[q]) /\ documents' = documents
      /\ documentReq' = [documentReq EXCEPT ![q] = D!Idle]
  BY DEF FileInv, D!DeleteFile, D!Abort
<1>2. PICK d : d = documentReq[q].doc
  OBVIOUS
<1>3. \/ files' = files
      \/ /\ files' = files \ {d} /\ documents[d].at = "there" /\ documents[d].isDeleted
  BY <1>1, <1>2 DEF D!DeleteFile, D!Abort, UploadCall
<1>4. D!LiveHasFile'
  BY <1>1, <1>3 DEF FileInv, D!LiveHasFile
<1>5. \A p \in Requests : documentReq[p].pc = "create" =>
        /\ documentReq[p].doc \in files
        /\ documents[documentReq[p].doc].at = "absent"
  BY DEF FileInv, UploadCall
<1>6. UploadCall(D!Idle)'
  BY FileIdle DEF UploadCall
<1>7. QED BY <1>1, <1>3, <1>4, <1>5, <1>6, FileIdle, FileMoves DEF D!TypeOK

LEMMA FileNext ==
  ASSUME FileInv, D!Next \/ UNCHANGED documentsVars
  PROVE  FileInv'
<1>1. CASE D!Next
  BY <1>1, FileUploads, FileSaves, FileEnds DEF D!Next
<1>2. CASE UNCHANGED documentsVars
  BY <1>2 DEF documentsVars, FileInv, UploadCall, D!TypeOK, D!LiveHasFile
<1>3. QED BY <1>1, <1>2

(* A document that is not deleted has its file, wherever uploads and       *)
(* deletions stop and however they overlap.                                *)
THEOREM LiveDocumentsHaveFiles == Spec => []D!LiveHasFile
<1>1. FileInv => D!LiveHasFile
  BY DEF FileInv
<1>2. FileInv /\ [Next]_vars => FileInv'
  BY OtherPartsStep, FileNext
<1>3. QED BY FileInit, <1>1, <1>2, PTL DEF Spec

-----------------------------------------------------------------------------
(* Organizations.  A transaction has written what comes before where it    *)
(* stands, so that all is written when it commits.                         *)
Before(k) == {N!Order[i] : i \in 1..(k - 1)}

WholeInv ==
  /\ at = [s \in Requests |-> at[s]]
  /\ written = [s \in Requests |-> written[s]]
  /\ stored = [s \in Requests |-> stored[s]]
  /\ \A s \in Requests : at[s] = "idle" => written[s] = {}
  /\ \A s \in Requests, k \in 1..10 : at[s] = N!Order[k] => written[s] = Before(k)
  /\ N!NoHalfOrganization

LEMMA OrderOfWrites ==
  /\ Len(N!Order) = 10 /\ N!Order[1] = "tenant" /\ N!Order[10] = "commit"
  /\ \A i, j \in 1..10 : N!Order[i] = N!Order[j] => i = j
  /\ \A i \in 1..10 : N!Order[i] \notin {"idle", "notify", "done"}
  BY DEF N!Order

LEMMA NextWrite ==
  ASSUME NEW k \in 1..9 PROVE N!After(N!Order[k]) = N!Order[k + 1]
<1>1. k \in 1..Len(N!Order) /\ \A i \in 1..Len(N!Order) : N!Order[i] = N!Order[k] => i = k
  BY OrderOfWrites
<1>2. PICK w : w = N!Order[k]
  OBVIOUS
<1>3. PICK c : c = CHOOSE i \in 1..Len(N!Order) : N!Order[i] = w
  OBVIOUS
<1>4. c = k
  <2>1. \E i \in 1..Len(N!Order) : N!Order[i] = w
    BY <1>1, <1>2
  <2>2. c \in 1..Len(N!Order) /\ N!Order[c] = w
    BY <1>3, <2>1, Zenon
  <2>3. QED BY <1>1, <1>2, <2>2
<1>5. N!After(w) = N!Order[1 + c]
  BY <1>3, Zenon DEF N!After
<1>6. 1 + c = k + 1
  BY <1>4
<1>7. QED BY <1>2, <1>5, <1>6

LEMMA AllWritten == N!Writes = Before(10)
  BY OrderOfWrites DEF N!Writes, Before

LEMMA WholeInit == Init => WholeInv
<1> SUFFICES ASSUME Init PROVE WholeInv
  OBVIOUS
<1>1. N!Init
  BY DEF Init
<1>2. QED BY <1>1, OrderOfWrites DEF N!Init, WholeInv, N!NoHalfOrganization

LEMMA RollbackWhole ==
  ASSUME WholeInv, NEW s \in Requests, N!Rollback(s)
  PROVE  WholeInv'
<1>1. /\ at' = [at EXCEPT ![s] = "idle"] /\ written' = [written EXCEPT ![s] = {}]
      /\ stored' = stored
  BY DEF N!Rollback
<1>2. QED BY <1>1, OrderOfWrites DEF WholeInv, N!NoHalfOrganization, Before

LEMMA WholeSteps ==
  ASSUME WholeInv, NEW s \in Requests,
         \/ \E e \in Emails, r \in Registrations, n \in 1..MaxSlug : N!SignUp(s, e, r, n)
         \/ N!Write(s) \/ N!Commit(s) \/ N!Abort(s) \/ N!Notify(s)
  PROVE  WholeInv'
<1>1. ASSUME NEW e \in Emails, NEW r \in Registrations, NEW n \in 1..MaxSlug, N!SignUp(s, e, r, n)
      PROVE  WholeInv'
  <2>1. /\ at[s] = "idle" /\ at' = [at EXCEPT ![s] = N!Order[1]] /\ UNCHANGED <<written, stored>>
    BY <1>1, OrderOfWrites DEF N!SignUp
  <2>2. Before(1) = {}
    BY DEF Before
  <2>3. \A t \in Requests, k \in 1..10 : at'[t] = N!Order[k] => written'[t] = Before(k)
    BY <2>1, <2>2, OrderOfWrites DEF WholeInv
  <2>4. N!NoHalfOrganization'
    BY <2>1 DEF WholeInv, N!NoHalfOrganization
  <2>5. QED BY <2>1, <2>3, <2>4, OrderOfWrites DEF WholeInv, Before
<1>2. CASE N!Write(s)
  <2>1. CASE N!Rollback(s)
    BY <2>1, RollbackWhole
  <2>2. CASE ~N!Rollback(s)
    <3>1. PICK k \in 1..9 : at[s] = N!Order[k]
      BY <1>2, OrderOfWrites DEF N!Write, N!Writes
    <3>2. /\ at' = [at EXCEPT ![s] = N!After(at[s])]
          /\ written' = [written EXCEPT ![s] = written[s] \cup {at[s]}] /\ stored' = stored
      BY <1>2, <2>2 DEF N!Write, WholeInv
    <3>3. at'[s] = N!Order[k + 1] /\ written'[s] = Before(k) \cup {N!Order[k]}
      BY <3>1, <3>2, NextWrite DEF WholeInv
    <3>4. Before(k) \cup {N!Order[k]} = Before(k + 1)
      BY DEF Before
    <3>5. \A j \in 1..10 : at'[s] = N!Order[j] => j = k + 1
      <4>1. k + 1 \in 1..10
        OBVIOUS
      <4>2. QED BY <3>3, <4>1, OrderOfWrites
    <3>6. \A t \in Requests, j \in 1..10 : at'[t] = N!Order[j] => written'[t] = Before(j)
      BY <3>2, <3>3, <3>4, <3>5 DEF WholeInv
    <3>7. \A t \in Requests : at'[t] = "idle" => written'[t] = {}
      BY <3>2, <3>3, OrderOfWrites DEF WholeInv
    <3>8. N!NoHalfOrganization'
      BY <3>2 DEF WholeInv, N!NoHalfOrganization
    <3>9. QED BY <3>2, <3>6, <3>7, <3>8 DEF WholeInv, Before
  <2>3. QED BY <2>1, <2>2
<1>3. CASE N!Commit(s)
  <2>1. /\ at[s] = N!Order[10] /\ at' = [at EXCEPT ![s] = "notify"]
        /\ written' = [written EXCEPT ![s] = {}] /\ stored' = [stored EXCEPT ![s] = written[s]]
    BY <1>3, OrderOfWrites DEF N!Commit
  <2>2. written[s] = N!Writes
    BY <2>1, AllWritten DEF WholeInv
  <2>3. N!NoHalfOrganization'
    BY <2>1, <2>2 DEF WholeInv, N!NoHalfOrganization, N!Writes, N!Order
  <2>4. \A t \in Requests, j \in 1..10 : at'[t] = N!Order[j] => written'[t] = Before(j)
    BY <2>1, OrderOfWrites DEF WholeInv
  <2>5. QED BY <2>1, <2>3, <2>4 DEF WholeInv, Before
<1>4. CASE N!Abort(s)
  BY <1>4, RollbackWhole DEF N!Abort
<1>5. CASE N!Notify(s)
  <2>1. at' = [at EXCEPT ![s] = "done"] /\ UNCHANGED <<written, stored>>
    BY <1>5 DEF N!Notify
  <2>2. \A t \in Requests, j \in 1..10 : at'[t] = N!Order[j] => written'[t] = Before(j)
    BY <2>1, OrderOfWrites DEF WholeInv
  <2>3. QED BY <2>1, <2>2 DEF WholeInv, N!NoHalfOrganization, Before
<1>6. QED BY <1>1, <1>2, <1>3, <1>4, <1>5

LEMMA WholeNext ==
  ASSUME WholeInv, N!Next \/ UNCHANGED onboardingVars
  PROVE  WholeInv'
<1>1. CASE UNCHANGED <<at, written, stored>>
  BY <1>1 DEF WholeInv, N!NoHalfOrganization, Before
<1>2. CASE N!Next
  BY <1>1, <1>2, WholeSteps DEF N!Next, N!Decide, N!Delete, N!Take
<1>3. CASE UNCHANGED onboardingVars
  BY <1>1, <1>3 DEF onboardingVars
<1>4. QED BY <1>2, <1>3

(* An organization is stored with everything that belongs to it, or not at *)
(* all.                                                                    *)
THEOREM OrganizationsAreWhole == Spec => []N!NoHalfOrganization
<1>1. WholeInv => N!NoHalfOrganization
  BY DEF WholeInv
<1>2. WholeInv /\ [Next]_vars => WholeInv'
  BY OtherPartsStep, WholeNext
<1>3. QED BY WholeInit, <1>1, <1>2, PTL DEF Spec

-----------------------------------------------------------------------------
(* Job cards that are spoken.  A vehicle that is known has a customer, and *)
(* who is on the way to one has found, or created, what comes before:      *)
(* accounts and profiles stay, the profile deleted perhaps.                *)
IsCustomer(p) == p \in accounts /\ profiles[p] # "none"

Found(q) ==
  LET p == draft[q].phone
      v == draft[q].registrationNumber
  IN  /\ intakeReq[q] \in {"account", "createAccount"} => p \in Phones
      /\ intakeReq[q] \in {"profile", "createProfile"} => p \in accounts
      /\ intakeReq[q] \in {"link", "createVehicle"} => IsCustomer(p)
      /\ intakeReq[q] = "record" => vehicles[v] # None

CustomerInv ==
  /\ DraftInv
  /\ accounts \subseteq Phones /\ profiles = [p \in Phones |-> profiles[p]]
  /\ vehicles = [v \in Plates |-> vehicles[v]]
  /\ \A q \in Requests : Found(q)
  /\ \A v \in Plates : vehicles[v] # None => IsCustomer(vehicles[v])
  /\ \A v \in Plates : jobs[v] > 0 => vehicles[v] # None

LEMMA IntakeConstants == None \notin Phones /\ None \notin Plates
  BY WorkspaceConstants DEF T!VoiceConstants

LEMMA CustomerInit == Init => CustomerInv
<1> SUFFICES ASSUME Init PROVE CustomerInv
  OBVIOUS
<1>1. T!Init
  BY DEF Init
<1>2. QED BY <1>1, DraftInit DEF T!Init, CustomerInv, Found

(* A confirmation that goes on has a plate.                                *)
LEMMA Confirmed ==
  ASSUME DraftInv, NEW q \in Requests, T!EvaluateDraft(draft[q]) = {}
  PROVE  /\ draft[q].registrationNumber \in Plates
         /\ draft[q].phone \in Phones \cup {"garbled"}
<1>1. draft[q] \in T!Draft
  BY DEF DraftInv
<1>2. draft[q]["phone"] # None /\ draft[q]["registrationNumber"] # None
  BY DEF T!EvaluateDraft, T!Fields
<1>3. draft[q].phone # None /\ draft[q].registrationNumber # None
  BY <1>2
<1>4. QED BY <1>1, <1>3 DEF T!Draft

(* What is there stays there, and the request q has found what it needs.   *)
LEMMA CustomerStep ==
  ASSUME CustomerInv, DraftInv', NEW q \in Requests,
         accounts \subseteq accounts', accounts' \subseteq Phones,
         profiles' = [p \in Phones |-> profiles'[p]],
         \A p \in Phones : profiles[p] # "none" => profiles'[p] # "none",
         vehicles' = [v \in Plates |-> vehicles'[v]],
         \A v \in Plates : \/ vehicles'[v] = vehicles[v]
                           \/ vehicles[v] = None /\ IsCustomer(vehicles'[v]),
         \A v \in Plates : jobs'[v] > 0 => jobs[v] > 0 \/ vehicles[v] # None,
         NEW pc, intakeReq' = [intakeReq EXCEPT ![q] = pc],
         \A p \in Requests \ {q} : draft'[p] = draft[p],
         Found(q)'
  PROVE  CustomerInv'
<1>1. ASSUME NEW p, IsCustomer(p) PROVE IsCustomer(p)'
  BY <1>1 DEF IsCustomer, CustomerInv
<1>2. ASSUME NEW p \in Requests PROVE Found(p)'
  <2>1. CASE p = q
    BY <2>1
  <2>2. CASE p # q
    <3>1. intakeReq'[p] = intakeReq[p] /\ draft'[p] = draft[p] /\ Found(p)
      BY <2>2 DEF CustomerInv
    <3>2. PICK phone, plate : phone = draft[p].phone /\ plate = draft[p].registrationNumber
      OBVIOUS
    <3>3. IsCustomer(phone) => IsCustomer(phone)'
      BY <1>1
    <3>4. intakeReq[p] = "record" => plate \in Plates
      BY <3>2, Confirmed DEF CustomerInv, DraftInv
    <3>5. QED BY <3>1, <3>2, <3>3, <3>4, IntakeConstants DEF Found, IsCustomer, CustomerInv
  <2>3. QED BY <2>1, <2>2
<1>3. ASSUME NEW v \in Plates, vehicles'[v] # None PROVE IsCustomer(vehicles[v])'
  <2>1. PICK p : p = vehicles'[v]
    OBVIOUS
  <2>2. IsCustomer(p)
    BY <1>3, <2>1 DEF CustomerInv
  <2>3. IsCustomer(p)'
    BY <1>1, <2>2
  <2>4. QED BY <2>1, <2>3 DEF IsCustomer
<1>4. ASSUME NEW v \in Plates, jobs'[v] > 0 PROVE vehicles'[v] # None
  BY <1>4, IntakeConstants DEF CustomerInv, IsCustomer
<1>5. QED BY <1>2, <1>3, <1>4 DEF CustomerInv

LEMMA CustomerFinds ==
  ASSUME CustomerInv, DraftInv', NEW q \in Requests,
         \/ T!Confirm(q) \/ T!FindAccount(q) \/ T!FindProfile(q) \/ T!LinkProfile(q)
         \/ T!Abort(q) \/ T!Parse(q)
  PROVE  CustomerInv'
<1>1. /\ UNCHANGED <<accounts, profiles, vehicles, jobs>>
      /\ \A p \in Requests \ {q} : draft'[p] = draft[p]
  BY DEF T!Confirm, T!FindAccount, T!FindProfile, T!LinkProfile, T!Abort, T!Parse, T!customers,
         CustomerInv, DraftInv
<1>2. /\ DraftInv /\ Found(q) /\ accounts \subseteq Phones
      /\ intakeReq = [p \in Requests |-> intakeReq[p]]
  BY DEF CustomerInv, DraftInv
<1>3. PICK pc : intakeReq' = [intakeReq EXCEPT ![q] = pc] /\ Found(q)'
  <2>1. CASE T!Parse(q)
    <3>1. intakeReq' = [intakeReq EXCEPT ![q] = "idle"]
      BY <1>2, <2>1 DEF T!Parse
    <3>2. QED BY <1>2, <3>1 DEF Found
  <2>2. CASE T!Abort(q)
    <3>1. intakeReq' = [intakeReq EXCEPT ![q] = "idle"]
      BY <2>2 DEF T!Abort, T!Goto
    <3>2. QED BY <1>2, <3>1 DEF Found
  <2>3. CASE T!Confirm(q)
    <3>1. /\ draft[q].phone \in Phones \cup {"garbled"} /\ draft' = draft
      BY <1>2, <2>3, Confirmed DEF T!Confirm
    <3>2. CASE vehicles[draft[q].registrationNumber] # None
      <4>1. intakeReq' = [intakeReq EXCEPT ![q] = "record"]
        BY <2>3, <3>2 DEF T!Confirm, T!Goto
      <4>2. QED BY <1>1, <1>2, <3>1, <3>2, <4>1 DEF Found
    <3>3. CASE vehicles[draft[q].registrationNumber] = None
      <4>1. intakeReq' = [intakeReq EXCEPT ![q] = "account"] /\ draft[q].phone # "garbled"
        BY <2>3, <3>3 DEF T!Confirm, T!Goto
      <4>2. QED BY <1>1, <1>2, <3>1, <4>1 DEF Found
    <3>4. QED BY <3>2, <3>3
  <2>4. CASE T!FindAccount(q)
    <3>1. PICK pc : /\ intakeReq' = [intakeReq EXCEPT ![q] = pc] /\ draft' = draft
                    /\ pc = IF draft[q].phone \in accounts THEN "profile" ELSE "createAccount"
      BY <2>4 DEF T!FindAccount, T!Goto
    <3>2. draft[q].phone \in Phones
      BY <1>2, <2>4 DEF T!FindAccount, T!At, Found
    <3>3. Found(q)'
      BY <1>1, <1>2, <3>1, <3>2 DEF Found
    <3>4. QED BY <3>1, <3>3
  <2>5. CASE T!FindProfile(q)
    <3>1. PICK pc : /\ intakeReq' = [intakeReq EXCEPT ![q] = pc] /\ draft' = draft
                    /\ pc = IF profiles[draft[q].phone] = "live" THEN "createVehicle"
                            ELSE "createProfile"
      BY <2>5 DEF T!FindProfile, T!Goto
    <3>2. draft[q].phone \in accounts
      BY <1>2, <2>5 DEF T!FindProfile, T!At, Found
    <3>3. Found(q)'
      BY <1>1, <1>2, <3>1, <3>2 DEF Found, IsCustomer
    <3>4. QED BY <3>1, <3>3
  <2>6. CASE T!LinkProfile(q)
    <3>1. intakeReq' = [intakeReq EXCEPT ![q] = "createVehicle"] /\ draft' = draft
      BY <2>6 DEF T!LinkProfile, T!Goto
    <3>2. IsCustomer(draft[q].phone)
      BY <1>2, <2>6 DEF T!LinkProfile, T!At, Found
    <3>3. Found(q)'
      BY <1>1, <1>2, <3>1, <3>2 DEF Found, IsCustomer
    <3>4. QED BY <3>1, <3>3
  <2>7. QED BY <2>1, <2>2, <2>3, <2>4, <2>5, <2>6
<1>4. QED BY <1>1, <1>2, <1>3, CustomerStep DEF CustomerInv

LEMMA CustomerCreates ==
  ASSUME CustomerInv, DraftInv', NEW q \in Requests,
         T!CreateAccount(q) \/ T!CreateProfile(q) \/ T!CreateVehicle(q) \/ T!CreateRecord(q)
  PROVE  CustomerInv'
<1>1. /\ DraftInv /\ Found(q) /\ accounts \subseteq Phones
      /\ intakeReq = [p \in Requests |-> intakeReq[p]]
      /\ profiles = [p \in Phones |-> profiles[p]] /\ vehicles = [v \in Plates |-> vehicles[v]]
      /\ draft \in [Requests -> T!Draft] /\ jobs \in [Plates -> Nat]
  BY DEF CustomerInv, DraftInv
<1>2. PICK phone, plate : phone = draft[q].phone /\ plate = draft[q].registrationNumber
  OBVIOUS
<1>3. plate \in Plates
  <2>1. intakeReq[q] # "idle"
    BY DEF T!CreateAccount, T!CreateProfile, T!CreateVehicle, T!CreateRecord, T!At
  <2>2. QED BY <1>1, <1>2, <2>1, Confirmed DEF DraftInv
<1>4. CASE T!CreateAccount(q)
  <2>1. /\ accounts' = accounts \cup {phone} /\ intakeReq[q] = "createAccount"
        /\ UNCHANGED <<draft, profiles, vehicles, jobs>>
    BY <1>2, <1>4 DEF T!CreateAccount, T!At
  <2>2. PICK pc : /\ intakeReq' = [intakeReq EXCEPT ![q] = pc]
                  /\ pc = IF phone \in accounts THEN "idle" ELSE "profile"
    BY <1>2, <1>4 DEF T!CreateAccount, T!Goto
  <2>3. phone \in Phones
    BY <1>1, <1>2, <2>1 DEF Found
  <2>4. Found(q)'
    BY <1>1, <1>2, <2>1, <2>2 DEF Found
  <2>5. QED BY <1>1, <2>1, <2>2, <2>3, <2>4, CustomerStep
<1>5. CASE T!CreateProfile(q)
  <2>1. intakeReq[q] = "createProfile" /\ UNCHANGED <<draft, accounts, vehicles, jobs>>
    BY <1>5 DEF T!CreateProfile, T!At
  <2>2. phone \in accounts /\ phone \in Phones
    BY <1>1, <1>2, <2>1 DEF Found
  <2>3. CASE profiles[phone] = "none"
    <3>1. /\ profiles' = [profiles EXCEPT ![phone] = "live"]
          /\ intakeReq' = [intakeReq EXCEPT ![q] = "link"]
      BY <1>2, <1>5, <2>3 DEF T!CreateProfile, T!Goto
    <3>2. /\ profiles' = [p \in Phones |-> profiles'[p]] /\ profiles'[phone] = "live"
          /\ \A p \in Phones : profiles[p] # "none" => profiles'[p] # "none"
      BY <1>1, <2>2, <3>1
    <3>3. Found(q)'
      BY <1>1, <1>2, <2>1, <2>2, <3>1, <3>2 DEF Found, IsCustomer
    <3>4. QED BY <1>1, <2>1, <3>1, <3>2, <3>3, CustomerStep
  <2>4. CASE profiles[phone] # "none"
    <3>1. profiles' = profiles /\ intakeReq' = [intakeReq EXCEPT ![q] = "idle"]
      BY <1>2, <1>5, <2>4 DEF T!CreateProfile, T!Goto
    <3>2. Found(q)'
      BY <1>1, <3>1 DEF Found
    <3>3. QED BY <1>1, <2>1, <3>1, <3>2, CustomerStep
  <2>5. QED BY <2>3, <2>4
<1>6. CASE T!CreateVehicle(q)
  <2>1. intakeReq[q] = "createVehicle" /\ UNCHANGED <<draft, accounts, profiles, jobs>>
    BY <1>6 DEF T!CreateVehicle, T!At, T!customers
  <2>2. IsCustomer(phone) /\ phone # None
    BY <1>1, <1>2, <2>1, IntakeConstants DEF Found, IsCustomer
  <2>3. CASE vehicles[plate] = None
    <3>1. /\ vehicles' = [vehicles EXCEPT ![plate] = phone]
          /\ intakeReq' = [intakeReq EXCEPT ![q] = "record"]
      BY <1>2, <1>6, <2>3 DEF T!CreateVehicle, T!Goto
    <3>2. /\ vehicles' = [v \in Plates |-> vehicles'[v]] /\ vehicles'[plate] = phone
          /\ \A v \in Plates \ {plate} : vehicles'[v] = vehicles[v]
      BY <1>1, <1>3, <3>1
    <3>3. Found(q)'
      BY <1>1, <1>2, <2>1, <2>2, <3>1, <3>2 DEF Found
    <3>4. QED BY <1>1, <2>1, <2>2, <2>3, <3>1, <3>2, <3>3, CustomerStep
  <2>4. CASE vehicles[plate] # None
    <3>1. vehicles' = vehicles /\ intakeReq' = [intakeReq EXCEPT ![q] = "idle"]
      BY <1>2, <1>6, <2>4 DEF T!CreateVehicle, T!Goto
    <3>2. Found(q)'
      BY <1>1, <3>1 DEF Found
    <3>3. QED BY <1>1, <2>1, <3>1, <3>2, CustomerStep
  <2>5. QED BY <2>3, <2>4
<1>7. CASE T!CreateRecord(q)
  <2>1. /\ intakeReq[q] = "record" /\ intakeReq' = [intakeReq EXCEPT ![q] = "idle"]
        /\ UNCHANGED <<accounts, profiles, vehicles>>
        /\ jobs' = [jobs EXCEPT ![plate] = @ + 1]
    BY <1>2, <1>7 DEF T!CreateRecord, T!At, T!Goto, T!customers
  <2>2. \A p \in Requests \ {q} : draft'[p] = draft[p]
    BY <1>1, <1>7 DEF T!CreateRecord
  <2>3. vehicles[plate] # None
    BY <1>1, <1>2, <2>1 DEF Found
  <2>4. \A v \in Plates : jobs'[v] > 0 => jobs[v] > 0 \/ vehicles[v] # None
    BY <1>1, <1>3, <2>1, <2>3
  <2>5. Found(q)'
    BY <1>1, <2>1 DEF Found
  <2>6. QED BY <1>1, <2>1, <2>2, <2>4, <2>5, CustomerStep
<1>8. QED BY <1>4, <1>5, <1>6, <1>7

LEMMA CustomerElsewhere ==
  ASSUME CustomerInv, DraftInv', NEW p \in Phones, T!Register(p) \/ T!DeleteProfile(p)
  PROVE  CustomerInv'
<1>1. /\ accounts \subseteq accounts' /\ accounts' \subseteq Phones
      /\ profiles' = [o \in Phones |-> profiles'[o]]
      /\ \A o \in Phones : profiles[o] # "none" => profiles'[o] # "none"
      /\ UNCHANGED <<draft, intakeReq, vehicles, jobs>>
  BY DEF T!Register, T!DeleteProfile, CustomerInv
<1>2. ASSUME NEW o, IsCustomer(o) PROVE IsCustomer(o)'
  BY <1>1, <1>2 DEF IsCustomer, CustomerInv
<1>3. ASSUME NEW q \in Requests PROVE Found(q)'
  <2>1. Found(q) /\ (IsCustomer(draft[q].phone) => IsCustomer(draft[q].phone)')
    BY <1>1, <1>2 DEF CustomerInv, IsCustomer
  <2>2. QED BY <1>1, <2>1 DEF Found, IsCustomer
<1>4. ASSUME NEW v \in Plates, vehicles[v] # None PROVE IsCustomer(vehicles[v])'
  BY <1>1, <1>4 DEF CustomerInv, IsCustomer
<1>5. QED BY <1>1, <1>3, <1>4 DEF CustomerInv

LEMMA CustomerNext ==
  ASSUME CustomerInv, T!Next \/ UNCHANGED intakeVars
  PROVE  CustomerInv'
<1>1. CASE T!Next
  <2>1. DraftInv'
    BY <1>1, DraftNext DEF CustomerInv, DraftStep
  <2>2. QED BY <1>1, <2>1, CustomerFinds, CustomerCreates, CustomerElsewhere DEF T!Next
<1>2. CASE UNCHANGED intakeVars
  BY <1>2 DEF intakeVars, CustomerInv, DraftInv, Found, IsCustomer
<1>3. QED BY <1>1, <1>2

(* Every job card is for a vehicle whose owner has an account and a        *)
(* profile, wherever attempts stopped and however they overlapped.         *)
THEOREM JobsHaveCustomers == Spec => []T!JobHasCustomer
<1>1. CustomerInv => T!JobHasCustomer
  BY DEF CustomerInv, IsCustomer, T!JobHasCustomer
<1>2. CustomerInv /\ [Next]_vars => CustomerInv'
  BY PartsStep, CustomerNext
<1>3. QED BY CustomerInit, <1>1, <1>2, PTL DEF Spec

-----------------------------------------------------------------------------
(* Invitations.  Who saves the last use of one has granted before, or      *)
(* found that there was nothing to grant.  While no two acceptances have   *)
(* overlapped and none was lost after it granted, one is at work at most,  *)
(* and has granted only if it is about to save the last use; once it is    *)
(* through the invitation is not pending any more.                         *)
WholeInvite(d) ==
  d = [type |-> d.type, status |-> d.status, useCount |-> d.useCount, maxUses |-> d.maxUses,
       past |-> d.past, reminderCount |-> d.reminderCount, isDeleted |-> d.isDeleted]

Settled(i) == grants[i] > 0 \/ i \in spared

AcceptCall(r) ==
  /\ r = [pc |-> r.pc, invitation |-> r.invitation, useCount |-> r.useCount, last |-> r.last]
  /\ r.pc \in {"idle", "grant", "accept"}
  /\ r.pc # "idle" => r.invitation \in Invites
  /\ r.pc = "grant" => r.last
  /\ r.pc = "accept" /\ r.last => Settled(r.invitation)

Granting(r, i) == r.pc \in {"grant", "accept"} /\ r.invitation = i

GrantedOf(i) ==
  /\ inv[i].status = "accepted" => Settled(i)
  /\ i \notin muddled =>
       /\ grants[i] <= 1
       /\ \A p, q \in Requests : Granting(acceptReq[p], i) /\ Granting(acceptReq[q], i) => p = q
       /\ \A q \in Requests : Granting(acceptReq[q], i) =>
            \/ grants[i] = 0
            \/ acceptReq[q].pc = "accept" /\ acceptReq[q].last
       /\ \/ grants[i] = 0 \/ inv[i].status \notin {"pending", "absent"}
          \/ \E q \in Requests : Granting(acceptReq[q], i)

InviteInv ==
  /\ inv = [i \in Invites |-> inv[i]] /\ \A i \in Invites : WholeInvite(inv[i])
  /\ acceptReq = [q \in Requests |-> acceptReq[q]]
  /\ grants \in [Invites -> Nat]
  /\ \A q \in Requests : AcceptCall(acceptReq[q])
  /\ \A i \in Invites : GrantedOf(i)

LEMMA InviteIdle == AcceptCall(I!Idle) /\ I!Idle.pc = "idle"
  BY DEF AcceptCall, I!Idle

LEMMA InviteInit == Init => InviteInv
<1> SUFFICES ASSUME Init PROVE InviteInv
  OBVIOUS
<1>1. I!Init
  BY DEF Init
<1>2. WholeInvite(I!NoInvitation) /\ I!NoInvitation.status = "absent"
  BY DEF WholeInvite, I!NoInvitation
<1>3. QED BY <1>1, <1>2, InviteIdle DEF I!Init, InviteInv, GrantedOf, Granting

LEMMA AcceptingOf ==
  ASSUME NEW i
  PROVE  \A q \in Requests : q \in I!Accepting(i) <=> Granting(acceptReq[q], i)
  BY DEF I!Accepting, Granting

(* An invitation is saved by somebody who does not accept it.              *)
LEMMA InviteSaved ==
  ASSUME InviteInv, NEW i \in Invites, NEW d, WholeInvite(d), inv' = [inv EXCEPT ![i] = d],
         UNCHANGED <<acceptReq, grants, spared, muddled>>,
         d.status = "accepted" => inv[i].status = "accepted",
         d.status \in {"pending", "absent"} => inv[i].status \in {"pending", "absent"}
  PROVE  InviteInv'
<1>1. /\ inv' = [j \in Invites |-> inv'[j]]
      /\ \A j \in Invites : inv'[j] = IF j = i THEN d ELSE inv[j]
  BY DEF InviteInv
<1>2. ASSUME NEW j \in Invites PROVE GrantedOf(j)'
  BY <1>1 DEF InviteInv, GrantedOf, Granting, Settled
<1>3. \A q \in Requests : AcceptCall(acceptReq[q])'
  BY DEF InviteInv, AcceptCall, Settled
<1>4. QED BY <1>1, <1>2, <1>3 DEF InviteInv, WholeInvite

LEMMA InviteChanges ==
  ASSUME InviteInv, NEW i \in Invites,
         \/ \E n \in 1..MaxUses : I!Create(i, n)
         \/ I!Revoke(i) \/ I!Update(i) \/ I!SendReminder(i) \/ I!Delete(i) \/ I!Expire(i)
  PROVE  InviteInv'
<1>1. PICK d : d = inv[i] /\ WholeInvite(d)
  BY DEF InviteInv
<1>2. inv = [j \in Invites |-> inv[j]] /\ UNCHANGED <<acceptReq, grants, spared, muddled>>
  BY DEF InviteInv, I!Create, I!Revoke, I!Update, I!SendReminder, I!Delete, I!Expire
<1>3. ASSUME NEW n \in 1..MaxUses, I!Create(i, n) PROVE InviteInv'
  <2>1. PICK t, x : /\ x = [I!NoInvitation EXCEPT !.type = t, !.status = "pending", !.maxUses = n]
                    /\ inv' = [inv EXCEPT ![i] = x]
    BY <1>3 DEF I!Create
  <2>2. WholeInvite(x) /\ x.status = "pending"
    BY <2>1 DEF I!NoInvitation, WholeInvite
  <2>3. inv' = [inv EXCEPT ![i] = x] /\ d.status = "absent"
    BY <1>1, <1>3, <2>1 DEF I!Create
  <2>4. QED BY <1>1, <1>2, <2>2, <2>3, InviteSaved
<1>4. CASE I!Revoke(i)
  <2>1. PICK x : x = [d EXCEPT !.status = "revoked"]
    OBVIOUS
  <2>2. WholeInvite(x) /\ x.status = "revoked"
    BY <1>1, <2>1 DEF WholeInvite
  <2>3. inv' = [inv EXCEPT ![i] = x]
    BY <1>1, <1>2, <1>4, <2>1 DEF I!Revoke
  <2>4. QED BY <1>1, <1>2, <2>2, <2>3, InviteSaved
<1>5. CASE I!Update(i)
  <2>1. PICK n \in 1..MaxUses : inv' = [inv EXCEPT ![i].maxUses = n, ![i].past = FALSE]
    BY <1>5 DEF I!Update
  <2>2. PICK x : x = [d EXCEPT !.maxUses = n, !.past = FALSE]
    OBVIOUS
  <2>3. WholeInvite(x) /\ x.status = d.status
    BY <1>1, <2>2 DEF WholeInvite
  <2>4. inv' = [inv EXCEPT ![i] = x]
    BY <1>1, <1>2, <2>1, <2>2 DEF WholeInvite
  <2>5. QED BY <1>1, <1>2, <2>3, <2>4, InviteSaved
<1>6. CASE I!SendReminder(i)
  <2>1. PICK status : status = I!OnSave(d)
    OBVIOUS
  <2>2. PICK n : inv' = [inv EXCEPT ![i].reminderCount = n, ![i].status = status]
    <3>1. inv' = [inv EXCEPT ![i].reminderCount = @ + 1, ![i].status = status]
      BY <1>1, <1>6, <2>1 DEF I!SendReminder
    <3>2. inv' = [inv EXCEPT ![i].reminderCount = d.reminderCount + 1, ![i].status = status]
      BY <1>1, <1>2, <3>1
    <3>3. QED BY <3>2
  <2>3. PICK x : x = [d EXCEPT !.reminderCount = n, !.status = status]
    OBVIOUS
  <2>4. WholeInvite(x) /\ x.status = status
    BY <1>1, <2>3 DEF WholeInvite
  <2>5. inv' = [inv EXCEPT ![i] = x]
    BY <1>1, <1>2, <2>2, <2>3 DEF WholeInvite
  <2>6. status \in {d.status, "expired", "maxed_out"}
    BY <2>1 DEF I!OnSave
  <2>7. QED BY <1>1, <1>2, <2>4, <2>5, <2>6, InviteSaved
<1>7. CASE I!Delete(i)
  <2>1. PICK x : x = [d EXCEPT !.isDeleted = TRUE]
    OBVIOUS
  <2>2. WholeInvite(x) /\ x.status = d.status
    BY <1>1, <2>1 DEF WholeInvite
  <2>3. inv' = [inv EXCEPT ![i] = x]
    BY <1>1, <1>2, <1>7, <2>1 DEF I!Delete
  <2>4. QED BY <1>1, <1>2, <2>2, <2>3, InviteSaved
<1>8. CASE I!Expire(i)
  <2>1. PICK x : x = [d EXCEPT !.past = TRUE]
    OBVIOUS
  <2>2. WholeInvite(x) /\ x.status = d.status
    BY <1>1, <2>1 DEF WholeInvite
  <2>3. inv' = [inv EXCEPT ![i] = x]
    BY <1>1, <1>2, <1>8, <2>1 DEF I!Expire
  <2>4. QED BY <1>1, <1>2, <2>2, <2>3, InviteSaved
<1>9. QED BY <1>3, <1>4, <1>5, <1>6, <1>7, <1>8

LEMMA InviteRemoves ==
  ASSUME InviteInv, NEW i \in Invites, I!Remove(i)
  PROVE  InviteInv'
<1>1. \A q \in Requests : ~Granting(acceptReq[q], i)
  BY AcceptingOf DEF I!Remove
<1>2. WholeInvite(I!NoInvitation) /\ I!NoInvitation.status = "absent"
  BY DEF WholeInvite, I!NoInvitation
<1>3. /\ inv' = [inv EXCEPT ![i] = I!NoInvitation] /\ grants' = [grants EXCEPT ![i] = 0]
      /\ spared' = spared \ {i} /\ muddled' = muddled \ {i} /\ acceptReq' = acceptReq
  BY DEF I!Remove
<1>4. /\ inv' = [j \in Invites |-> inv'[j]] /\ inv'[i] = I!NoInvitation
      /\ grants' \in [Invites -> Nat] /\ grants'[i] = 0
      /\ \A j \in Invites \ {i} : inv'[j] = inv[j] /\ grants'[j] = grants[j]
  BY <1>3 DEF InviteInv
<1>5. ASSUME NEW q \in Requests PROVE AcceptCall(acceptReq[q])'
  <2>1. AcceptCall(acceptReq[q]) /\ ~Granting(acceptReq[q], i)
    BY <1>1 DEF InviteInv
  <2>2. acceptReq[q].pc \in {"grant", "accept"} =>
          acceptReq[q].invitation \in Invites \ {i}
    BY <2>1 DEF AcceptCall, Granting
  <2>3. \A j \in Invites \ {i} : Settled(j)' <=> Settled(j)
    BY <1>3, <1>4 DEF Settled
  <2>4. QED BY <1>3, <2>1, <2>2, <2>3 DEF AcceptCall
<1>6. ASSUME NEW j \in Invites PROVE GrantedOf(j)'
  <2>1. CASE j = i
    BY <1>1, <1>2, <1>3, <1>4, <2>1 DEF GrantedOf, Granting
  <2>2. CASE j # i
    <3>1. /\ inv'[j] = inv[j] /\ grants'[j] = grants[j]
          /\ Settled(j)' <=> Settled(j)
          /\ j \in muddled' <=> j \in muddled
      BY <1>3, <1>4, <2>2 DEF Settled
    <3>2. QED BY <1>3, <3>1 DEF InviteInv, GrantedOf, Granting
  <2>3. QED BY <2>1, <2>2
<1>7. \A j \in Invites : WholeInvite(inv'[j])
  BY <1>2, <1>4 DEF InviteInv
<1>8. QED BY <1>3, <1>4, <1>5, <1>6, <1>7 DEF InviteInv, WholeInvite

(* An acceptance goes on: that of another invitation is not affected.      *)
LEMMA InviteAccepts ==
  ASSUME InviteInv, NEW q \in Requests, NEW i \in Invites, NEW x,
         acceptReq' = [acceptReq EXCEPT ![q] = x], AcceptCall(x)',
         acceptReq[q].pc # "idle" => acceptReq[q].invitation = i,
         x.pc # "idle" => x.invitation = i,
         inv' = [j \in Invites |-> inv'[j]], \A j \in Invites : WholeInvite(inv'[j]),
         grants' \in [Invites -> Nat], grants'[i] >= grants[i],
         \A j \in Invites \ {i} : /\ inv'[j] = inv[j] /\ grants'[j] = grants[j]
                                  /\ (j \in muddled' <=> j \in muddled),
         \A j \in Invites : j \in spared => j \in spared',
         \A j \in Invites \ {i} : j \in spared' => j \in spared,
         GrantedOf(i)'
  PROVE  InviteInv'
<1>1. /\ acceptReq' = [p \in Requests |-> acceptReq'[p]] /\ acceptReq'[q] = x
      /\ \A p \in Requests \ {q} : acceptReq'[p] = acceptReq[p]
  BY DEF InviteInv
<1>2. grants \in [Invites -> Nat]
  BY DEF InviteInv
<1>3. ASSUME NEW p \in Requests PROVE AcceptCall(acceptReq[p])'
  <2>1. CASE p = q
    BY <1>1, <2>1 DEF AcceptCall
  <2>2. CASE p # q
    <3>1. acceptReq'[p] = acceptReq[p] /\ AcceptCall(acceptReq[p])
      BY <1>1, <2>2 DEF InviteInv
    <3>2. \A j \in Invites : Settled(j) => Settled(j)'
      BY <1>2 DEF Settled
    <3>3. QED BY <3>1, <3>2 DEF AcceptCall
  <2>3. QED BY <2>1, <2>2
<1>4. ASSUME NEW j \in Invites PROVE GrantedOf(j)'
  <2>1. CASE j # i
    <3>1. ~Granting(acceptReq[q], j) /\ ~Granting(acceptReq'[q], j)
      BY <1>1, <2>1 DEF Granting
    <3>2. \A p \in Requests : /\ Granting(acceptReq'[p], j) <=> Granting(acceptReq[p], j)
                              /\ Granting(acceptReq[p], j) => acceptReq'[p] = acceptReq[p]
      BY <1>1, <3>1
    <3>3. GrantedOf(j) /\ inv'[j] = inv[j] /\ grants'[j] = grants[j]
            /\ (j \in muddled' <=> j \in muddled) /\ (Settled(j) => Settled(j)')
      BY <2>1 DEF InviteInv, Settled
    <3>4. QED BY <3>2, <3>3 DEF GrantedOf, Granting
  <2>2. QED BY <2>1
<1>5. QED BY <1>1, <1>3, <1>4 DEF InviteInv, WholeInvite

LEMMA InviteStarts ==
  ASSUME InviteInv, NEW q \in Requests, NEW i \in Invites, I!Accept(q, i)
  PROVE  InviteInv'
<1>1. PICK last : last = (inv[i].useCount + 1 >= inv[i].maxUses)
  OBVIOUS
<1>2. PICK pc : pc = IF last THEN "grant" ELSE "accept"
  OBVIOUS
<1>3. PICK x : x = [I!Idle EXCEPT !.pc = pc, !.invitation = i, !.useCount = inv[i].useCount,
                                  !.last = last]
  OBVIOUS
<1>4. x = [pc |-> pc, invitation |-> i, useCount |-> inv[i].useCount, last |-> last]
  BY <1>3 DEF I!Idle
<1>5. /\ acceptReq' = [acceptReq EXCEPT ![q] = x] /\ acceptReq[q].pc = "idle"
      /\ inv' = inv /\ grants' = grants /\ spared' = spared /\ inv[i].status = "pending"
      /\ muddled' = IF I!Accepting(i) # {} THEN muddled \cup {i} ELSE muddled
  BY <1>1, <1>2, <1>3 DEF I!Accept, I!Start, I!IsValid
<1>6. AcceptCall(x)'
  BY <1>2, <1>4 DEF AcceptCall
<1>7. /\ acceptReq'[q] = x
      /\ \A p \in Requests \ {q} : acceptReq'[p] = acceptReq[p]
  BY <1>5 DEF InviteInv
<1>8. GrantedOf(i) /\ grants[i] \in Nat
  BY DEF InviteInv
<1>9. GrantedOf(i)'
  <2>1. CASE i \in muddled'
    BY <1>5, <1>8, <2>1 DEF GrantedOf, Settled
  <2>2. CASE i \notin muddled'
    <3>1. \A p \in Requests : ~Granting(acceptReq[p], i)
      BY <1>5, <2>2, AcceptingOf
    <3>2. grants[i] = 0
      BY <1>5, <1>8, <2>2, <3>1 DEF GrantedOf
    <3>3. \A p \in Requests : Granting(acceptReq'[p], i) => p = q
      BY <1>7, <3>1
    <3>4. QED BY <1>5, <3>2, <3>3 DEF GrantedOf, Granting
  <2>3. QED BY <2>1, <2>2
<1>10. /\ inv' = [j \in Invites |-> inv'[j]] /\ \A j \in Invites : WholeInvite(inv'[j])
       /\ grants' \in [Invites -> Nat] /\ grants'[i] >= grants[i]
       /\ \A j \in Invites \ {i} : /\ inv'[j] = inv[j] /\ grants'[j] = grants[j]
                                    /\ (j \in muddled' <=> j \in muddled)
  BY <1>5, <1>8 DEF InviteInv
<1>11. QED BY <1>4, <1>5, <1>6, <1>9, <1>10, InviteAccepts

LEMMA InviteGrants ==
  ASSUME InviteInv, NEW q \in Requests, I!GrantAccess(q)
  PROVE  InviteInv'
<1>1. PICK r : r = acceptReq[q] /\ AcceptCall(r) /\ r.pc = "grant"
  BY DEF InviteInv, I!GrantAccess
<1>2. PICK i \in Invites : i = r.invitation
  BY <1>1 DEF AcceptCall
<1>3. PICK n \in Nat : /\ grants' = [grants EXCEPT ![i] = n] /\ n >= grants[i]
                       /\ grants[i] = 0 => n <= 1
                       /\ Settled(i)'
                       /\ \A j \in Invites : j \in spared => j \in spared'
                       /\ \A j \in Invites \ {i} : j \in spared' => j \in spared
  <2>1. PICK g \in Nat : g = grants[i]
    BY DEF InviteInv
  <2>2. PICK n : n = IF g < 2 THEN g + 1 ELSE g
    OBVIOUS
  <2>3. \/ grants' = [grants EXCEPT ![i] = n] /\ spared' = spared
        \/ grants' = grants /\ spared' = spared \cup {i}
    BY <1>1, <1>2, <2>1, <2>2 DEF I!GrantAccess, InviteInv
  <2>4. n \in Nat /\ n > 0 /\ n >= g /\ (g = 0 => n <= 1)
    BY <2>2
  <2>5. CASE grants' = [grants EXCEPT ![i] = n] /\ spared' = spared
    BY <2>1, <2>4, <2>5 DEF InviteInv, Settled
  <2>6. CASE grants' = grants /\ spared' = spared \cup {i}
    <3>1. grants' = [grants EXCEPT ![i] = g]
      BY <2>1, <2>6 DEF InviteInv
    <3>2. i \in spared'
      BY <2>6
    <3>3. Settled(i)'
      BY <3>2 DEF Settled
    <3>4. g >= g /\ (g = 0 => g <= 1)
      BY <2>1
    <3>5. QED BY <2>1, <2>6, <3>1, <3>3, <3>4
  <2>7. QED BY <2>3, <2>5, <2>6
<1>4. PICK x : x = [r EXCEPT !.pc = "accept"]
  OBVIOUS
<1>5. x = [pc |-> "accept", invitation |-> i, useCount |-> r.useCount, last |-> r.last] /\ r.last
  BY <1>1, <1>2, <1>4 DEF AcceptCall
<1>6. acceptReq' = [acceptReq EXCEPT ![q] = x] /\ inv' = inv /\ muddled' = muddled
  BY <1>1, <1>4 DEF I!GrantAccess, InviteInv
<1>7. /\ grants' \in [Invites -> Nat] /\ grants'[i] = n
      /\ \A j \in Invites \ {i} : grants'[j] = grants[j]
  BY <1>3 DEF InviteInv
<1>8. AcceptCall(x)'
  BY <1>3, <1>5, <1>7 DEF AcceptCall
<1>9. /\ acceptReq'[q] = x
      /\ \A p \in Requests \ {q} : acceptReq'[p] = acceptReq[p]
  BY <1>6 DEF InviteInv
<1>10. GrantedOf(i)'
  <2>1. GrantedOf(i) /\ Granting(r, i)
    BY <1>1, <1>2 DEF InviteInv, Granting
  <2>2. i \notin muddled => n <= 1 /\ \A p \in Requests : Granting(acceptReq[p], i) => p = q
    BY <1>1, <1>3, <2>1 DEF GrantedOf
  <2>3. i \notin muddled => \A p \in Requests : Granting(acceptReq'[p], i) => p = q
    BY <1>9, <2>2
  <2>4. Granting(acceptReq'[q], i) /\ acceptReq'[q].pc = "accept" /\ acceptReq'[q].last
    BY <1>5, <1>9 DEF Granting
  <2>5. i \notin muddled => grants'[i] <= 1
    BY <1>3, <1>7, <2>2
  <2>6. i \notin muddled => \A p, s \in Requests :
          Granting(acceptReq'[p], i) /\ Granting(acceptReq'[s], i) => p = s
    BY <2>3
  <2>7. i \notin muddled => \A p \in Requests : Granting(acceptReq'[p], i) =>
          acceptReq'[p].pc = "accept" /\ acceptReq'[p].last
    BY <2>3, <2>4
  <2>8. QED BY <1>3, <1>6, <2>4, <2>5, <2>6, <2>7 DEF GrantedOf, Granting
<1>11. /\ inv' = [j \in Invites |-> inv'[j]] /\ \A j \in Invites : WholeInvite(inv'[j])
       /\ grants'[i] >= grants[i]
       /\ \A j \in Invites \ {i} : /\ inv'[j] = inv[j] /\ grants'[j] = grants[j]
                                    /\ (j \in muddled' <=> j \in muddled)
  BY <1>3, <1>6, <1>7 DEF InviteInv
<1>12. acceptReq[q].invitation = i
  BY <1>1, <1>2
<1>13. QED BY <1>3, <1>5, <1>6, <1>7, <1>8, <1>10, <1>11, <1>12, InviteAccepts

LEMMA InviteEnds ==
  ASSUME InviteInv, NEW q \in Requests, I!SaveAccepted(q) \/ I!Abort(q)
  PROVE  InviteInv'
<1>1. PICK r : r = acceptReq[q] /\ AcceptCall(r) /\ r.pc # "idle"
  BY DEF InviteInv, I!SaveAccepted, I!Abort
<1>2. PICK i \in Invites : i = r.invitation
  BY <1>1 DEF AcceptCall
<1>3. acceptReq' = [acceptReq EXCEPT ![q] = I!Idle] /\ grants' = grants /\ spared' = spared
  BY DEF I!SaveAccepted, I!Abort, I!Answer
<1>4. /\ acceptReq'[q] = I!Idle
      /\ \A p \in Requests \ {q} : acceptReq'[p] = acceptReq[p]
  BY <1>3 DEF InviteInv
<1>5. GrantedOf(i) /\ grants[i] \in Nat /\ grants \in [Invites -> Nat]
  BY DEF InviteInv
<1>6. \A p \in Requests : Granting(acceptReq'[p], i) => p # q /\ acceptReq'[p] = acceptReq[p]
  BY <1>4, InviteIdle DEF Granting
<1>7. AcceptCall(I!Idle)'
  BY InviteIdle DEF AcceptCall
<1>8. CASE I!SaveAccepted(q)
  <2>1. r.pc = "accept" /\ muddled' = muddled /\ Granting(r, i)
    BY <1>1, <1>2, <1>8 DEF I!SaveAccepted, Granting
  <2>2. PICK w : w = inv[i] /\ WholeInvite(w)
    BY DEF InviteInv
  <2>3. PICK d : d = [w EXCEPT !.useCount = r.useCount + 1]
    OBVIOUS
  <2>4. WholeInvite(d) /\ d.status = w.status
    BY <2>2, <2>3 DEF WholeInvite
  <2>5. PICK status : status = IF r.last THEN "accepted"
                               ELSE IF d.status = "pending" THEN I!OnSave(d) ELSE d.status
    OBVIOUS
  <2>6. PICK x : x = [d EXCEPT !.status = status]
    OBVIOUS
  <2>7. WholeInvite(x) /\ x.status = status
    BY <2>4, <2>6 DEF WholeInvite
  <2>8. inv' = [inv EXCEPT ![i] = x]
    BY <1>1, <1>2, <1>8, <2>2, <2>3, <2>4, <2>5, <2>6 DEF I!SaveAccepted
  <2>9. /\ inv' = [j \in Invites |-> inv'[j]] /\ inv'[i] = x
        /\ \A j \in Invites \ {i} : inv'[j] = inv[j]
    BY <2>8 DEF InviteInv
  <2>10. r.last => status = "accepted" /\ Settled(i)
    BY <1>1, <1>2, <2>1, <2>5 DEF AcceptCall
  <2>11. ~r.last => status \in {w.status, "expired", "maxed_out", "pending"}
    BY <2>4, <2>5 DEF I!OnSave
  <2>12. GrantedOf(i)'
    <3>1. status = "accepted" => Settled(i)'
      BY <1>3, <1>5, <2>2, <2>10, <2>11 DEF GrantedOf, Settled
    <3>2. i \notin muddled => /\ \A p \in Requests : ~Granting(acceptReq'[p], i)
                              /\ r.last \/ grants[i] = 0
      BY <1>1, <1>5, <1>6, <2>1 DEF GrantedOf
    <3>3. QED BY <1>3, <1>5, <2>1, <2>7, <2>9, <2>10, <3>1, <3>2 DEF GrantedOf, Granting
  <2>13. \A j \in Invites : WholeInvite(inv'[j])
    BY <2>7, <2>9 DEF InviteInv
  <2>14. /\ grants' \in [Invites -> Nat] /\ grants'[i] >= grants[i]
         /\ \A j \in Invites \ {i} : /\ inv'[j] = inv[j] /\ grants'[j] = grants[j]
                                      /\ (j \in muddled' <=> j \in muddled)
    BY <1>3, <1>5, <2>1, <2>9
  <2>15. acceptReq[q].invitation = i
    BY <1>1, <1>2
  <2>16. QED
    BY <1>3, <1>7, <2>9, <2>12, <2>13, <2>14, <2>15, InviteIdle, InviteAccepts
<1>9. CASE I!Abort(q)
  <2>1. /\ inv' = inv
        /\ muddled' = IF r.pc = "accept" THEN muddled \cup {i} ELSE muddled
    BY <1>1, <1>2, <1>9 DEF I!Abort
  <2>2. GrantedOf(i)'
    <3>1. CASE i \in muddled'
      BY <1>3, <1>5, <2>1, <3>1 DEF GrantedOf, Settled
    <3>2. CASE i \notin muddled'
      <4>1. r.pc # "accept" /\ i \notin muddled
        BY <2>1, <3>2
      <4>2. grants[i] = 0
        <5>1. CASE Granting(r, i)
          BY <1>1, <1>5, <4>1, <5>1 DEF GrantedOf
        <5>2. CASE ~Granting(r, i)
          BY <1>1, <1>2, <4>1, <5>2 DEF Granting, AcceptCall
        <5>3. QED BY <5>1, <5>2
      <4>3. QED BY <1>3, <1>5, <1>6, <2>1, <4>1, <4>2 DEF GrantedOf, Granting, Settled
    <3>3. QED BY <3>1, <3>2
  <2>3. QED BY <1>1, <1>2, <1>3, <1>5, <1>7, <2>1, <2>2, InviteIdle, InviteAccepts DEF InviteInv
<1>10. QED BY <1>8, <1>9

LEMMA InviteNext ==
  ASSUME InviteInv, I!Next \/ UNCHANGED invitationsVars
  PROVE  InviteInv'
<1>1. CASE I!Next
  BY <1>1, InviteStarts, InviteGrants, InviteEnds, InviteChanges, InviteRemoves DEF I!Next
<1>2. CASE UNCHANGED invitationsVars
  BY <1>2 DEF invitationsVars, InviteInv, WholeInvite, AcceptCall, GrantedOf, Granting, Settled
<1>3. QED BY <1>1, <1>2

(* An invitation that says "accepted" has granted its access before, or    *)
(* found that there was nothing to grant.                                  *)
THEOREM AcceptedAfterGrant == Spec => []I!GrantBeforeAccepted
<1>1. InviteInv => I!GrantBeforeAccepted
  BY DEF InviteInv, GrantedOf, Settled, I!GrantBeforeAccepted
<1>2. InviteInv /\ [Next]_vars => InviteInv'
  BY OtherPartsStep, InviteNext
<1>3. QED BY InviteInit, <1>1, <1>2, PTL DEF Spec

(* An invitation grants its access once, unless two acceptances overlapped *)
(* or one was lost after it granted.                                       *)
THEOREM GrantsOnce == Spec => []I!GrantedOnce
<1>1. InviteInv => I!GrantedOnce
  BY DEF InviteInv, GrantedOf, I!GrantedOnce
<1>2. InviteInv /\ [Next]_vars => InviteInv'
  BY OtherPartsStep, InviteNext
<1>3. QED BY InviteInit, <1>1, <1>2, PTL DEF Spec

-----------------------------------------------------------------------------
(* What takes several steps is not left half done, in every part that has  *)
(* several.                                                                *)
THEOREM NothingLeftHalfDone == Spec => []NothingHalfDone
<1>1. /\ D!LiveHasFile /\ N!NoHalfOrganization /\ T!JobHasCustomer
      /\ I!GrantBeforeAccepted /\ I!GrantedOnce
      => NothingHalfDone
  BY DEF NothingHalfDone
<1>2. QED
  BY <1>1, LiveDocumentsHaveFiles, OrganizationsAreWhole, JobsHaveCustomers, AcceptedAfterGrant,
     GrantsOnce, PTL
=============================================================================
