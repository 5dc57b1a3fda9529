------------------------------ MODULE Reviews -------------------------------
(***************************************************************************)
(* The reviews of one service center and the rating it caches of them, as  *)
(* src/services/review.service.ts and src/models/Review.ts keep them.      *)
(***************************************************************************)
EXTENDS Integers, FiniteSets, FiniteSetsExt

CONSTANTS
  Accounts,   \* who may review the center
  Requests,   \* slots for concurrent requests
  MaxRating,  \* ratings are 1..MaxRating
  None

ReviewConstants == MaxRating \in Nat \ {0} /\ None \notin Accounts

VARIABLES
  reviews,  \* the rating each account has given, 0 for none
  stats,    \* stats.averageRating, in hundredths, and stats.totalReviews
  req,      \* the requests in progress
  stale     \* history: the last summary failed or overlapped another review

vars == <<reviews, stats, req, stale>>

-----------------------------------------------------------------------------
(* Types *)

Stats == [averageRating : 0..100 * MaxRating, totalReviews : 0..Cardinality(Accounts)]

Request ==
  [pc : {"idle", "upsert", "summary", "store"},
   account : Accounts \cup {None}, rating : 0..MaxRating, held : Stats]

NoStats == [averageRating |-> 0, totalReviews |-> 0]
Idle == [pc |-> "idle", account |-> None, rating |-> 0, held |-> NoStats]

TypeOK ==
  /\ reviews \in [Accounts -> 0..MaxRating]
  /\ stats \in Stats
  /\ req \in [Requests -> Request]
  /\ stale \in BOOLEAN

Reviewing == {q \in Requests : req[q].pc \in {"summary", "store"}}

-----------------------------------------------------------------------------
(* The center is there when the request begins. *)
AddReview(q, a, rating) ==
  /\ req[q].pc = "idle"
  /\ req' = [req EXCEPT ![q] = [Idle EXCEPT !.pc = "upsert", !.account = a, !.rating = rating]]
  /\ UNCHANGED <<reviews, stats, stale>>

(* Rounded to two decimals. *)
RatingSummary(given) ==
  LET rated == {a \in Accounts : given[a] > 0}
      n == Cardinality(rated)
  IN  IF n = 0 THEN NoStats
      ELSE [averageRating |-> (200 * MapThenSumSet(LAMBDA a : given[a], rated) + n) \div (2 * n),
            totalReviews |-> n]

GetRatingSummary == RatingSummary(reviews)

(* Mutant of UpsertForCenter: the figures are read before the review is    *)
(* written.                                                                *)
SummaryFirst(q) ==
  /\ req[q].pc = "upsert"
  /\ reviews' = [reviews EXCEPT ![req[q].account] = req[q].rating]
  /\ req' = [req EXCEPT ![q].pc = "store", ![q].held = GetRatingSummary]
  /\ stale' = (Reviewing # {})
  /\ UNCHANGED stats

(* upsertForCenter(): an account has one review of a center. *)
UpsertForCenter(q) ==
  /\ req[q].pc = "upsert"
  /\ reviews' = [reviews EXCEPT ![req[q].account] = req[q].rating]
  /\ req' = [req EXCEPT ![q].pc = "summary"]
  /\ stale' = (stale \/ Reviewing # {})
  /\ UNCHANGED stats

(* syncCenterRating(): who is alone with it leaves it right. *)
Summarise(q) ==
  /\ req[q].pc = "summary"
  /\ req' = [req EXCEPT ![q].pc = "store", ![q].held = GetRatingSummary]
  /\ stale' = (stale /\ Reviewing # {q})
  /\ UNCHANGED <<reviews, stats>>

SyncCenterRating(q) ==
  /\ req[q].pc = "store"
  /\ stats' = req[q].held
  /\ req' = [req EXCEPT ![q] = Idle]
  /\ UNCHANGED <<reviews, stale>>

(* A call rejects, or the process dies. *)
Abort(q) ==
  /\ req[q].pc # "idle"
  /\ stale' = (stale \/ q \in Reviewing)
  /\ req' = [req EXCEPT ![q] = Idle]
  /\ UNCHANGED <<reviews, stats>>

-----------------------------------------------------------------------------
Init ==
  /\ reviews = [a \in Accounts |-> 0] /\ stats = NoStats
  /\ req = [q \in Requests |-> Idle] /\ stale = FALSE

Next ==
  \E q \in Requests :
    \/ \E a \in Accounts, r \in 1..MaxRating : AddReview(q, a, r)
    \/ UpsertForCenter(q) \/ Summarise(q) \/ SyncCenterRating(q)
    \/ Abort(q)

Spec == Init /\ [][Next]_vars

-----------------------------------------------------------------------------
(* Properties *)

(* The cached rating is the rounded mean of the reviews and their number,  *)
(* once nobody is reviewing.  Two summaries at once may leave it wrong, as *)
(* a failure may; the next review by itself corrects it ("can't drift from *)
(* the reviews it summarises").                                            *)
RatingExact ==
  Reviewing = {} /\ ~stale => stats = GetRatingSummary
=============================================================================
