------------------------------ MODULE RedisStore ------------------------------
(***************************************************************************)
(* What the queue, the cache and the lists of revoked tokens expect of a   *)
(* Redis server, as far as src/config, src/services and src/utils use it:  *)
(* one string with its time to live, one hash and one sorted set, which    *)
(* never share a key in this program.  The numbers that writing commands   *)
(* return are read by nobody and left out.                                 *)
(***************************************************************************)
EXTENDS Integers, Sequences, FiniteSets

CONSTANTS Texts, Fields, Members, MaxTtl, MaxScore, MaxReach, None

VARIABLES string, hash, zset, answer  \* the last call and what it returned

vars == <<string, hash, zset, answer>>

Scores   == 0..MaxScore
Reach    == -MaxReach..MaxReach
Forever  == MaxTtl + 1
NoString == [value |-> None, left |-> 0]

Answer(call, a) == answer' = [call |-> call, is |-> a]
Silent == Answer(<<"write">>, None)

-----------------------------------------------------------------------------
(* SET, SETEX: without a time to live the string stays. *)
Set(v, left) ==
  /\ string' = [value |-> v, left |-> left]
  /\ Silent /\ UNCHANGED <<hash, zset>>

Get == Answer(<<"get">>, string.value) /\ UNCHANGED <<string, hash, zset>>

(* A live key is listed; whoever asks deletes what he gets, so it does not *)
(* matter whether one that has expired is listed too.                      *)
Keys ==
  /\ \E n \in (IF string = NoString THEN 0 ELSE 1)..1 : Answer(<<"keys">>, n)
  /\ UNCHANGED <<string, hash, zset>>

DelString == string' = NoString /\ Silent /\ UNCHANGED <<hash, zset>>

-----------------------------------------------------------------------------
HSet(values) ==
  /\ hash' = [f \in Fields |-> IF values[f] = None THEN hash[f] ELSE values[f]]
  /\ Silent /\ UNCHANGED <<string, zset>>

HGetAll == Answer(<<"hgetall">>, hash) /\ UNCHANGED <<string, hash, zset>>

DelHash == hash' = [f \in Fields |-> None] /\ Silent /\ UNCHANGED <<string, zset>>

-----------------------------------------------------------------------------
In == {m \in Members : zset[m] # None}

(* Equal scores may come in any order. *)
Listings(S) ==
  {l \in [1..Cardinality(S) -> S] :
     /\ \A m \in S : \E i \in DOMAIN l : l[i] = m
     /\ \A i, j \in DOMAIN l : i < j => zset[l[i]] <= zset[l[j]]}

(* ZRANGE: from rank `start` to rank `stop`, both included; a negative one *)
(* counts from the end, and ranks that do not exist are left out.          *)
Ranks(n, start, stop) ==
  LET At(r) == IF r < 0 THEN n + r ELSE r
  IN  {r \in 0..(n - 1) : At(start) <= r /\ r <= At(stop)}

Range(l, start, stop) ==
  LET R == Ranks(Len(l), start, stop)
  IN  IF R = {} THEN << >>
      ELSE LET first == CHOOSE r \in R : \A o \in R : r <= o
           IN  [i \in 1..Cardinality(R) |-> l[first + i]]

Write(f) == zset' = f /\ Silent /\ UNCHANGED <<string, hash>>
Read(call, a) == Answer(call, a) /\ UNCHANGED <<string, hash, zset>>

ZAdd(m, s) == Write([zset EXCEPT ![m] = s])
ZRem(m)    == Write([zset EXCEPT ![m] = None])
DelSortedSet == Write([m \in Members |-> None])

ZRange(start, stop) ==
  \E l \in Listings(In) : Read(<<"zrange", start, stop>>, Range(l, start, stop))
ZCard == Read(<<"zcard">>, Cardinality(In))

ZRangeByScore(min, max) ==
  \E l \in Listings({m \in In : min <= zset[m] /\ zset[m] <= max}) :
    Read(<<"zrangebyscore", min, max>>, l)

ZRemRangeByScore(min, max) ==
  Write([m \in Members |->
           IF m \in In /\ min <= zset[m] /\ zset[m] <= max THEN None ELSE zset[m]])

-----------------------------------------------------------------------------
Tick ==
  /\ string.left \in 1..MaxTtl
  /\ string' = IF string.left = 1 THEN NoString ELSE [string EXCEPT !.left = @ - 1]
  /\ UNCHANGED <<hash, zset, answer>>

Init ==
  /\ string = NoString
  /\ hash = [f \in Fields |-> None]
  /\ zset = [m \in Members |-> None]
  /\ answer = [call |-> <<"write">>, is |-> None]

Next ==
  \/ DelString \/ Get \/ Keys
  \/ \E v \in Texts, left \in 1..Forever : Set(v, left)
  \/ \E values \in [Fields -> Texts \cup {None}] : HSet(values)
  \/ HGetAll \/ DelHash
  \/ \E m \in Members, s \in Scores : ZAdd(m, s)
  \/ \E m \in Members : ZRem(m)
  \/ DelSortedSet
  \/ \E start, stop \in Reach : ZRange(start, stop)
  \/ ZCard
  \/ \E min, max \in Scores : ZRangeByScore(min, max) \/ ZRemRangeByScore(min, max)
  \/ Tick

Spec == Init /\ [][Next]_vars
=============================================================================
