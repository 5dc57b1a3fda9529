----------------------------- MODULE InMemoryRedis ----------------------------
(***************************************************************************)
(* The stand-in for Redis that a process falls back to when it reaches no  *)
(* server: class InMemoryRedis of src/config/redis.ts, three maps in       *)
(* memory.  Every method runs to its end before the next one starts, so    *)
(* each is one step.  No key is in two maps, and no method but del() and   *)
(* keys() looks at two, so a behaviour uses one of them.                   *)
(***************************************************************************)
EXTENDS Integers, Sequences, FiniteSets

CONSTANTS
  Texts,     \* values
  Fields,    \* fields of a hash, as numbers
  Members,   \* members of a sorted set
  MaxTtl,    \* times to live are 1..MaxTtl ticks, or none at all
  MaxScore,  \* scores are 0..MaxScore
  MaxReach,  \* the bounds of zrange() are -MaxReach..MaxReach
  None

StandInConstants ==
  /\ MaxTtl \in Nat \ {0} /\ MaxScore \in Nat /\ MaxReach \in Nat
  /\ None \notin Texts \cup Members \cup (0..MaxScore)

VARIABLES
  kind,     \* which of the maps is used
  strings,  \* the entry of one key, and how long before it expires
  hashes,   \* the fields of another
  zsets,    \* the members of a third, in the order they were added
  answer    \* the last call and what it returned

vars == <<kind, strings, hashes, zsets, answer>>

-----------------------------------------------------------------------------
(* Types *)

Scores  == 0..MaxScore
Reach   == -MaxReach..MaxReach
Forever == MaxTtl + 1

(* left = 0 with a value: expired, and still in the map. *)
NoEntry == [value |-> None, left |-> 0]

Calls ==
  {<<"write">>, <<"get">>, <<"keys">>, <<"hgetall">>, <<"zcard">>}
    \cup ({"zrange"} \X Reach \X Reach) \cup ({"zrangebyscore"} \X Scores \X Scores)

TypeOK ==
  /\ kind \in {"strings", "hashes", "zsets"}
  /\ strings \in [value : Texts \cup {None}, left : 0..Forever]
  /\ hashes \in [Fields -> Texts \cup {None}]
  /\ zsets \in Seq([member : Members, score : Scores])
  /\ \A i, j \in DOMAIN zsets : zsets[i].member = zsets[j].member => i = j
  /\ answer.call \in Calls
  /\ answer.is \in CASE answer.call[1] = "write"   -> {None}
                     [] answer.call[1] = "get"     -> Texts \cup {None}
                     [] answer.call[1] = "keys"    -> 0..1
                     [] answer.call[1] = "hgetall" -> [Fields -> Texts \cup {None}]
                     [] answer.call[1] = "zcard"   -> 0..Cardinality(Members)
                     [] OTHER                      -> Seq(Members)

Answer(call, a) == answer' = [call |-> call, is |-> a]
Silent == Answer(<<"write">>, None)

-----------------------------------------------------------------------------
(* Strings *)

IsExpired(entry) == entry.left = 0

(* Mutant of Get: what has expired is removed, and returned once more. *)
GetOnceMore ==
  /\ Answer(<<"get">>, strings.value)
  /\ strings' = IF IsExpired(strings) THEN NoEntry ELSE strings
  /\ UNCHANGED <<hashes, zsets>>

(* An entry that has expired is removed when it is next asked for. *)
Get ==
  /\ Answer(<<"get">>, IF IsExpired(strings) THEN None ELSE strings.value)
  /\ strings' = IF IsExpired(strings) THEN NoEntry ELSE strings
  /\ UNCHANGED <<hashes, zsets>>

Set(v, left) ==
  /\ strings' = [value |-> v, left |-> left]
  /\ Silent /\ UNCHANGED <<hashes, zsets>>

(* keys() looks at the map alone. *)
Keys ==
  /\ Answer(<<"keys">>, IF strings = NoEntry THEN 0 ELSE 1)
  /\ UNCHANGED <<strings, hashes, zsets>>

DelString == strings' = NoEntry /\ Silent /\ UNCHANGED <<hashes, zsets>>

-----------------------------------------------------------------------------
(* Hashes *)

HSet(values) ==
  /\ hashes' = [f \in Fields |-> IF values[f] = None THEN hashes[f] ELSE values[f]]
  /\ Silent /\ UNCHANGED <<strings, zsets>>

HGetAll == Answer(<<"hgetall">>, hashes) /\ UNCHANGED <<strings, hashes, zsets>>

DelHash == hashes' = [f \in Fields |-> None] /\ Silent /\ UNCHANGED <<strings, zsets>>

-----------------------------------------------------------------------------
(* Sorted sets *)

(* A Map keeps the entries in the order in which they were added: those at *)
(* the positions in I, when the others are deleted.                        *)
Remaining(I) ==
  [k \in 1..Cardinality(I) |->
     zsets[CHOOSE i \in I : Cardinality({j \in I : j < i}) = k - 1]]

(* Array.sort() keeps the order of equal scores. *)
Before(i, j) == \/ zsets[i].score < zsets[j].score
                \/ zsets[i].score = zsets[j].score /\ i < j

(* The members of the entries at the positions in I, sorted.               *)
SortedMembers(I) ==
  [k \in 1..Cardinality(I) |->
     zsets[CHOOSE i \in I : Cardinality({j \in I : Before(j, i)}) = k - 1].member]

(* Where a range starts and ends, counted from 0.                          *)
From(n, start) == IF start < 0 THEN IF n + start < 0 THEN 0 ELSE n + start
                  ELSE IF start < n THEN start ELSE n
To(n, stop) == IF stop < 0 THEN n + stop ELSE IF stop < n - 1 THEN stop ELSE n - 1

(* Mutant of SliceRange: the end is left out, as in Array.slice(). *)
SliceOpen(l, start, stop) ==
  LET s == From(Len(l), start)
      e == To(Len(l), stop)
  IN  IF e < s \/ Len(l) = 0 THEN << >> ELSE [k \in 1..(e - s) |-> l[s + k]]

SliceRange(l, start, stop) ==
  LET s == From(Len(l), start)
      e == To(Len(l), stop)
  IN  IF e < s \/ Len(l) = 0 THEN << >> ELSE [k \in 1..(e - s + 1) |-> l[s + k]]

Within(min, max) == {i \in DOMAIN zsets : min <= zsets[i].score /\ zsets[i].score <= max}

Write(z) == zsets' = z /\ Silent /\ UNCHANGED <<strings, hashes>>
Read(call, a) == Answer(call, a) /\ UNCHANGED <<strings, hashes, zsets>>

(* Map.set() leaves a member that is there where it is. *)
ZAdd(m, s) ==
  Write(IF \E i \in DOMAIN zsets : zsets[i].member = m
        THEN [i \in DOMAIN zsets |->
                IF zsets[i].member = m THEN [zsets[i] EXCEPT !.score = s] ELSE zsets[i]]
        ELSE Append(zsets, [member |-> m, score |-> s]))

ZRem(m) == Write(Remaining({i \in DOMAIN zsets : zsets[i].member # m}))

DelSortedSet == Write(<< >>)

ZRange(start, stop) ==
  Read(<<"zrange", start, stop>>, SliceRange(SortedMembers(DOMAIN zsets), start, stop))

ZCard == Read(<<"zcard">>, Len(zsets))

ZRangeByScore(min, max) ==
  Read(<<"zrangebyscore", min, max>>, SortedMembers(Within(min, max)))

ZRemRangeByScore(min, max) == Write(Remaining(DOMAIN zsets \ Within(min, max)))

-----------------------------------------------------------------------------
Tick ==
  /\ strings.left \in 1..MaxTtl
  /\ strings' = [strings EXCEPT !.left = @ - 1]
  /\ UNCHANGED <<hashes, zsets, answer>>

Init ==
  /\ strings = NoEntry
  /\ hashes = [f \in Fields |-> None]
  /\ zsets = << >>
  /\ answer = [call |-> <<"write">>, is |-> None]
  /\ kind \in {"strings", "hashes", "zsets"}

StringCall ==
  \/ \E v \in Texts, left \in 1..Forever : Set(v, left)
  \/ Get \/ Keys \/ DelString
  \/ Tick

HashCall ==
  \/ \E values \in [Fields -> Texts \cup {None}] : HSet(values)
  \/ HGetAll \/ DelHash

SortedSetCall ==
  \/ \E m \in Members, s \in Scores : ZAdd(m, s)
  \/ \E m \in Members : ZRem(m)
  \/ DelSortedSet
  \/ \E start, stop \in Reach : ZRange(start, stop)
  \/ ZCard
  \/ \E min, max \in Scores : ZRangeByScore(min, max) \/ ZRemRangeByScore(min, max)

Next ==
  /\ \/ kind = "strings" /\ StringCall
     \/ kind = "hashes" /\ HashCall
     \/ kind = "zsets" /\ SortedSetCall
  /\ UNCHANGED kind

Spec == Init /\ [][Next]_vars

-----------------------------------------------------------------------------
(* Properties *)

ScoreOf(m) ==
  IF \E i \in DOMAIN zsets : zsets[i].member = m
  THEN zsets[CHOOSE i \in DOMAIN zsets : zsets[i].member = m].score
  ELSE None

Server == INSTANCE RedisStore WITH
  string <- IF IsExpired(strings) THEN NoEntry ELSE strings,
  hash   <- hashes,
  zset   <- [m \in Members |-> ScoreOf(m)]

(* Callers cannot tell the stand-in from a server: an entry is gone when   *)
(* its time is up though it is still in the map, a member is there once    *)
(* with its last score, and ranges are cut where Redis cuts them.          *)
ActsLikeRedis == Server!Spec
=============================================================================
