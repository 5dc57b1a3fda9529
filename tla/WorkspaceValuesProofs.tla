------------------------ MODULE WorkspaceValuesProofs ------------------------
(***************************************************************************)
(* Proofs about what the parts of the workspace hold and answer: values of *)
(* their types, and what a Redis server would answer.                      *)
(***************************************************************************)
EXTENDS WorkspaceCopiesProofs

(* The stand-in for Redis.  Its refinement needs the types of its maps and *)
(* that no member is in the list twice; the rest is what the calls do.     *)
StandInInv ==
  /\ strings \in [value : Things \cup {None}, left : 0..K!Forever]
  /\ hashes \in [HashFields -> Things \cup {None}]
  /\ zsets \in Seq([member : Things, score : K!Scores])
  /\ \A i, j \in DOMAIN zsets : zsets[i].member = zsets[j].member => i = j

LEMMA StandInNumbers ==
  MaxTtl \in Nat \ {0} /\ MaxScore \in Nat /\ MaxReach \in Nat /\ None \notin Things \cup (0..MaxScore)
  BY WorkspaceConstants DEF K!StandInConstants

LEMMA StandInInit ==
  ASSUME K!Init
  PROVE  StandInInv /\ K!Server!Init
<1>1. strings = [value |-> None, left |-> 0] /\ 0 \in 0..K!Forever
  BY StandInNumbers DEF K!Init, K!NoEntry, K!Forever
<1>2. zsets = << >> /\ hashes = [f \in HashFields |-> None]
  BY DEF K!Init
<1>3. StandInInv
  BY <1>1, <1>2 DEF StandInInv
<1>4. [m \in Things |-> K!ScoreOf(m)] = [m \in Things |-> None]
  BY <1>2 DEF K!ScoreOf
<1>5. (IF K!IsExpired(strings) THEN K!NoEntry ELSE strings) = K!Server!NoString
  BY <1>1 DEF K!IsExpired, K!NoEntry, K!Server!NoString
<1>6. K!Server!Init
  BY <1>2, <1>4, <1>5 DEF K!Init, K!Server!Init
<1>7. QED BY <1>3, <1>6

(* The string: what a caller sees of it is gone when its time is up.       *)
Seen == IF K!IsExpired(strings) THEN K!NoEntry ELSE strings

LEMMA StringStep ==
  ASSUME StandInInv, K!StringCall
  PROVE  StandInInv' /\ (K!Server!Next \/ UNCHANGED K!Server!vars)
<1>0. /\ strings \in [value : Things \cup {None}, left : 0..K!Forever]
      /\ K!Forever = MaxTtl + 1 /\ MaxTtl \in Nat /\ 0 \in 0..K!Forever
      /\ None \notin Things
  BY StandInNumbers DEF StandInInv, K!Forever
<1>1. UNCHANGED <<hashes, zsets>>
  BY DEF K!StringCall, K!Set, K!Get, K!Keys, K!DelString, K!Tick
<1>2. strings' \in [value : Things \cup {None}, left : 0..K!Forever]
  <2>1. ASSUME NEW v \in Things, NEW left \in 1..K!Forever, K!Set(v, left) PROVE strings' = [value |-> v, left |-> left]
    BY <2>1 DEF K!Set
  <2>2. K!NoEntry \in [value : Things \cup {None}, left : 0..K!Forever]
    BY <1>0 DEF K!NoEntry
  <2>3. CASE K!Get \/ K!Keys \/ K!DelString
    BY <1>0, <2>2, <2>3 DEF K!Get, K!Keys, K!DelString
  <2>4. CASE K!Tick
    BY <1>0, <2>4 DEF K!Tick
  <2>5. QED BY <1>0, <2>1, <2>3, <2>4 DEF K!StringCall
<1>3. StandInInv'
  BY <1>1, <1>2 DEF StandInInv
<1>4. [m \in Things |-> K!ScoreOf(m)]' = [m \in Things |-> K!ScoreOf(m)]
  BY <1>1 DEF K!ScoreOf
<1>5. ASSUME NEW v \in Things, NEW left \in 1..K!Forever, K!Set(v, left) PROVE K!Server!Set(v, left)
  <2>1. strings' = [value |-> v, left |-> left] /\ ~K!IsExpired(strings')
    BY <1>0, <1>5 DEF K!Set, K!IsExpired
  <2>2. Seen' = [value |-> v, left |-> left]
    BY <2>1 DEF Seen, K!IsExpired
  <2>3. QED BY <1>1, <1>4, <1>5, <2>2 DEF K!Set, K!Silent, K!Answer, Seen, K!Server!Set, K!Server!Silent, K!Server!Answer
<1>6. CASE K!Get
  <2>1. Seen' = Seen /\ Seen.value = IF K!IsExpired(strings) THEN None ELSE strings.value
    BY <1>6, <1>0 DEF K!Get, Seen, K!IsExpired, K!NoEntry
  <2>2. K!Server!Get
    BY <1>1, <1>4, <1>6, <2>1 DEF K!Get, K!Answer, Seen, K!Server!Get, K!Server!Answer
  <2>3. QED BY <1>3, <2>2 DEF K!Server!Next
<1>7. CASE K!Keys
  <2>1. Seen' = Seen /\ (IF strings = K!NoEntry THEN 0 ELSE 1) \in (IF Seen = K!Server!NoString THEN 0 ELSE 1)..1
    BY <1>7, <1>0 DEF K!Keys, Seen, K!IsExpired, K!NoEntry, K!Server!NoString
  <2>2. K!Server!Keys
    BY <1>1, <1>4, <1>7, <2>1 DEF K!Keys, K!Answer, Seen, K!Server!Keys, K!Server!Answer
  <2>3. QED BY <1>3, <2>2 DEF K!Server!Next
<1>8. CASE K!DelString
  <2>1. Seen' = K!Server!NoString
    BY <1>8 DEF K!DelString, Seen, K!IsExpired, K!NoEntry, K!Server!NoString
  <2>2. K!Server!DelString
    BY <1>1, <1>4, <1>8, <2>1 DEF K!DelString, K!Silent, K!Answer, Seen, K!Server!DelString, K!Server!Silent, K!Server!Answer
  <2>3. QED BY <1>3, <2>2 DEF K!Server!Next
<1>9. CASE K!Tick
  <2>1. Seen = strings /\ Seen.left \in 1..MaxTtl
    BY <1>9, <1>0 DEF K!Tick, Seen, K!IsExpired
  <2>2. Seen' = IF Seen.left = 1 THEN K!Server!NoString ELSE [Seen EXCEPT !.left = @ - 1]
    <3>1. strings'.left = strings.left - 1
      BY <1>9, <1>0 DEF K!Tick
    <3>2. CASE strings.left = 1
      BY <2>1, <3>1, <3>2 DEF Seen, K!IsExpired, K!NoEntry, K!Server!NoString
    <3>3. CASE strings.left # 1
      BY <1>9, <1>0, <2>1, <3>1, <3>3 DEF Seen, K!IsExpired, K!Tick
    <3>4. QED BY <2>1, <3>2, <3>3
  <2>3. K!Server!Tick
    BY <1>1, <1>4, <1>9, <2>1, <2>2 DEF K!Tick, Seen, K!Server!Tick
  <2>4. QED BY <1>3, <2>3 DEF K!Server!Next
<1>10. QED BY <1>3, <1>5, <1>6, <1>7, <1>8, <1>9 DEF K!StringCall, K!Server!Next, K!Forever, K!Server!Forever

LEMMA HashStep ==
  ASSUME StandInInv, K!HashCall
  PROVE  StandInInv' /\ K!Server!Next
<1>1. UNCHANGED <<strings, zsets>>
  BY DEF K!HashCall, K!HSet, K!HGetAll, K!DelHash
<1>2. hashes' \in [HashFields -> Things \cup {None}]
  BY DEF StandInInv, K!HashCall, K!HSet, K!HGetAll, K!DelHash
<1>3. StandInInv'
  BY <1>1, <1>2 DEF StandInInv
<1>4. [m \in Things |-> K!ScoreOf(m)]' = [m \in Things |-> K!ScoreOf(m)] /\ Seen' = Seen
  BY <1>1 DEF K!ScoreOf, Seen, K!IsExpired
<1>5. \/ \E values \in [HashFields -> Things \cup {None}] : K!Server!HSet(values)
      \/ K!Server!HGetAll \/ K!Server!DelHash
  BY <1>4 DEF K!HashCall, K!HSet, K!HGetAll, K!DelHash, K!Silent, K!Answer, Seen,
              K!Server!HSet, K!Server!HGetAll, K!Server!DelHash, K!Server!Silent, K!Server!Answer
<1>6. QED BY <1>3, <1>5 DEF K!Server!Next

-----------------------------------------------------------------------------
(* An order of a finite set puts each element where as many come before it *)
(* as its place says.                                                      *)
Orders(Ord, Idx) ==
  /\ \A i \in Idx : <<i, i>> \notin Ord
  /\ \A i, j \in Idx : i # j => <<i, j>> \in Ord \/ <<j, i>> \in Ord
  /\ \A i, j, k \in Idx : <<i, j>> \in Ord /\ <<j, k>> \in Ord => <<i, k>> \in Ord

Below(Ord, Idx, i) == {j \in Idx : <<j, i>> \in Ord}

LEMMA BelowGrows ==
  ASSUME NEW Idx, IsFiniteSet(Idx), NEW Ord, Orders(Ord, Idx), NEW i \in Idx, NEW j \in Idx, <<i, j>> \in Ord
  PROVE  Cardinality(Below(Ord, Idx, i)) < Cardinality(Below(Ord, Idx, j))
<1>1. Below(Ord, Idx, i) \subseteq Below(Ord, Idx, j) /\ Below(Ord, Idx, i) # Below(Ord, Idx, j)
  BY DEF Orders, Below
<1>2. IsFiniteSet(Below(Ord, Idx, i)) /\ IsFiniteSet(Below(Ord, Idx, j))
  BY FS_Subset DEF Below
<1>3. /\ Cardinality(Below(Ord, Idx, i)) \in Nat /\ Cardinality(Below(Ord, Idx, j)) \in Nat
      /\ Cardinality(Below(Ord, Idx, i)) <= Cardinality(Below(Ord, Idx, j))
      /\ Cardinality(Below(Ord, Idx, i)) # Cardinality(Below(Ord, Idx, j))
  BY <1>1, <1>2, FS_CardinalityType, FS_Subset
<1>4. QED BY <1>3

LEMMA PlacesTaken ==
  ASSUME NEW Idx, IsFiniteSet(Idx), NEW Ord, Orders(Ord, Idx)
  PROVE  /\ Cardinality(Idx) \in Nat
         /\ \A i \in Idx : Cardinality(Below(Ord, Idx, i)) + 1 \in 1..Cardinality(Idx)
         /\ \A k \in 1..Cardinality(Idx) : \E i \in Idx : Cardinality(Below(Ord, Idx, i)) = k - 1
<1>1. PICK n \in Nat : n = Cardinality(Idx)
  BY FS_CardinalityType
<1>2. \A i \in Idx : Cardinality(Below(Ord, Idx, i)) + 1 \in 1..n
  <2>1. TAKE i \in Idx
  <2>2. IsFiniteSet(Idx \ {i}) /\ Cardinality(Idx \ {i}) = n - 1
    BY <1>1, FS_RemoveElement
  <2>3. Below(Ord, Idx, i) \subseteq Idx \ {i}
    BY DEF Orders, Below
  <2>4. IsFiniteSet(Below(Ord, Idx, i)) /\ Cardinality(Below(Ord, Idx, i)) <= n - 1
    BY <2>2, <2>3, FS_Subset
  <2>5. Cardinality(Below(Ord, Idx, i)) \in Nat
    BY <2>4, FS_CardinalityType
  <2>6. QED BY <2>4, <2>5
<1>3. PICK f : f = [i \in Idx |-> Cardinality(Below(Ord, Idx, i)) + 1]
  OBVIOUS
<1>4. f \in [Idx -> 1..n]
  BY <1>2, <1>3
<1>5. \A i, j \in Idx : i # j => f[i] # f[j]
  <2>1. TAKE i, j \in Idx
  <2>2. HAVE i # j
  <2>3. f[i] \in 1..n /\ f[j] \in 1..n /\ f[i] = Cardinality(Below(Ord, Idx, i)) + 1 /\ f[j] = Cardinality(Below(Ord, Idx, j)) + 1
    BY <1>3, <1>4
  <2>4. Cardinality(Below(Ord, Idx, i)) # Cardinality(Below(Ord, Idx, j))
    <3>1. /\ Cardinality(Below(Ord, Idx, i)) \in Nat /\ Cardinality(Below(Ord, Idx, j)) \in Nat
      BY FS_Subset, FS_CardinalityType DEF Below
    <3>2. <<i, j>> \in Ord \/ <<j, i>> \in Ord
      BY <2>2 DEF Orders
    <3>3. \/ Cardinality(Below(Ord, Idx, i)) < Cardinality(Below(Ord, Idx, j))
          \/ Cardinality(Below(Ord, Idx, j)) < Cardinality(Below(Ord, Idx, i))
      BY <3>2, BelowGrows
    <3>4. QED BY <3>1, <3>3
  <2>5. Cardinality(Below(Ord, Idx, i)) \in Nat /\ Cardinality(Below(Ord, Idx, j)) \in Nat
    BY FS_Subset, FS_CardinalityType DEF Below
  <2>6. QED BY <2>3, <2>4, <2>5
<1>6. f \in Injection(Idx, 1..n)
  BY <1>4, <1>5 DEF Injection, IsInjective
<1>7. IsFiniteSet(1..n) /\ Cardinality(1..n) = n
  BY FS_Interval
<1>8. f \in Surjection(Idx, 1..n)
  BY <1>1, <1>6, <1>7, FS_Injection
<1>9. \A k \in 1..n : \E i \in Idx : Cardinality(Below(Ord, Idx, i)) = k - 1
  <2>1. TAKE k \in 1..n
  <2>2. PICK i \in Idx : f[i] = k
    BY <1>8 DEF Surjection
  <2>3. Cardinality(Below(Ord, Idx, i)) \in Nat
    BY FS_Subset, FS_CardinalityType DEF Below
  <2>4. QED BY <1>3, <2>2, <2>3
<1>10. QED BY <1>1, <1>2, <1>9

(* Who lists each at its place lists all, in order.                        *)
LEMMA ListedInOrder ==
  ASSUME NEW Idx, IsFiniteSet(Idx), NEW Ord, Orders(Ord, Idx), NEW f,
         \A k \in 1..Cardinality(Idx) : f[k] \in Idx /\ Cardinality(Below(Ord, Idx, f[k])) = k - 1
  PROVE  /\ \A i \in Idx : \E k \in 1..Cardinality(Idx) : f[k] = i
         /\ \A a, b \in 1..Cardinality(Idx) : a < b => f[a] # f[b] /\ <<f[a], f[b]>> \in Ord
<1>0. PICK n \in Nat : n = Cardinality(Idx)
  BY FS_CardinalityType
<1>1. ASSUME NEW i \in Idx, NEW j \in Idx, i # j
      PROVE  \/ Cardinality(Below(Ord, Idx, i)) < Cardinality(Below(Ord, Idx, j)) /\ <<i, j>> \in Ord
             \/ Cardinality(Below(Ord, Idx, j)) < Cardinality(Below(Ord, Idx, i)) /\ <<j, i>> \in Ord
  <2>1. <<i, j>> \in Ord \/ <<j, i>> \in Ord
    BY <1>1 DEF Orders
  <2>2. QED BY <2>1, BelowGrows
<1>2. ASSUME NEW a \in 1..n, NEW b \in 1..n, a < b PROVE f[a] # f[b] /\ <<f[a], f[b]>> \in Ord
  <2>1. PICK x \in Idx : x = f[a] /\ Cardinality(Below(Ord, Idx, x)) = a - 1
    BY <1>0
  <2>2. PICK y \in Idx : y = f[b] /\ Cardinality(Below(Ord, Idx, y)) = b - 1
    BY <1>0
  <2>3. x # y
    BY <1>2, <2>1, <2>2
  <2>4. ~(Cardinality(Below(Ord, Idx, y)) < Cardinality(Below(Ord, Idx, x)))
    BY <1>2, <2>1, <2>2
  <2>5. <<x, y>> \in Ord
    BY <1>1, <2>3, <2>4
  <2>6. QED BY <2>1, <2>2, <2>3, <2>5
<1>3. ASSUME NEW i \in Idx PROVE \E k \in 1..n : f[k] = i
  <2>1. PICK k \in 1..n : k = Cardinality(Below(Ord, Idx, i)) + 1
    BY <1>0, PlacesTaken
  <2>2. Cardinality(Below(Ord, Idx, i)) \in Nat
    BY FS_Subset, FS_CardinalityType DEF Below
  <2>3. f[k] \in Idx /\ Cardinality(Below(Ord, Idx, f[k])) = Cardinality(Below(Ord, Idx, i))
    BY <1>0, <2>1, <2>2
  <2>4. PICK x \in Idx : x = f[k] /\ Cardinality(Below(Ord, Idx, x)) = Cardinality(Below(Ord, Idx, i))
    BY <2>3
  <2>5. x = i
    <3>1. SUFFICES ASSUME x # i PROVE FALSE
      OBVIOUS
    <3>2. \/ Cardinality(Below(Ord, Idx, x)) < Cardinality(Below(Ord, Idx, i))
          \/ Cardinality(Below(Ord, Idx, i)) < Cardinality(Below(Ord, Idx, x))
      BY <1>1, <3>1
    <3>3. QED BY <2>2, <2>4, <3>2
  <2>6. QED BY <2>4, <2>5
<1>4. QED BY <1>0, <1>2, <1>3

LEMMA StandInCounts == \A s : K!Cardinality(s) = Cardinality(s) /\ K!Server!Cardinality(s) = Cardinality(s)
  BY DEF K!Cardinality, K!Server!Cardinality, Cardinality

(* What is left of the map, and what is sorted, list the positions in Idx.   *)
LEMMA RemainingLists ==
  ASSUME StandInInv, NEW Idx \in SUBSET DOMAIN zsets
  PROVE  /\ IsFiniteSet(Idx) /\ Cardinality(Idx) \in Nat
         /\ \E f : /\ f \in [1..Cardinality(Idx) -> Idx]
                   /\ K!Remaining(Idx) = [k \in 1..Cardinality(Idx) |-> zsets[f[k]]]
                   /\ \A i \in Idx : \E k \in 1..Cardinality(Idx) : f[k] = i
                   /\ \A a, b \in 1..Cardinality(Idx) : f[a] = f[b] => a = b
<1>0. PICK n \in Nat : DOMAIN zsets = 1..n
  BY DEF StandInInv
<1>1. IsFiniteSet(Idx) /\ Cardinality(Idx) \in Nat /\ Idx \subseteq Nat
  <2>1. IsFiniteSet(1..n)
    BY FS_Interval
  <2>2. IsFiniteSet(Idx)
    BY <1>0, <2>1, FS_Subset
  <2>3. QED BY <1>0, <2>2, FS_CardinalityType
<1>2. PICK Ord : Ord = {e \in Idx \X Idx : e[1] < e[2]}
  OBVIOUS
<1>3. Orders(Ord, Idx)
  BY <1>1, <1>2 DEF Orders
<1>4. \A i \in Idx : {j \in Idx : j < i} = Below(Ord, Idx, i)
  BY <1>2 DEF Below
<1>5. PICK f : f = [k \in 1..K!Cardinality(Idx) |-> CHOOSE i \in Idx : K!Cardinality({j \in Idx : j < i}) = k - 1]
  OBVIOUS
<1>6. K!Cardinality(Idx) = Cardinality(Idx)
  BY StandInCounts
<1>7. \A k \in 1..Cardinality(Idx) : f[k] \in Idx /\ Cardinality(Below(Ord, Idx, f[k])) = k - 1
  <2>1. TAKE k \in 1..Cardinality(Idx)
  <2>2. PICK i \in Idx : Cardinality(Below(Ord, Idx, i)) = k - 1
    BY <1>1, <1>3, PlacesTaken
  <2>3. \E x \in Idx : K!Cardinality({j \in Idx : j < x}) = k - 1
    BY <1>4, <2>2, StandInCounts
  <2>4. f[k] \in Idx /\ K!Cardinality({j \in Idx : j < f[k]}) = k - 1
    BY <1>5, <1>6, <2>3
  <2>5. QED BY <1>4, <2>4, StandInCounts
<1>8. K!Remaining(Idx) = [k \in 1..Cardinality(Idx) |-> zsets[f[k]]]
  BY <1>5, <1>6 DEF K!Remaining
<1>9. /\ \A i \in Idx : \E k \in 1..Cardinality(Idx) : f[k] = i
      /\ \A a, b \in 1..Cardinality(Idx) : a < b => f[a] # f[b] /\ <<f[a], f[b]>> \in Ord
  BY <1>1, <1>3, <1>7, ListedInOrder
<1>10. \A a, b \in 1..Cardinality(Idx) : f[a] = f[b] => a = b
  <2>1. TAKE a, b \in 1..Cardinality(Idx)
  <2>2. a < b \/ b < a \/ a = b
    BY <1>1
  <2>3. QED BY <1>9, <2>2
<1>11. f \in [1..Cardinality(Idx) -> Idx]
  BY <1>5, <1>6, <1>7
<1>12. QED BY <1>1, <1>8, <1>9, <1>10, <1>11

LEMMA SortedLists ==
  ASSUME StandInInv, NEW Idx \in SUBSET DOMAIN zsets
  PROVE  /\ IsFiniteSet(Idx) /\ Cardinality(Idx) \in Nat
         /\ \E f : /\ f \in [1..Cardinality(Idx) -> Idx]
                   /\ K!SortedMembers(Idx) = [k \in 1..Cardinality(Idx) |-> zsets[f[k]].member]
                   /\ \A i \in Idx : \E k \in 1..Cardinality(Idx) : f[k] = i
                   /\ \A a, b \in 1..Cardinality(Idx) : a < b => zsets[f[a]].score <= zsets[f[b]].score
<1>0. PICK n \in Nat : DOMAIN zsets = 1..n
  BY DEF StandInInv
<1>1. IsFiniteSet(Idx) /\ Cardinality(Idx) \in Nat /\ Idx \subseteq Nat
  <2>1. IsFiniteSet(1..n)
    BY FS_Interval
  <2>2. IsFiniteSet(Idx)
    BY <1>0, <2>1, FS_Subset
  <2>3. QED BY <1>0, <2>2, FS_CardinalityType
<1>2. \A i \in Idx : zsets[i].score \in Nat
  <2>1. PICK e : e = [member : Things, score : K!Scores]
    OBVIOUS
  <2>2. zsets \in Seq(e)
    BY <2>1 DEF StandInInv
  <2>3. \A i \in DOMAIN zsets : zsets[i] \in e
    BY <2>2
  <2>4. \A i \in Idx : zsets[i] \in [member : Things, score : K!Scores]
    BY <2>1, <2>3
  <2>5. QED BY <2>4, StandInNumbers DEF K!Scores
<1>3. PICK Ord : Ord = {e \in Idx \X Idx : K!Before(e[1], e[2])}
  OBVIOUS
<1>4. Orders(Ord, Idx)
  <2>1. PICK w : w = [i \in Idx |-> zsets[i].score]
    OBVIOUS
  <2>2. \A i \in Idx : w[i] \in Nat
    BY <1>2, <2>1
  <2>3. \A i, j \in Idx :
          (<<i, j>> \in Ord) <=> ((w[i] < w[j]) \/ (w[i] = w[j] /\ i < j))
    BY <1>3, <2>1 DEF K!Before
  <2>4. /\ \A i \in Idx : <<i, i>> \notin Ord
        /\ \A i, j \in Idx : i # j => <<i, j>> \in Ord \/ <<j, i>> \in Ord
    BY <1>1, <2>2, <2>3
  <2>5. \A i, j, k \in Idx : <<i, j>> \in Ord /\ <<j, k>> \in Ord => <<i, k>> \in Ord
    BY <1>1, <2>2, <2>3
  <2>6. QED BY <2>4, <2>5 DEF Orders
<1>5. \A i \in Idx : {j \in Idx : K!Before(j, i)} = Below(Ord, Idx, i)
  BY <1>3 DEF Below
<1>6. PICK f : f = [k \in 1..K!Cardinality(Idx) |-> CHOOSE i \in Idx : K!Cardinality({j \in Idx : K!Before(j, i)}) = k - 1]
  OBVIOUS
<1>7. K!Cardinality(Idx) = Cardinality(Idx)
  BY StandInCounts
<1>8. \A k \in 1..Cardinality(Idx) : f[k] \in Idx /\ Cardinality(Below(Ord, Idx, f[k])) = k - 1
  <2>1. TAKE k \in 1..Cardinality(Idx)
  <2>2. PICK i \in Idx : Cardinality(Below(Ord, Idx, i)) = k - 1
    BY <1>1, <1>4, PlacesTaken
  <2>3. \E x \in Idx : K!Cardinality({j \in Idx : K!Before(j, x)}) = k - 1
    BY <1>5, <2>2, StandInCounts
  <2>4. f[k] \in Idx /\ K!Cardinality({j \in Idx : K!Before(j, f[k])}) = k - 1
    BY <1>6, <1>7, <2>3
  <2>5. QED BY <1>5, <2>4, StandInCounts
<1>9. K!SortedMembers(Idx) = [k \in 1..Cardinality(Idx) |-> zsets[f[k]].member]
  BY <1>6, <1>7 DEF K!SortedMembers
<1>10. /\ \A i \in Idx : \E k \in 1..Cardinality(Idx) : f[k] = i
       /\ \A a, b \in 1..Cardinality(Idx) : a < b => f[a] # f[b] /\ <<f[a], f[b]>> \in Ord
  BY <1>1, <1>4, <1>8, ListedInOrder
<1>11. \A a, b \in 1..Cardinality(Idx) : a < b => zsets[f[a]].score <= zsets[f[b]].score
  <2>1. TAKE a, b \in 1..Cardinality(Idx)
  <2>2. HAVE a < b
  <2>3. f[a] \in Idx /\ f[b] \in Idx /\ K!Before(f[a], f[b])
    BY <1>3, <1>8, <1>10, <2>2
  <2>4. zsets[f[a]].score \in Nat /\ zsets[f[b]].score \in Nat
    BY <1>2, <2>3
  <2>5. QED BY <2>3, <2>4 DEF K!Before
<1>12. f \in [1..Cardinality(Idx) -> Idx]
  BY <1>6, <1>7, <1>8
<1>13. QED BY <1>1, <1>9, <1>10, <1>11, <1>12

-----------------------------------------------------------------------------
(* The scores of the entries z of a map, by member.                        *)
Entries(z) ==
  /\ z \in Seq([member : Things, score : K!Scores])
  /\ \A i, j \in DOMAIN z : z[i].member = z[j].member => i = j

ScoreIn(z, m) ==
  IF \E i \in DOMAIN z : z[i].member = m
  THEN z[CHOOSE i \in DOMAIN z : z[i].member = m].score
  ELSE None

ScoreMap(z) == [m \in Things |-> ScoreIn(z, m)]

LEMMA EntryTypes ==
  ASSUME NEW z, Entries(z)
  PROVE  /\ DOMAIN z = 1..Len(z) /\ Len(z) \in Nat
         /\ \A i \in DOMAIN z : /\ z[i] \in [member : Things, score : K!Scores]
                                /\ z[i].member \in Things
                                /\ z[i].score \in 0..MaxScore /\ z[i].score \in Nat
                                /\ z[i].score # None
<1>1. PICK e : e = [member : Things, score : K!Scores]
  OBVIOUS
<1>2. z \in Seq(e)
  BY <1>1 DEF Entries
<1>3. DOMAIN z = 1..Len(z) /\ Len(z) \in Nat /\ \A i \in DOMAIN z : z[i] \in e
  BY <1>2
<1>4. \A i \in DOMAIN z : z[i] \in [member : Things, score : K!Scores]
  BY <1>1, <1>3
<1>5. QED BY <1>3, <1>4, StandInNumbers DEF K!Scores

LEMMA ScoreAt ==
  ASSUME NEW z, Entries(z), NEW i \in DOMAIN z
  PROVE  /\ ScoreIn(z, z[i].member) = z[i].score
         /\ ScoreMap(z)[z[i].member] = z[i].score
<1>1. \E j \in DOMAIN z : z[j].member = z[i].member
  OBVIOUS
<1>2. PICK j : j = CHOOSE k \in DOMAIN z : z[k].member = z[i].member
  OBVIOUS
<1>3. j \in DOMAIN z /\ z[j].member = z[i].member
  BY <1>1, <1>2
<1>4. j = i
  BY <1>3 DEF Entries
<1>5. ScoreIn(z, z[i].member) = z[i].score
  BY <1>1, <1>2, <1>4 DEF ScoreIn
<1>6. z[i].member \in Things
  BY EntryTypes
<1>7. QED BY <1>5, <1>6 DEF ScoreMap

LEMMA ScoreFound ==
  ASSUME NEW z, Entries(z), NEW m, NEW s, \E i \in DOMAIN z : z[i].member = m /\ z[i].score = s
  PROVE  ScoreMap(z)[m] = s
BY ScoreAt

LEMMA ScoreMissing ==
  ASSUME NEW z, Entries(z), NEW m \in Things
  PROVE  ScoreMap(z)[m] = None <=> \A i \in DOMAIN z : z[i].member # m
<1>1. ASSUME \A i \in DOMAIN z : z[i].member # m PROVE ScoreMap(z)[m] = None
  BY <1>1 DEF ScoreMap, ScoreIn
<1>2. ASSUME NEW i \in DOMAIN z, z[i].member = m PROVE ScoreMap(z)[m] # None
  BY <1>2, ScoreAt, EntryTypes
<1>3. QED BY <1>1, <1>2

(* The members of a set of entries are as many as these.                   *)
LEMMA MembersCounted ==
  ASSUME NEW z, Entries(z), NEW Idx \in SUBSET DOMAIN z
  PROVE  Cardinality({z[i].member : i \in Idx}) = Cardinality(Idx)
<1>1. DOMAIN z = 1..Len(z) /\ Len(z) \in Nat
  BY EntryTypes
<1>2. IsFiniteSet(DOMAIN z)
  BY <1>1, FS_Interval
<1>3. IsFiniteSet(Idx)
  BY <1>2, FS_Subset
<1>4. PICK f : f = [i \in Idx |-> z[i].member]
  OBVIOUS
<1>5. PICK t : t = {z[i].member : i \in Idx}
  OBVIOUS
<1>6. f \in [Idx -> t]
  BY <1>4, <1>5
<1>7. \A i, j \in Idx : f[i] = f[j] => i = j
  BY <1>4 DEF Entries
<1>8. \A m \in t : \E i \in Idx : f[i] = m
  BY <1>4, <1>5
<1>9. f \in Bijection(Idx, t)
  BY <1>6, <1>7, <1>8 DEF Bijection, Injection, Surjection, IsInjective
<1>10. Cardinality(t) = Cardinality(Idx)
  <2>1. ExistsBijection(Idx, t)
    BY <1>9 DEF ExistsBijection
  <2>2. QED BY <1>3, <2>1, FS_Bijection
<1>11. QED BY <1>5, <1>10

(* What stays of the map has the scores that stay.                         *)
Remains(z, Idx, n, f, y) ==
  /\ Entries(z) /\ Idx \in SUBSET DOMAIN z /\ n \in Nat /\ f \in [1..n -> Idx]
  /\ \A i \in Idx : \E k \in 1..n : f[k] = i
  /\ \A a, b \in 1..n : f[a] = f[b] => a = b
  /\ y = [k \in 1..n |-> z[f[k]]]

LEMMA ScoresRemain ==
  ASSUME NEW z, NEW Idx, NEW n, NEW f, NEW y, Remains(z, Idx, n, f, y)
  PROVE  /\ Entries(y)
         /\ \A m \in Things :
              ScoreMap(y)[m] = IF \E i \in Idx : z[i].member = m THEN ScoreMap(z)[m] ELSE None
<1>0. /\ Entries(z) /\ Idx \in SUBSET DOMAIN z /\ n \in Nat /\ f \in [1..n -> Idx]
      /\ \A i \in Idx : \E k \in 1..n : f[k] = i
      /\ \A a, b \in 1..n : f[a] = f[b] => a = b
  BY DEF Remains
<1>1. DOMAIN y = 1..n /\ \A k \in 1..n : f[k] \in DOMAIN z /\ y[k] = z[f[k]]
  BY DEF Remains
<1>2. PICK e : e = [member : Things, score : K!Scores]
  OBVIOUS
<1>3. \A i \in DOMAIN z : z[i] \in e
  BY <1>0, <1>2, EntryTypes
<1>4. y \in Seq(e)
  BY <1>0, <1>1, <1>3 DEF Remains
<1>5. Entries(y)
  BY <1>0, <1>1, <1>2, <1>4 DEF Entries
<1>6. ASSUME NEW m \in Things, NEW i \in Idx, z[i].member = m
      PROVE  ScoreMap(y)[m] = ScoreMap(z)[m]
  <2>1. PICK k \in 1..n : f[k] = i
    BY <1>0
  <2>2. ScoreMap(y)[y[k].member] = y[k].score
    BY <1>1, <1>5, ScoreAt
  <2>3. ScoreMap(z)[z[i].member] = z[i].score
    BY <1>0, ScoreAt
  <2>4. QED BY <1>0, <1>1, <1>6, <2>1, <2>2, <2>3
<1>7. ASSUME NEW m \in Things, \A i \in Idx : z[i].member # m
      PROVE  ScoreMap(y)[m] = None
  BY <1>0, <1>1, <1>5, <1>7, ScoreMissing
<1>8. QED BY <1>5, <1>6, <1>7

Added(z, m, s, y) ==
  /\ Entries(z) /\ m \in Things /\ s \in K!Scores
  /\ y = IF \E i \in DOMAIN z : z[i].member = m
         THEN [i \in DOMAIN z |-> IF z[i].member = m THEN [z[i] EXCEPT !.score = s] ELSE z[i]]
         ELSE Append(z, [member |-> m, score |-> s])

LEMMA ScoresAdded ==
  ASSUME NEW z, NEW m, NEW s, NEW y, Added(z, m, s, y)
  PROVE  Entries(y) /\ ScoreMap(y) = [ScoreMap(z) EXCEPT ![m] = s]
<1>0. /\ Entries(z) /\ m \in Things /\ s \in K!Scores
      /\ (\E i \in DOMAIN z : z[i].member = m) =>
           y = [i \in DOMAIN z |-> IF z[i].member = m THEN [z[i] EXCEPT !.score = s] ELSE z[i]]
      /\ (\A i \in DOMAIN z : z[i].member # m) => y = Append(z, [member |-> m, score |-> s])
  BY DEF Added
<1>1. PICK e : e = [member : Things, score : K!Scores]
  OBVIOUS
<1>2. z \in Seq(e) /\ DOMAIN z = 1..Len(z) /\ Len(z) \in Nat
  BY <1>0, <1>1, EntryTypes DEF Entries
<1>3. ASSUME NEW k \in DOMAIN z, z[k].member = m
      PROVE  /\ Entries(y)
             /\ \A i \in DOMAIN z : y[i].member = z[i].member
                                    /\ y[i].score = IF i = k THEN s ELSE z[i].score
             /\ DOMAIN y = DOMAIN z
  <2>1. /\ DOMAIN y = DOMAIN z
        /\ \A i \in DOMAIN z : y[i] = IF z[i].member = m THEN [z[i] EXCEPT !.score = s] ELSE z[i]
    BY <1>0, <1>3
  <2>2. \A i \in DOMAIN z : z[i] \in e
    BY <1>0, <1>1, EntryTypes
  <2>3. \A i \in DOMAIN z : /\ y[i] \in e /\ y[i].member = z[i].member
                            /\ y[i].score = IF z[i].member = m THEN s ELSE z[i].score
    BY <1>0, <1>1, <2>1, <2>2
  <2>4. \A i \in DOMAIN z : (z[i].member = m) <=> (i = k)
    BY <1>0, <1>3 DEF Entries
  <2>5. PICK g : g = [i \in 1..Len(z) |-> IF z[i].member = m THEN [z[i] EXCEPT !.score = s] ELSE z[i]]
    OBVIOUS
  <2>6. y \in Seq(e)
    <3>1. y = g
      BY <1>0, <1>2, <1>3, <2>5
    <3>2. \A i \in 1..Len(z) : g[i] \in e
      BY <1>0, <1>2, <2>3, <3>1
    <3>3. g \in Seq(e)
      BY <1>0, <1>2, <2>5, <3>2
    <3>4. QED BY <1>0, <3>1, <3>3
  <2>7. Entries(y)
    BY <1>0, <1>1, <2>1, <2>3, <2>6 DEF Entries
  <2>8. QED BY <1>0, <2>1, <2>3, <2>4, <2>7
<1>4. ASSUME \A i \in DOMAIN z : z[i].member # m
      PROVE  /\ Entries(y)
             /\ DOMAIN y = 1..(Len(z) + 1)
             /\ \A i \in DOMAIN z : y[i] = z[i]
             /\ y[Len(z) + 1].member = m /\ y[Len(z) + 1].score = s
  <2>1. PICK x : x = [member |-> m, score |-> s]
    OBVIOUS
  <2>2. x \in e /\ x.member = m /\ x.score = s
    BY <1>0, <1>1, <2>1
  <2>3. y = Append(z, x)
    BY <1>0, <1>4, <2>1
  <2>4. y \in Seq(e) /\ DOMAIN y = 1..(Len(z) + 1) /\ y[Len(z) + 1] = x /\ \A i \in 1..Len(z) : y[i] = z[i]
    <3>1. z \in Seq(e) /\ x \in e
      BY <1>0, <1>2, <2>2
    <3>2. Append(z, x) \in Seq(e) /\ Len(Append(z, x)) = Len(z) + 1
      BY <1>0, <3>1
    <3>3. Append(z, x)[Len(z) + 1] = x /\ \A i \in 1..Len(z) : Append(z, x)[i] = z[i]
      BY <1>0, <3>1
    <3>4. QED BY <1>0, <2>3, <3>2, <3>3
  <2>5. \A i, j \in DOMAIN y : y[i].member = y[j].member => i = j
    <3>1. TAKE i, j \in DOMAIN y
    <3>2. CASE i \in 1..Len(z) /\ j \in 1..Len(z)
      BY <1>0, <1>2, <2>4, <3>2 DEF Entries
    <3>3. CASE i = Len(z) + 1 /\ j \in 1..Len(z)
      BY <1>0, <1>2, <1>4, <2>2, <2>4, <3>3
    <3>4. CASE j = Len(z) + 1 /\ i \in 1..Len(z)
      BY <1>0, <1>2, <1>4, <2>2, <2>4, <3>4
    <3>5. i \in 1..(Len(z) + 1) /\ j \in 1..(Len(z) + 1)
      BY <1>0, <2>4
    <3>6. QED BY <1>0, <1>2, <3>2, <3>3, <3>4, <3>5
  <2>6. Entries(y)
    BY <1>0, <1>1, <2>4, <2>5 DEF Entries
  <2>7. QED BY <1>0, <1>2, <2>2, <2>4, <2>6
<1>5. Entries(y)
  BY <1>0, <1>3, <1>4
<1>6. ScoreMap(y)[m] = s
  <2>1. \E i \in DOMAIN y : y[i].member = m /\ y[i].score = s
    <3>1. ASSUME NEW k \in DOMAIN z, z[k].member = m PROVE k \in DOMAIN y /\ y[k].member = m /\ y[k].score = s
      BY <1>0, <1>3, <3>1
    <3>2. CASE \A i \in DOMAIN z : z[i].member # m
      BY <1>0, <1>2, <1>4, <3>2
    <3>3. QED BY <1>0, <3>1, <3>2
  <2>2. QED BY <1>0, <1>5, <2>1, ScoreFound
<1>7. ASSUME NEW x \in Things, x # m PROVE ScoreMap(y)[x] = ScoreMap(z)[x]
  <2>1. CASE \A i \in DOMAIN z : z[i].member # x
    <3>1. \A i \in DOMAIN y : y[i].member # x
      <4>1. ASSUME NEW k \in DOMAIN z, z[k].member = m PROVE \A i \in DOMAIN y : y[i].member # x
        BY <1>0, <1>3, <2>1, <4>1
      <4>2. CASE \A i \in DOMAIN z : z[i].member # m
        BY <1>0, <1>2, <1>4, <1>7, <2>1, <4>2
      <4>3. QED BY <1>0, <4>1, <4>2
    <3>2. ScoreMap(z)[x] = None /\ ScoreMap(y)[x] = None
      BY <1>0, <1>5, <2>1, <3>1, ScoreMissing
    <3>3. QED BY <1>0, <3>2
  <2>2. ASSUME NEW i \in DOMAIN z, z[i].member = x PROVE ScoreMap(y)[x] = ScoreMap(z)[x]
    <3>1. i \in DOMAIN y /\ y[i].member = x /\ y[i].score = z[i].score
      BY <1>0, <1>2, <1>3, <1>4, <1>7, <2>2
    <3>2. ScoreMap(y)[y[i].member] = y[i].score
      BY <1>0, <1>5, <3>1, ScoreAt
    <3>3. ScoreMap(z)[z[i].member] = z[i].score
      BY <1>0, ScoreAt
    <3>4. QED BY <1>0, <2>2, <3>1, <3>2, <3>3
  <2>3. QED BY <1>0, <2>1, <2>2
<1>8. ScoreMap(y) = [ScoreMap(z) EXCEPT ![m] = s]
  BY <1>0, <1>6, <1>7 DEF ScoreMap
<1>9. QED BY <1>0, <1>5, <1>8

(* The refinement mapping of the sorted set.                               *)
Scored == [m \in Things |-> K!ScoreOf(m)]

LEMMA ScoredIs ==
  /\ Scored = ScoreMap(zsets)
  /\ Scored' = ScoreMap(zsets')
  BY DEF Scored, ScoreMap, ScoreIn, K!ScoreOf

(* Only zsets changes.                                                     *)
LEMMA Stores ==
  ASSUME StandInInv, UNCHANGED <<strings, hashes>>, Entries(zsets')
  PROVE  StandInInv' /\ Seen' = Seen
BY DEF StandInInv, Entries, Seen, K!IsExpired

LEMMA AddStep ==
  ASSUME StandInInv, NEW m \in Things, NEW s \in K!Scores, K!ZAdd(m, s)
  PROVE  StandInInv' /\ K!Server!ZAdd(m, s)
<1>1. Entries(zsets)
  BY DEF StandInInv, Entries
<1>2. /\ zsets' = IF \E i \in DOMAIN zsets : zsets[i].member = m
                  THEN [i \in DOMAIN zsets |-> IF zsets[i].member = m THEN [zsets[i] EXCEPT !.score = s] ELSE zsets[i]]
                  ELSE Append(zsets, [member |-> m, score |-> s])
      /\ K!Silent /\ UNCHANGED <<strings, hashes>>
  BY DEF K!ZAdd, K!Write
<1>3. Entries(zsets') /\ ScoreMap(zsets') = [ScoreMap(zsets) EXCEPT ![m] = s]
  <2>1. Added(zsets, m, s, zsets')
    BY <1>1, <1>2 DEF Added
  <2>2. QED BY <2>1, ScoresAdded
<1>4. StandInInv' /\ Seen' = Seen
  BY <1>2, <1>3, Stores
<1>5. Scored' = [Scored EXCEPT ![m] = s]
  BY <1>3, ScoredIs
<1>6. K!Server!ZAdd(m, s)
  BY <1>2, <1>4, <1>5 DEF K!Silent, K!Answer, Scored, Seen, K!Server!ZAdd, K!Server!Write, K!Server!Silent, K!Server!Answer
<1>7. QED BY <1>4, <1>6

(* What deletes all entries but those at Idx.                              *)
LEMMA RemainStep ==
  ASSUME StandInInv, NEW Idx \in SUBSET DOMAIN zsets, K!Write(K!Remaining(Idx))
  PROVE  /\ StandInInv' /\ Seen' = Seen /\ UNCHANGED hashes /\ K!Silent
         /\ \A m \in Things :
              Scored'[m] = IF \E i \in Idx : zsets[i].member = m THEN Scored[m] ELSE None
<1>1. Entries(zsets)
  BY DEF StandInInv, Entries
<1>2. zsets' = K!Remaining(Idx) /\ K!Silent /\ UNCHANGED <<strings, hashes>>
  BY DEF K!Write
<1>3. PICK n \in Nat : n = Cardinality(Idx)
  BY RemainingLists
<1>4. PICK f : /\ f \in [1..n -> Idx]
               /\ K!Remaining(Idx) = [k \in 1..n |-> zsets[f[k]]]
               /\ \A i \in Idx : \E k \in 1..n : f[k] = i
               /\ \A a, b \in 1..n : f[a] = f[b] => a = b
  BY <1>3, RemainingLists
<1>5. /\ Entries(zsets')
      /\ \A m \in Things :
           ScoreMap(zsets')[m] = IF \E i \in Idx : zsets[i].member = m THEN ScoreMap(zsets)[m] ELSE None
  <2>1. Remains(zsets, Idx, n, f, zsets')
    BY <1>1, <1>2, <1>4 DEF Remains
  <2>2. QED BY <2>1, ScoresRemain
<1>6. QED BY <1>2, <1>5, ScoredIs, Stores

LEMMA RemoveStep ==
  ASSUME StandInInv, NEW m \in Things, K!ZRem(m)
  PROVE  StandInInv' /\ K!Server!ZRem(m)
<1>1. PICK s : s = {i \in DOMAIN zsets : zsets[i].member # m}
  OBVIOUS
<1>2. s \in SUBSET DOMAIN zsets /\ K!Write(K!Remaining(s))
  BY <1>1 DEF K!ZRem
<1>3. /\ StandInInv' /\ Seen' = Seen /\ UNCHANGED hashes /\ K!Silent
      /\ \A x \in Things :
           Scored'[x] = IF \E i \in s : zsets[i].member = x THEN Scored[x] ELSE None
  BY <1>2, RemainStep
<1>4. Entries(zsets)
  BY DEF StandInInv, Entries
<1>5. ASSUME NEW x \in Things PROVE Scored'[x] = IF x = m THEN None ELSE Scored[x]
  <2>1. CASE x = m
    BY <1>1, <1>3, <2>1
  <2>2. CASE x # m
    <3>1. CASE \E i \in DOMAIN zsets : zsets[i].member = x
      BY <1>1, <1>3, <2>2, <3>1
    <3>2. CASE \A i \in DOMAIN zsets : zsets[i].member # x
      BY <1>1, <1>3, <1>4, <2>2, <3>2, ScoreMissing, ScoredIs
    <3>3. QED BY <3>1, <3>2
  <2>3. QED BY <2>1, <2>2
<1>6. Scored' = [Scored EXCEPT ![m] = None]
  BY <1>5 DEF Scored
<1>7. K!Server!ZRem(m)
  BY <1>3, <1>6 DEF K!Silent, K!Answer, Scored, Seen, K!Server!ZRem, K!Server!Write, K!Server!Silent, K!Server!Answer
<1>8. QED BY <1>3, <1>7

LEMMA ClearStep ==
  ASSUME StandInInv, K!DelSortedSet
  PROVE  StandInInv' /\ K!Server!DelSortedSet
<1>1. zsets' = << >> /\ K!Silent /\ UNCHANGED <<strings, hashes>>
  BY DEF K!DelSortedSet, K!Write
<1>2. Entries(zsets')
  BY <1>1 DEF Entries
<1>3. Scored' = [m \in Things |-> None]
  BY <1>1 DEF Scored, K!ScoreOf
<1>4. StandInInv' /\ Seen' = Seen
  BY <1>1, <1>2, Stores
<1>5. K!Server!DelSortedSet
  BY <1>1, <1>3, <1>4 DEF K!Silent, K!Answer, Scored, Seen, K!Server!DelSortedSet, K!Server!Write, K!Server!Silent, K!Server!Answer
<1>6. QED BY <1>4, <1>5

(* The members that have a score.                                          *)
LEMMA InIs ==
  ASSUME StandInInv
  PROVE  /\ K!Server!In = {zsets[i].member : i \in DOMAIN zsets}
         /\ \A i \in DOMAIN zsets : /\ Scored[zsets[i].member] = zsets[i].score
                                    /\ zsets[i].member \in Things
         /\ \A m \in Things : Scored[m] # None <=> \E i \in DOMAIN zsets : zsets[i].member = m
<1>1. Entries(zsets)
  BY DEF StandInInv, Entries
<1>2. \A i \in DOMAIN zsets : Scored[zsets[i].member] = zsets[i].score /\ zsets[i].member \in Things
  BY <1>1, ScoreAt, ScoredIs, EntryTypes
<1>3. \A m \in Things : Scored[m] # None <=> \E i \in DOMAIN zsets : zsets[i].member = m
  BY <1>1, ScoreMissing, ScoredIs
<1>4. K!Server!In = {m \in Things : Scored[m] # None}
  BY DEF K!Server!In, Scored
<1>5. K!Server!In = {zsets[i].member : i \in DOMAIN zsets}
  BY <1>2, <1>3, <1>4
<1>6. QED BY <1>2, <1>3, <1>5

LEMMA RemoveRangeStep ==
  ASSUME StandInInv, NEW min \in K!Scores, NEW max \in K!Scores, K!ZRemRangeByScore(min, max)
  PROVE  StandInInv' /\ K!Server!ZRemRangeByScore(min, max)
<1>1. PICK s : s = DOMAIN zsets \ K!Within(min, max)
  OBVIOUS
<1>2. s \in SUBSET DOMAIN zsets /\ K!Write(K!Remaining(s))
  BY <1>1 DEF K!ZRemRangeByScore
<1>3. /\ StandInInv' /\ Seen' = Seen /\ UNCHANGED hashes /\ K!Silent
      /\ \A x \in Things :
           Scored'[x] = IF \E i \in s : zsets[i].member = x THEN Scored[x] ELSE None
  BY <1>2, RemainStep
<1>4. ASSUME NEW x \in Things
      PROVE  Scored'[x] = IF x \in K!Server!In /\ min <= Scored[x] /\ Scored[x] <= max THEN None ELSE Scored[x]
  <2>1. CASE x \notin K!Server!In
    <3>1. \A i \in DOMAIN zsets : zsets[i].member # x
      BY <2>1, InIs
    <3>2. Scored[x] = None
      BY <3>1, InIs
    <3>3. QED BY <1>1, <1>3, <2>1, <3>1, <3>2
  <2>2. ASSUME NEW i \in DOMAIN zsets, zsets[i].member = x
        PROVE  Scored'[x] = IF x \in K!Server!In /\ min <= Scored[x] /\ Scored[x] <= max THEN None ELSE Scored[x]
    <3>1. x \in K!Server!In /\ Scored[x] = zsets[i].score
      BY <2>2, InIs
    <3>2. (\E j \in s : zsets[j].member = x) <=> i \in s
      BY <1>1, <2>2 DEF StandInInv
    <3>3. i \in s <=> ~(min <= Scored[x] /\ Scored[x] <= max)
      BY <1>1, <3>1 DEF K!Within
    <3>4. QED BY <1>3, <3>1, <3>2, <3>3
  <2>3. QED BY <2>1, <2>2, InIs
<1>5. Scored' = [m \in Things |-> IF m \in K!Server!In /\ min <= Scored[m] /\ Scored[m] <= max THEN None ELSE Scored[m]]
  BY <1>4 DEF Scored
<1>6. K!Server!ZRemRangeByScore(min, max)
  BY <1>3, <1>5 DEF K!Silent, K!Answer, Scored, Seen, K!Server!ZRemRangeByScore, K!Server!Write, K!Server!Silent, K!Server!Answer
<1>7. QED BY <1>3, <1>6

(* What only reads.                                                        *)
LEMMA ReadStep ==
  ASSUME StandInInv, NEW call, NEW a, K!Read(call, a)
  PROVE  StandInInv' /\ K!Server!Read(call, a)
<1>1. UNCHANGED <<strings, hashes, zsets>>
  BY DEF K!Read
<1>2. StandInInv'
  BY <1>1 DEF StandInInv
<1>3. Scored' = Scored /\ Seen' = Seen
  BY <1>1 DEF Scored, Seen, K!ScoreOf, K!IsExpired
<1>4. K!Server!Read(call, a)
  BY <1>1, <1>3 DEF K!Read, K!Answer, Scored, Seen, K!Server!Read, K!Server!Answer
<1>5. QED BY <1>2, <1>4

LEMMA CountStep ==
  ASSUME StandInInv, K!ZCard
  PROVE  StandInInv' /\ K!Server!ZCard
<1>1. Entries(zsets)
  BY DEF StandInInv, Entries
<1>2. DOMAIN zsets = 1..Len(zsets) /\ Len(zsets) \in Nat
  BY <1>1, EntryTypes
<1>3. Cardinality(K!Server!In) = Cardinality(DOMAIN zsets)
  BY <1>1, InIs, MembersCounted
<1>4. K!Server!Cardinality(K!Server!In) = Len(zsets)
  BY <1>2, <1>3, FS_Interval, StandInCounts
<1>5. K!Read(<<"zcard">>, Len(zsets))
  BY DEF K!ZCard
<1>6. K!Server!Read(<<"zcard">>, Len(zsets)) /\ StandInInv'
  BY <1>5, ReadStep
<1>7. QED BY <1>4, <1>6 DEF K!Server!ZCard

(* Sorted members are a listing of them that a server could give.          *)
LEMMA SortedIsListing ==
  ASSUME StandInInv, NEW Idx \in SUBSET DOMAIN zsets, NEW ms, ms = {zsets[i].member : i \in Idx}
  PROVE  /\ K!SortedMembers(Idx) \in K!Server!Listings(ms)
         /\ Cardinality(Idx) \in Nat
         /\ K!SortedMembers(Idx) \in [1..Cardinality(Idx) -> Things]
<1>1. Entries(zsets)
  BY DEF StandInInv, Entries
<1>2. PICK n \in Nat : n = Cardinality(Idx)
  BY SortedLists
<1>3. PICK f : /\ f \in [1..n -> Idx]
               /\ K!SortedMembers(Idx) = [k \in 1..n |-> zsets[f[k]].member]
               /\ \A i \in Idx : \E k \in 1..n : f[k] = i
               /\ \A a, b \in 1..n : a < b => zsets[f[a]].score <= zsets[f[b]].score
  BY <1>2, SortedLists
<1>4. K!Server!Cardinality(ms) = n
  BY <1>1, <1>2, MembersCounted, StandInCounts
<1>5. PICK l : l = K!SortedMembers(Idx)
  OBVIOUS
<1>6. l \in [1..n -> ms] /\ DOMAIN l = 1..n /\ \A k \in 1..n : f[k] \in Idx /\ l[k] = zsets[f[k]].member
  BY <1>3, <1>5
<1>7. \A m \in ms : \E k \in DOMAIN l : l[k] = m
  <2>1. TAKE m \in ms
  <2>2. PICK i \in Idx : m = zsets[i].member
    OBVIOUS
  <2>3. PICK k \in 1..n : f[k] = i
    BY <1>3
  <2>4. QED BY <1>6, <2>2, <2>3
<1>8. \A a, b \in DOMAIN l : a < b => Scored[l[a]] <= Scored[l[b]]
  <2>1. TAKE a, b \in DOMAIN l
  <2>2. HAVE a < b
  <2>3. Scored[l[a]] = zsets[f[a]].score /\ Scored[l[b]] = zsets[f[b]].score
    BY <1>6, InIs
  <2>4. QED BY <1>3, <1>6, <2>2, <2>3
<1>9. l \in K!Server!Listings(ms)
  BY <1>4, <1>6, <1>7, <1>8 DEF K!Server!Listings, Scored
<1>10. ms \subseteq Things
  BY InIs
<1>11. QED BY <1>2, <1>5, <1>6, <1>9, <1>10

LEMMA ByScoreStep ==
  ASSUME StandInInv, NEW min \in K!Scores, NEW max \in K!Scores, K!ZRangeByScore(min, max)
  PROVE  StandInInv' /\ K!Server!ZRangeByScore(min, max)
<1>1. PICK ms : ms = {zsets[i].member : i \in K!Within(min, max)}
  OBVIOUS
<1>2. K!Within(min, max) \in SUBSET DOMAIN zsets
  BY DEF K!Within
<1>3. K!SortedMembers(K!Within(min, max)) \in K!Server!Listings(ms)
  BY <1>1, <1>2, SortedIsListing
<1>4. ms = {m \in K!Server!In : min <= Scored[m] /\ Scored[m] <= max}
  BY <1>1, InIs DEF K!Within
<1>5. K!Read(<<"zrangebyscore", min, max>>, K!SortedMembers(K!Within(min, max)))
  BY DEF K!ZRangeByScore
<1>6. StandInInv' /\ K!Server!Read(<<"zrangebyscore", min, max>>, K!SortedMembers(K!Within(min, max)))
  BY <1>5, ReadStep
<1>7. K!Server!ZRangeByScore(min, max)
  BY <1>3, <1>4, <1>6 DEF K!Server!ZRangeByScore, Scored
<1>8. QED BY <1>6, <1>7

(* The ranks between the ends that the stand-in computes are those of the  *)
(* server.                                                                 *)
LEMMA RanksAreAnInterval ==
  ASSUME NEW n \in Nat, NEW start \in Int, NEW stop \in Int
  PROVE  LET s == K!From(n, start)
             e == K!To(n, stop)
         IN  /\ s \in Int /\ e \in Int
             /\ e < s \/ n = 0 => K!Server!Ranks(n, start, stop) = {}
             /\ s <= e /\ n # 0 => K!Server!Ranks(n, start, stop) = s..e
<1>1. PICK s : s = K!From(n, start)
  OBVIOUS
<1>2. PICK e : e = K!To(n, stop)
  OBVIOUS
<1>3. s \in Int /\ e \in Int /\ s >= 0 /\ e <= n - 1
  BY <1>1, <1>2 DEF K!From, K!To
<1>4. \A r \in 0..(n - 1) : s <= r <=> (IF start < 0 THEN n + start ELSE start) <= r
  BY <1>1 DEF K!From
<1>5. \A r \in 0..(n - 1) : r <= e <=> r <= (IF stop < 0 THEN n + stop ELSE stop)
  BY <1>2 DEF K!To
<1>6. K!Server!Ranks(n, start, stop) = {r \in 0..(n - 1) : s <= r /\ r <= e}
  BY <1>4, <1>5 DEF K!Server!Ranks
<1>7. e < s \/ n = 0 => K!Server!Ranks(n, start, stop) = {}
  BY <1>3, <1>6
<1>8. s <= e /\ n # 0 => K!Server!Ranks(n, start, stop) = s..e
  BY <1>3, <1>6
<1>9. QED BY <1>1, <1>2, <1>3, <1>7, <1>8

LEMMA SlicesAreRanges ==
  ASSUME NEW n \in Nat, NEW l \in [1..n -> Things], NEW start \in Int, NEW stop \in Int
  PROVE  K!SliceRange(l, start, stop) = K!Server!Range(l, start, stop)
<1>1. Len(l) = n
  OBVIOUS
<1>2. PICK s : s = K!From(n, start)
  OBVIOUS
<1>3. PICK e : e = K!To(n, stop)
  OBVIOUS
<1>4. PICK rs : rs = K!Server!Ranks(n, start, stop)
  OBVIOUS
<1>5. /\ s \in Int /\ e \in Int
      /\ e < s \/ n = 0 => rs = {}
      /\ s <= e /\ n # 0 => rs = s..e
  BY <1>2, <1>3, <1>4, RanksAreAnInterval
<1>6. CASE e < s \/ n = 0
  <2>1. K!SliceRange(l, start, stop) = << >>
    BY <1>1, <1>2, <1>3, <1>6 DEF K!SliceRange
  <2>2. K!Server!Range(l, start, stop) = << >>
    BY <1>1, <1>4, <1>5, <1>6 DEF K!Server!Range
  <2>3. QED BY <2>1, <2>2
<1>7. CASE s <= e /\ n # 0
  <2>1. K!SliceRange(l, start, stop) = [k \in 1..(e - s + 1) |-> l[s + k]]
    BY <1>1, <1>2, <1>3, <1>5, <1>7 DEF K!SliceRange
  <2>2. rs = s..e /\ rs # {}
    <3>1. rs = s..e
      BY <1>5, <1>7
    <3>2. s \in s..e
      BY <1>5, <1>7
    <3>3. QED BY <3>1, <3>2
  <2>3. K!Server!Cardinality(rs) = e - s + 1
    BY <1>5, <1>7, <2>2, FS_Interval, StandInCounts
  <2>4. PICK first : first = CHOOSE r \in rs : \A o \in rs : r <= o
    OBVIOUS
  <2>5. \E r \in rs : \A o \in rs : r <= o
    BY <1>5, <1>7, <2>2
  <2>6. first \in rs /\ \A o \in rs : first <= o
    BY <2>4, <2>5
  <2>7. first = s
    BY <1>5, <1>7, <2>2, <2>6
  <2>8. K!Server!Range(l, start, stop) = [i \in 1..(e - s + 1) |-> l[first + i]]
    <3>1. K!Server!Ranks(Len(l), start, stop) = rs
      BY <1>1, <1>4
    <3>2. K!Server!Range(l, start, stop) =
            IF rs = {} THEN << >>
            ELSE [i \in 1..K!Server!Cardinality(rs) |-> l[(CHOOSE r \in rs : \A o \in rs : r <= o) + i]]
      BY <3>1 DEF K!Server!Range
    <3>3. QED BY <2>2, <2>3, <2>4, <3>2
  <2>9. QED BY <2>1, <2>7, <2>8
<1>8. QED BY <1>5, <1>6, <1>7

LEMMA RangeStep ==
  ASSUME StandInInv, NEW start \in K!Reach, NEW stop \in K!Reach, K!ZRange(start, stop)
  PROVE  StandInInv' /\ K!Server!ZRange(start, stop)
<1>1. start \in Int /\ stop \in Int
  BY StandInNumbers DEF K!Reach
<1>2. PICK l : l = K!SortedMembers(DOMAIN zsets)
  OBVIOUS
<1>3. /\ l \in K!Server!Listings(K!Server!In)
      /\ Cardinality(DOMAIN zsets) \in Nat
      /\ l \in [1..Cardinality(DOMAIN zsets) -> Things]
  BY <1>2, SortedIsListing, InIs
<1>4. K!SliceRange(l, start, stop) = K!Server!Range(l, start, stop)
  BY <1>1, <1>3, SlicesAreRanges
<1>5. K!Read(<<"zrange", start, stop>>, K!SliceRange(l, start, stop))
  BY <1>2 DEF K!ZRange
<1>6. StandInInv' /\ K!Server!Read(<<"zrange", start, stop>>, K!Server!Range(l, start, stop))
  BY <1>4, <1>5, ReadStep
<1>7. K!Server!ZRange(start, stop)
  BY <1>3, <1>6 DEF K!Server!ZRange
<1>8. QED BY <1>6, <1>7

LEMMA SortedSetStep ==
  ASSUME StandInInv, K!SortedSetCall
  PROVE  StandInInv' /\ K!Server!Next
<1>0. K!Scores = K!Server!Scores /\ K!Reach = K!Server!Reach
  BY DEF K!Scores, K!Server!Scores, K!Reach, K!Server!Reach
<1>1. ASSUME NEW m \in Things, NEW s \in K!Scores, K!ZAdd(m, s) PROVE StandInInv' /\ K!Server!Next
  BY <1>0, <1>1, AddStep DEF K!Server!Next
<1>2. ASSUME NEW m \in Things, K!ZRem(m) PROVE StandInInv' /\ K!Server!Next
  BY <1>2, RemoveStep DEF K!Server!Next
<1>3. ASSUME K!DelSortedSet PROVE StandInInv' /\ K!Server!Next
  BY <1>3, ClearStep DEF K!Server!Next
<1>4. ASSUME NEW start \in K!Reach, NEW stop \in K!Reach, K!ZRange(start, stop) PROVE StandInInv' /\ K!Server!Next
  BY <1>0, <1>4, RangeStep DEF K!Server!Next
<1>5. ASSUME K!ZCard PROVE StandInInv' /\ K!Server!Next
  BY <1>5, CountStep DEF K!Server!Next
<1>6. ASSUME NEW min \in K!Scores, NEW max \in K!Scores, K!ZRangeByScore(min, max) PROVE StandInInv' /\ K!Server!Next
  BY <1>0, <1>6, ByScoreStep DEF K!Server!Next
<1>7. ASSUME NEW min \in K!Scores, NEW max \in K!Scores, K!ZRemRangeByScore(min, max) PROVE StandInInv' /\ K!Server!Next
  BY <1>0, <1>7, RemoveRangeStep DEF K!Server!Next
<1>8. QED BY <1>1, <1>2, <1>3, <1>4, <1>5, <1>6, <1>7 DEF K!SortedSetCall

LEMMA StandInStep ==
  ASSUME StandInInv, K!Next
  PROVE  StandInInv' /\ (K!Server!Next \/ UNCHANGED K!Server!vars)
  BY StringStep, HashStep, SortedSetStep DEF K!Next

(* The stand-in implements the server: whatever is called, and in whatever *)
(* order, an answer of class InMemoryRedis (config/redis.ts) is one that a *)
(* Redis server could give, for all values, scores, ranges and times to    *)
(* live.                                                                   *)
THEOREM StandsInForRedis == Spec => ActsLikeRedis
<1>1. Init => StandInInv /\ K!Server!Init
  BY StandInInit DEF Init
<1>2. StandInInv /\ [Next]_vars => StandInInv' /\ [K!Server!Next]_(K!Server!vars)
  <2>1. SUFFICES ASSUME StandInInv, [Next]_vars
                 PROVE  StandInInv' /\ [K!Server!Next]_(K!Server!vars)
    OBVIOUS
  <2>2. CASE K!Next
    <3>1. StandInInv' /\ (K!Server!Next \/ UNCHANGED K!Server!vars)
      BY <2>1, <2>2, StandInStep
    <3>2. QED BY <3>1
  <2>3. CASE UNCHANGED standInVars
    <3>1. UNCHANGED <<strings, hashes, zsets, answer>>
      BY <2>3 DEF standInVars
    <3>2. StandInInv'
      BY <2>1, <3>1 DEF StandInInv
    <3>3. UNCHANGED K!Server!vars
      BY <3>1 DEF K!Server!vars, K!ScoreOf, K!IsExpired
    <3>4. QED BY <3>2, <3>3
  <2>4. QED BY <2>1, <2>2, <2>3, OtherPartsStep
<1>3. QED BY <1>1, <1>2, PTL DEF Spec, ActsLikeRedis, K!ActsLikeRedis, K!Server!Spec

-----------------------------------------------------------------------------
(* Spoken job cards: a link is to an account, since it comes after one.    *)
IntakeTypes == CustomerInv /\ T!TypeOK

LEMMA IntakeTypesInit == Init => IntakeTypes
<1>1. Init => CustomerInv
  BY CustomerInit
<1>2. Init => T!TypeOK
  <2> SUFFICES ASSUME Init PROVE T!TypeOK
    OBVIOUS
  <2>1. T!Init /\ 0 \in 0..MaxJobs
    BY WorkspaceConstants DEF Init, T!VoiceConstants
  <2>2. QED BY <2>1, DraftEmpty DEF T!Init, T!TypeOK
<1>3. QED BY <1>1, <1>2 DEF IntakeTypes

LEMMA IntakeRequests ==
  ASSUME IntakeTypes, NEW q \in Requests, T!Confirm(q) \/ T!FindAccount(q) \/ T!FindProfile(q) \/ T!Abort(q)
  PROVE  T!TypeOK'
  BY DEF IntakeTypes, T!TypeOK, T!Confirm, T!FindAccount, T!FindProfile, T!Abort, T!Goto, T!customers

LEMMA IntakeWrites ==
  ASSUME IntakeTypes, CustomerInv', NEW q \in Requests,
         \/ T!CreateAccount(q) \/ T!CreateProfile(q) \/ T!LinkProfile(q) \/ T!CreateVehicle(q)
         \/ T!CreateRecord(q)
  PROVE  T!TypeOK'
<1>0. T!TypeOK /\ accounts' \subseteq Phones /\ draft' \in [Requests -> T!Draft]
  BY DEF IntakeTypes, CustomerInv, DraftInv
<1>1. CASE T!CreateAccount(q)
  BY <1>0, <1>1 DEF T!TypeOK, T!CreateAccount, T!Goto
<1>2. CASE T!CreateProfile(q)
  BY <1>0, <1>2 DEF T!TypeOK, T!CreateProfile, T!Goto
<1>3. CASE T!LinkProfile(q)
  <2>1. draft[q].phone \in accounts
    BY <1>3 DEF T!LinkProfile, T!At, IntakeTypes, CustomerInv, Found, IsCustomer
  <2>2. QED BY <1>0, <1>3, <2>1 DEF T!TypeOK, T!LinkProfile, T!Goto
<1>4. CASE T!CreateVehicle(q)
  <2>1. draft[q].phone \in Phones
    BY <1>4 DEF T!CreateVehicle, T!At, IntakeTypes, CustomerInv, Found, IsCustomer
  <2>2. QED BY <1>0, <1>4, <2>1 DEF T!TypeOK, T!CreateVehicle, T!Goto, T!customers
<1>5. CASE T!CreateRecord(q)
  <2>1. PICK v : v = draft[q].registrationNumber
    OBVIOUS
  <2>2. jobs' = [jobs EXCEPT ![v] = @ + 1] /\ jobs[v] < MaxJobs /\ MaxJobs \in Nat
    BY <1>5, <2>1, WorkspaceConstants DEF T!CreateRecord, T!VoiceConstants
  <2>3. jobs' \in [Plates -> 0..MaxJobs]
    <3>1. PICK n : n = jobs[v] + 1
      OBVIOUS
    <3>2. v \in Plates => n \in 0..MaxJobs
      BY <1>0, <2>2, <3>1 DEF T!TypeOK
    <3>3. jobs' = [jobs EXCEPT ![v] = n]
      BY <2>2, <3>1
    <3>4. QED BY <1>0, <3>2, <3>3 DEF T!TypeOK
  <2>4. QED BY <1>0, <1>5, <2>3 DEF T!TypeOK, T!CreateRecord, T!Goto, T!customers
<1>6. QED BY <1>1, <1>2, <1>3, <1>4, <1>5

LEMMA IntakeTypesNext ==
  ASSUME IntakeTypes, T!Next \/ UNCHANGED intakeVars
  PROVE  IntakeTypes'
<1>1. CustomerInv'
  BY CustomerNext DEF IntakeTypes
<1>2. CASE UNCHANGED intakeVars
  BY <1>1, <1>2 DEF intakeVars, IntakeTypes, T!TypeOK
<1>3. ASSUME NEW q \in Requests, T!Parse(q) PROVE T!TypeOK'
  BY <1>1, <1>3 DEF IntakeTypes, CustomerInv, DraftInv, T!TypeOK, T!Parse, T!customers
<1>4. ASSUME NEW p \in Phones, T!Register(p) \/ T!DeleteProfile(p) PROVE T!TypeOK'
  BY <1>4 DEF IntakeTypes, T!TypeOK, T!Register, T!DeleteProfile
<1>5. QED BY <1>1, <1>2, <1>3, <1>4, IntakeRequests, IntakeWrites DEF T!Next, IntakeTypes

LEMMA IntakeTyped == Spec => []T!TypeOK
<1>1. IntakeTypes => T!TypeOK
  BY DEF IntakeTypes
<1>2. IntakeTypes /\ [Next]_vars => IntakeTypes'
  BY PartsStep, IntakeTypesNext
<1>3. QED BY IntakeTypesInit, <1>1, <1>2, PTL DEF Spec

-----------------------------------------------------------------------------
(* Organizations: a write is followed by another one, or by the commit.    *)
LEMMA WriteFollows ==
  ASSUME NEW write \in N!Writes
  PROVE  N!After(write) \in N!Writes \cup {"commit"}
<1>1. PICK i \in 1..9 : write = N!Order[i]
  BY AllWritten DEF Before
<1>2. N!After(write) = N!Order[i + 1]
  BY <1>1, NextWrite
<1>3. i + 1 \in 1..9 \/ i + 1 = 10
  OBVIOUS
<1>4. \A j \in 1..9 : N!Order[j] \in N!Writes
  BY AllWritten DEF Before
<1>5. N!Order[10] = "commit"
  BY OrderOfWrites
<1>6. QED BY <1>2, <1>3, <1>4, <1>5

LEMMA OnboardingTypesInit == Init => N!TypeOK
<1> SUFFICES ASSUME Init PROVE N!TypeOK
  OBVIOUS
<1>1. N!Init /\ N!NoForm \in N!Form
  BY WorkspaceConstants DEF Init, N!OnboardingConstants, N!NoForm, N!Form
<1>2. QED BY <1>1 DEF N!Init, N!TypeOK, N!Review

LEMMA OnboardingTypesNext ==
  ASSUME N!TypeOK, N!Next \/ UNCHANGED onboardingVars
  PROVE  N!TypeOK'
<1>0. N!NoForm \in N!Form
  BY WorkspaceConstants DEF N!OnboardingConstants, N!NoForm, N!Form
<1>1. ASSUME NEW s \in Requests, NEW e \in Emails, NEW r \in Registrations, NEW n \in 1..MaxSlug, N!SignUp(s, e, r, n)
      PROVE  N!TypeOK'
  <2>1. PICK f : f = [email |-> e, registration |-> r, slug |-> n]
    OBVIOUS
  <2>2. f \in N!Form
    BY <2>1, WorkspaceConstants DEF N!OnboardingConstants, N!Form
  <2>3. "tenant" \in N!Writes
    BY OrderOfWrites, AllWritten DEF Before
  <2>4. QED BY <1>1, <2>1, <2>2, <2>3 DEF N!TypeOK, N!SignUp
<1>2. ASSUME NEW s \in Requests, N!Rollback(s) PROVE N!TypeOK'
  BY <1>0, <1>2 DEF N!Rollback, N!TypeOK
<1>3. ASSUME NEW s \in Requests, N!Write(s) PROVE N!TypeOK'
  <2>1. PICK write \in N!Writes : write = at[s]
    BY <1>3 DEF N!Write
  <2>2. CASE N!Rollback(s)
    BY <1>2, <2>2
  <2>3. CASE ~N!Rollback(s)
    <3>1. PICK next : next = N!After(write)
      OBVIOUS
    <3>2. next \in N!Writes \cup {"commit"}
      BY <3>1, WriteFollows
    <3>3. /\ written' = [written EXCEPT ![s] = @ \cup {write}] /\ at' = [at EXCEPT ![s] = next]
          /\ UNCHANGED <<form, stored, review, deleted, taken>>
      BY <1>3, <2>1, <2>3, <3>1 DEF N!Write, N!TypeOK
    <3>4. QED BY <3>2, <3>3 DEF N!TypeOK
  <2>4. QED BY <2>2, <2>3
<1>4. ASSUME NEW s \in Requests, N!Commit(s) \/ N!Abort(s) \/ N!Notify(s) \/ N!Delete(s)
      PROVE  N!TypeOK'
  <2>1. CASE N!Abort(s)
    BY <1>2, <2>1 DEF N!Abort
  <2>2. CASE N!Commit(s) \/ N!Notify(s) \/ N!Delete(s)
    BY <2>2 DEF N!Commit, N!Notify, N!Delete, N!TypeOK, N!Review
  <2>3. QED BY <1>4, <2>1, <2>2
<1>5. ASSUME NEW s \in Requests, NEW d \in {"approved", "rejected"}, N!Decide(s, d) PROVE N!TypeOK'
  BY <1>5 DEF N!Decide, N!TypeOK, N!Review
<1>6. ASSUME NEW key \in (1..MaxSlug) \cup Emails \cup Registrations, N!Take(key) PROVE N!TypeOK'
  BY <1>6 DEF N!Take, N!TypeOK
<1>7. CASE UNCHANGED onboardingVars
  BY <1>7 DEF onboardingVars, N!TypeOK
<1>8. QED BY <1>1, <1>3, <1>4, <1>5, <1>6, <1>7 DEF N!Next

LEMMA OnboardingTyped == Spec => []N!TypeOK
<1>1. N!TypeOK /\ [Next]_vars => N!TypeOK'
  BY OtherPartsStep, OnboardingTypesNext
<1>2. QED BY OnboardingTypesInit, <1>1, PTL DEF Spec

-----------------------------------------------------------------------------
(* The centers a vehicle lets in.                                          *)
EntriesTypes == AccessInv /\ Len(entries) <= MaxEntries

LEMMA EntriesTypesNext ==
  ASSUME EntriesTypes, A!Next \/ UNCHANGED accessVars
  PROVE  EntriesTypes'
<1>1. AccessInv'
  BY AccessNext DEF EntriesTypes, AccessStep
<1>0. MaxEntries \in Nat /\ entries \in Seq(A!Entry) /\ Len(entries) <= MaxEntries
  BY WorkspaceConstants DEF A!CenterAccessConstants, EntriesTypes, AccessInv
<1>2. CASE entries' = entries
  BY <1>0, <1>1, <1>2 DEF EntriesTypes
<1>3. ASSUME NEW q \in Requests, A!Written(q, accessReq[q]) PROVE EntriesTypes'
  BY <1>1, <1>3 DEF A!Written, EntriesTypes
<1>4. ASSUME NEW c \in Things, A!GrantAccess(c) PROVE EntriesTypes'
  <2>1. PICK e : entries' = Append(entries, e) /\ Len(entries) < MaxEntries
    BY <1>4 DEF A!GrantAccess
  <2>2. Len(entries') = Len(entries) + 1 /\ Len(entries) \in Nat
    BY <1>0, <2>1
  <2>3. QED BY <1>0, <1>1, <2>1, <2>2 DEF EntriesTypes
<1>5. A!Next => \/ entries' = entries
                \/ \E q \in Requests : A!Written(q, accessReq[q])
                \/ \E c \in Things : A!GrantAccess(c)
  BY DEF A!Next, A!SetAccess, A!Authorize, A!Change, A!SaveVehicle, A!Abort
<1>6. QED BY <1>2, <1>3, <1>4, <1>5 DEF accessVars

LEMMA EntryTyped == Spec => []A!TypeOK
<1>1. EntriesTypes => A!TypeOK
  BY DEF EntriesTypes, AccessInv, A!TypeOK
<1>2. EntriesTypes /\ [Next]_vars => EntriesTypes'
  BY PartsStep, EntriesTypesNext
<1>3. Init => EntriesTypes
  <2>1. Init => entries = << >>
    BY DEF Init, A!Init
  <2>2. Len(<< >>) <= MaxEntries
    BY WorkspaceConstants DEF A!CenterAccessConstants
  <2>3. QED BY <2>1, <2>2, AccessInit DEF EntriesTypes
<1>4. QED BY <1>1, <1>2, <1>3, PTL DEF Spec

(* The parts whose invariants hold their types.                            *)
LEMMA OthersTyped ==
  Spec => [](O!TypeOK /\ D!TypeOK /\ G!TypeOK /\ H!TypeOK /\ X!TypeOK)
<1>1. Init => LoggedInv /\ FileInv /\ PlanInv /\ StaleInv /\ ScopeInv
  BY LoggedInit, FileInit, PlanInit, StaleInit, ScopeInit
<1>2. ASSUME LoggedInv, FileInv, PlanInv, StaleInv, ScopeInv, [Next]_vars
      PROVE  LoggedInv' /\ FileInv' /\ PlanInv' /\ StaleInv' /\ ScopeInv'
  <2>1. LoggedInv' /\ PlanInv'
    BY <1>2, OtherPartsStep, LoggedNext, PlanNext
  <2>2. FileInv'
    BY <1>2, OtherPartsStep, FileNext
  <2>3. StaleInv' /\ ScopeInv'
    BY <1>2, OtherPartsStep, StaleNext, ScopeStep
  <2>4. QED BY <2>1, <2>2, <2>3
<1>3. /\ LoggedInv => O!TypeOK
      /\ FileInv => D!TypeOK
      /\ PlanInv => G!TypeOK
      /\ StaleInv => H!TypeOK
      /\ ScopeInv => X!TypeOK
  BY DEF LoggedInv, FileInv, PlanInv, StaleInv, ScopeInv
<1>4. QED BY <1>1, <1>2, <1>3, PTL DEF Spec

-----------------------------------------------------------------------------
(* Invitations: what accept() goes on with is one use short of the bound.  *)
AcceptTypes(r) == r.pc # "idle" => r.invitation \in Invites /\ r.useCount < MaxUses

InviteTypes == I!TypeOK /\ \A q \in Requests : AcceptTypes(acceptReq[q])

LEMMA InviteValues ==
  /\ I!Idle \in I!Request /\ AcceptTypes(I!Idle) /\ I!NoInvitation \in I!Invitation
  /\ MaxUses \in Nat \ {0} /\ MaxReminders \in Nat
  BY WorkspaceConstants DEF I!InvitationConstants, I!Idle, I!Request, AcceptTypes, I!NoInvitation,
     I!Invitation, I!InvitationTypes

LEMMA InviteTypesInit == Init => InviteTypes
<1>1. Init => I!Init
  BY DEF Init
<1>2. QED BY <1>1, InviteValues DEF I!Init, InviteTypes, I!TypeOK

(* A change of an invitation keeps its type.                               *)
LEMMA InviteTyping ==
  ASSUME InviteTypes, NEW i \in Invites, NEW d \in I!Invitation, inv' = [inv EXCEPT ![i] = d],
         UNCHANGED <<acceptReq, grants, spared, muddled>>
  PROVE  InviteTypes'
  BY DEF InviteTypes, I!TypeOK, AcceptTypes

LEMMA InviteChangesTypes ==
  ASSUME InviteTypes, NEW i \in Invites,
         \/ \E n \in 1..MaxUses : I!Create(i, n)
         \/ I!Revoke(i) \/ I!Update(i) \/ I!SendReminder(i) \/ I!Delete(i) \/ I!Expire(i)
  PROVE  InviteTypes'
<1>1. PICK d : d = inv[i] /\ d \in I!Invitation
  BY DEF InviteTypes, I!TypeOK
<1>2. inv \in [Invites -> I!Invitation] /\ MaxUses \in Nat \ {0} /\ MaxReminders \in Nat
  BY InviteValues DEF InviteTypes, I!TypeOK
<1>3. ASSUME NEW n \in 1..MaxUses, I!Create(i, n) PROVE InviteTypes'
  <2>1. PICK t \in I!InvitationTypes :
          inv' = [inv EXCEPT ![i] = [I!NoInvitation EXCEPT !.type = t, !.status = "pending",
                                                          !.maxUses = n]]
    BY <1>3 DEF I!Create
  <2>2. PICK x : x = [I!NoInvitation EXCEPT !.type = t, !.status = "pending", !.maxUses = n]
    OBVIOUS
  <2>3. x \in I!Invitation
    BY <2>2, InviteValues DEF I!Invitation
  <2>4. inv' = [inv EXCEPT ![i] = x] /\ UNCHANGED <<acceptReq, grants, spared, muddled>>
    BY <1>3, <2>1, <2>2 DEF I!Create
  <2>5. QED BY <2>3, <2>4, InviteTyping
<1>4. ASSUME I!Revoke(i) PROVE InviteTypes'
  <2>1. PICK x : x = [d EXCEPT !.status = "revoked"]
    OBVIOUS
  <2>2. x \in I!Invitation
    BY <1>1, <2>1 DEF I!Invitation
  <2>3. inv' = [inv EXCEPT ![i] = x] /\ UNCHANGED <<acceptReq, grants, spared, muddled>>
    BY <1>1, <1>2, <1>4, <2>1 DEF I!Revoke
  <2>4. QED BY <2>2, <2>3, InviteTyping
<1>5. ASSUME I!Update(i) PROVE InviteTypes'
  <2>1. PICK n \in 1..MaxUses : inv' = [inv EXCEPT ![i].maxUses = n, ![i].past = FALSE]
    BY <1>5 DEF I!Update
  <2>2. PICK x : x = [d EXCEPT !.maxUses = n, !.past = FALSE]
    OBVIOUS
  <2>3. x \in I!Invitation
    BY <1>1, <2>2 DEF I!Invitation
  <2>4. inv' = [inv EXCEPT ![i] = x]
    BY <1>1, <1>2, <2>1, <2>2
  <2>5. UNCHANGED <<acceptReq, grants, spared, muddled>>
    BY <1>5 DEF I!Update
  <2>6. QED BY <2>3, <2>4, <2>5, InviteTyping
<1>6. ASSUME I!SendReminder(i) PROVE InviteTypes'
  <2>1. PICK n : n = d.reminderCount + 1 /\ n \in 0..MaxReminders
    <3>1. d.reminderCount < MaxReminders /\ d.reminderCount \in 0..MaxReminders
      BY <1>1, <1>6 DEF I!SendReminder, I!Invitation
    <3>2. QED BY <1>2, <3>1
  <2>2. PICK s : s = I!OnSave(d)
    OBVIOUS
  <2>3. s \in {"absent", "pending", "accepted", "expired", "revoked", "maxed_out"}
    BY <1>1, <2>2 DEF I!OnSave, I!Invitation
  <2>4. PICK x : x = [d EXCEPT !.reminderCount = n, !.status = s]
    OBVIOUS
  <2>5. x \in I!Invitation
    BY <1>1, <2>1, <2>3, <2>4 DEF I!Invitation
  <2>6. inv' = [inv EXCEPT ![i] = x]
    BY <1>1, <1>2, <1>6, <2>1, <2>2, <2>4 DEF I!SendReminder, I!Invitation
  <2>7. UNCHANGED <<acceptReq, grants, spared, muddled>>
    BY <1>6 DEF I!SendReminder
  <2>8. QED BY <2>5, <2>6, <2>7, InviteTyping
<1>7. ASSUME I!Delete(i) PROVE InviteTypes'
  <2>1. PICK x : x = [d EXCEPT !.isDeleted = TRUE]
    OBVIOUS
  <2>2. x \in I!Invitation
    BY <1>1, <2>1 DEF I!Invitation
  <2>3. inv' = [inv EXCEPT ![i] = x] /\ UNCHANGED <<acceptReq, grants, spared, muddled>>
    BY <1>1, <1>2, <1>7, <2>1 DEF I!Delete
  <2>4. QED BY <2>2, <2>3, InviteTyping
<1>8. ASSUME I!Expire(i) PROVE InviteTypes'
  <2>1. PICK x : x = [d EXCEPT !.past = TRUE]
    OBVIOUS
  <2>2. x \in I!Invitation
    BY <1>1, <2>1 DEF I!Invitation
  <2>3. inv' = [inv EXCEPT ![i] = x] /\ UNCHANGED <<acceptReq, grants, spared, muddled>>
    BY <1>1, <1>2, <1>8, <2>1 DEF I!Expire
  <2>4. QED BY <2>2, <2>3, InviteTyping
<1>9. QED BY <1>3, <1>4, <1>5, <1>6, <1>7, <1>8

LEMMA InviteRemovesTypes ==
  ASSUME InviteTypes, NEW i \in Invites, I!Remove(i)
  PROVE  InviteTypes'
  BY InviteValues DEF InviteTypes, I!TypeOK, AcceptTypes, I!Remove

LEMMA AcceptanceTyping ==
  ASSUME InviteTypes, NEW q \in Requests, NEW r \in I!Request, AcceptTypes(r),
         acceptReq' = [acceptReq EXCEPT ![q] = r],
         inv' \in [Invites -> I!Invitation], grants' \in [Invites -> 0..2],
         spared' \subseteq Invites, muddled' \subseteq Invites
  PROVE  InviteTypes'
  BY DEF InviteTypes, I!TypeOK, AcceptTypes

LEMMA AcceptsTypes ==
  ASSUME InviteTypes, NEW q \in Requests,
         \/ \E i \in Invites : I!Accept(q, i)
         \/ I!GrantAccess(q) \/ I!SaveAccepted(q) \/ I!Abort(q)
  PROVE  InviteTypes'
<1>0. /\ inv \in [Invites -> I!Invitation] /\ acceptReq \in [Requests -> I!Request]
      /\ grants \in [Invites -> 0..2] /\ spared \subseteq Invites /\ muddled \subseteq Invites
      /\ AcceptTypes(acceptReq[q])
  BY DEF InviteTypes, I!TypeOK
<1>1. MaxUses \in Nat \ {0}
  BY InviteValues
<1>2. PICK r : r = acceptReq[q] /\ r \in I!Request /\ AcceptTypes(r)
  BY <1>0
<1>3. ASSUME NEW i \in Invites, I!Accept(q, i) PROVE InviteTypes'
  <2>1. PICK d : d = inv[i] /\ d \in I!Invitation /\ d.useCount < d.maxUses
    BY <1>0, <1>3 DEF I!Accept, I!IsValid
  <2>2. PICK last \in BOOLEAN : last = (d.useCount + 1 >= d.maxUses)
    <3>1. CASE d.useCount + 1 >= d.maxUses
      BY <3>1
    <3>2. CASE ~(d.useCount + 1 >= d.maxUses)
      <4>1. FALSE = (d.useCount + 1 >= d.maxUses)
        BY <3>2
      <4>2. QED BY <4>1, Zenon
    <3>3. QED BY <3>1, <3>2
  <2>3. PICK pc \in {"grant", "accept"} : pc = IF last THEN "grant" ELSE "accept"
    BY <2>2
  <2>4. PICK x : x = [I!Idle EXCEPT !.pc = pc, !.invitation = i, !.useCount = d.useCount, !.last = last]
    OBVIOUS
  <2>5. d.useCount \in 0..MaxUses /\ d.useCount < MaxUses
    BY <1>1, <2>1 DEF I!Invitation
  <2>6. x \in I!Request /\ x.invitation \in Invites /\ x.useCount < MaxUses
    BY <2>2, <2>3, <2>4, <2>5 DEF I!Idle, I!Request
  <2>7. acceptReq' = [acceptReq EXCEPT ![q] = x] /\ UNCHANGED <<inv, grants, spared>>
    BY <1>3, <2>1, <2>2, <2>3, <2>4 DEF I!Accept, I!Start
  <2>8. muddled' \subseteq Invites
    BY <1>0, <1>3 DEF I!Accept
  <2>9. AcceptTypes(x)
    BY <2>6 DEF AcceptTypes
  <2>10. QED BY <1>0, <2>6, <2>7, <2>8, <2>9, AcceptanceTyping
<1>4. ASSUME I!GrantAccess(q) PROVE InviteTypes'
  <2>1. PICK x : x = [r EXCEPT !.pc = "accept"]
    OBVIOUS
  <2>2. x \in I!Request /\ AcceptTypes(x)
    BY <1>2, <1>4, <2>1 DEF I!GrantAccess, I!Request, AcceptTypes
  <2>3. acceptReq' = [acceptReq EXCEPT ![q] = x] /\ inv' = inv /\ muddled' = muddled
    BY <1>0, <1>2, <1>4, <2>1 DEF I!GrantAccess
  <2>4. grants' \in [Invites -> 0..2] /\ spared' \subseteq Invites
    <3>1. PICK i : i = r.invitation /\ i \in Invites
      BY <1>2, <1>4 DEF I!GrantAccess, AcceptTypes
    <3>2. PICK n \in 0..2 : n = IF grants[i] < 2 THEN grants[i] + 1 ELSE grants[i]
      BY <1>0, <3>1
    <3>3. \/ grants' = [grants EXCEPT ![i] = n] /\ spared' = spared
          \/ grants' = grants /\ spared' = spared \cup {i}
      BY <1>2, <1>4, <3>1, <3>2 DEF I!GrantAccess
    <3>4. QED BY <1>0, <3>1, <3>3
  <2>5. QED BY <1>0, <2>2, <2>3, <2>4, AcceptanceTyping
<1>5. ASSUME I!SaveAccepted(q) PROVE InviteTypes'
  <2>1. PICK i : i = r.invitation /\ i \in Invites /\ r.useCount < MaxUses /\ r.useCount \in 0..MaxUses
    BY <1>2, <1>5 DEF I!SaveAccepted, AcceptTypes, I!Request
  <2>2. PICK n : n = r.useCount + 1 /\ n \in 0..MaxUses
    BY <1>1, <2>1
  <2>3. PICK d : d = [inv[i] EXCEPT !.useCount = n]
    OBVIOUS
  <2>4. d \in I!Invitation
    BY <1>0, <2>1, <2>2, <2>3 DEF I!Invitation
  <2>5. PICK s : s = IF r.last THEN "accepted" ELSE IF d.status = "pending" THEN I!OnSave(d) ELSE d.status
    OBVIOUS
  <2>6. s \in {"absent", "pending", "accepted", "expired", "revoked", "maxed_out"}
    BY <2>4, <2>5 DEF I!OnSave, I!Invitation
  <2>7. PICK x : x = [d EXCEPT !.status = s]
    OBVIOUS
  <2>8. x \in I!Invitation
    BY <2>4, <2>6, <2>7 DEF I!Invitation
  <2>9. inv' = [inv EXCEPT ![i] = x]
    BY <1>2, <1>5, <2>1, <2>2, <2>3, <2>5, <2>7 DEF I!SaveAccepted
  <2>10. acceptReq' = [acceptReq EXCEPT ![q] = I!Idle] /\ UNCHANGED <<grants, spared, muddled>>
    BY <1>5 DEF I!SaveAccepted, I!Answer
  <2>11. inv' \in [Invites -> I!Invitation]
    BY <1>0, <2>8, <2>9
  <2>12. QED BY <1>0, <2>10, <2>11, InviteValues, AcceptanceTyping
<1>6. ASSUME I!Abort(q) PROVE InviteTypes'
  <2>1. muddled' \subseteq Invites
    BY <1>0, <1>2, <1>6 DEF I!Abort, AcceptTypes
  <2>2. acceptReq' = [acceptReq EXCEPT ![q] = I!Idle] /\ UNCHANGED <<inv, grants, spared>>
    BY <1>6 DEF I!Abort, I!Answer
  <2>3. QED BY <1>0, <2>1, <2>2, InviteValues, AcceptanceTyping
<1>7. QED BY <1>3, <1>4, <1>5, <1>6

LEMMA InviteTypesNext ==
  ASSUME InviteTypes, I!Next \/ UNCHANGED invitationsVars
  PROVE  InviteTypes'
<1>1. CASE UNCHANGED invitationsVars
  BY <1>1 DEF invitationsVars, InviteTypes, I!TypeOK, AcceptTypes
<1>2. CASE I!Next
  BY <1>2, AcceptsTypes, InviteChangesTypes, InviteRemovesTypes DEF I!Next
<1>3. QED BY <1>1, <1>2

LEMMA InviteTyped == Spec => []I!TypeOK
<1>1. InviteTypes => I!TypeOK
  BY DEF InviteTypes
<1>2. InviteTypes /\ [Next]_vars => InviteTypes'
  BY OtherPartsStep, InviteTypesNext
<1>3. QED BY InviteTypesInit, <1>1, <1>2, PTL DEF Spec

(* Sums.  The number of all in a set of bounded numbers is that of as many *)
(* pairs, which shows that the sum is defined and how large it may be.     *)
AddUp(n, s) ==
  LET iter[t \in SUBSET s] ==
        IF t = {} THEN 0 ELSE LET x == CHOOSE x \in t : TRUE IN n[x] + iter[t \ {x}]
  IN  iter[s]

Pile(n, b, s) == {e \in s \X (0..b) : e[2] < n[e[1]]}

LEMMA PileFinite ==
  ASSUME NEW n, NEW b \in Nat, NEW s, IsFiniteSet(s)
  PROVE  /\ IsFiniteSet(Pile(n, b, s)) /\ Cardinality(Pile(n, b, s)) \in Nat
         /\ Pile(n, b, {}) = {}
<1>1. IsFiniteSet(0..b)
  BY FS_Interval
<1>2. IsFiniteSet(s \X (0..b))
  BY <1>1, FS_Product
<1>3. Pile(n, b, s) \subseteq s \X (0..b)
  BY DEF Pile
<1>4. IsFiniteSet(Pile(n, b, s))
  BY <1>2, <1>3, FS_Subset
<1>5. Pile(n, b, {}) = {}
  BY DEF Pile
<1>6. QED BY <1>4, <1>5, FS_CardinalityType

LEMMA FirstNumbers ==
  ASSUME NEW m \in Nat
  PROVE  IsFiniteSet(1..m) /\ Cardinality(1..m) = m
BY FS_Interval

LEMMA PileOne ==
  ASSUME NEW n, NEW b \in Nat, NEW x, n[x] \in 0..b
  PROVE  Cardinality(Pile(n, b, {x})) = n[x]
<1>1. PICK m \in Nat : m = n[x] /\ m <= b
  OBVIOUS
<1>2. PICK p : p = Pile(n, b, {x}) /\ p = {e \in {x} \X (0..b) : e[2] < m}
  BY <1>1 DEF Pile
<1>3. PICK f : f = [k \in 1..m |-> <<x, k - 1>>]
  OBVIOUS
<1>4. \A k \in 1..m : f[k] \in p
  <2>1. TAKE k \in 1..m
  <2>2. k - 1 \in 0..b /\ k - 1 < m
    BY <1>1
  <2>3. f[k] = <<x, k - 1>>
    BY <1>3
  <2>4. QED BY <1>2, <2>2, <2>3
<1>5. f \in [1..m -> p]
  BY <1>3, <1>4
<1>6. \A j, k \in 1..m : f[j] = f[k] => j = k
  BY <1>3
<1>7. \A e \in p : \E k \in 1..m : f[k] = e
  <2>1. TAKE e \in p
  <2>2. e = <<x, e[2]>> /\ e[2] \in 0..b /\ e[2] < m
    BY <1>2
  <2>3. e[2] + 1 \in 1..m /\ f[e[2] + 1] = e
    BY <1>3, <2>2
  <2>4. QED BY <2>3
<1>8. f \in Bijection(1..m, p)
  BY <1>5, <1>6, <1>7 DEF Bijection, Injection, Surjection, IsInjective
<1>9. IsFiniteSet(1..m) /\ Cardinality(1..m) = m
  BY FirstNumbers
<1>10. ExistsBijection(1..m, p)
  BY <1>8 DEF ExistsBijection
<1>11. QED BY <1>1, <1>2, <1>9, <1>10, FS_Bijection

LEMMA PileMore ==
  ASSUME NEW n, NEW b \in Nat, NEW s, IsFiniteSet(s), NEW x, x \notin s, n[x] \in 0..b
  PROVE  Cardinality(Pile(n, b, s \cup {x})) = n[x] + Cardinality(Pile(n, b, s))
<1>1. PICK p, o : p = Pile(n, b, s) /\ o = Pile(n, b, {x})
  OBVIOUS
<1>2. Pile(n, b, s \cup {x}) = p \cup o /\ p \cap o = {}
  BY <1>1 DEF Pile
<1>3. IsFiniteSet(p) /\ Cardinality(p) \in Nat
  BY <1>1, PileFinite
<1>4. IsFiniteSet(o) /\ Cardinality(o) = n[x]
  BY <1>1, PileOne, PileFinite, FS_Singleton
<1>5. Cardinality(p \cup o) = Cardinality(p) + Cardinality(o) - Cardinality({})
  BY <1>2, <1>3, <1>4, FS_Union
<1>6. Cardinality(p) + n[x] - 0 = n[x] + Cardinality(p)
  BY <1>3
<1>7. QED BY <1>1, <1>2, <1>4, <1>5, <1>6, FS_EmptySet

LEMMA SumBounded ==
  ASSUME NEW b \in Nat, NEW base, IsFiniteSet(base), NEW n, \A x \in base : n[x] \in 0..b,
         NEW zero, \A x \in zero : n[x] = 0
  PROVE  AddUp(n, base) \in Nat /\ AddUp(n, base) <= b * Cardinality(base \ zero)
<1> DEFINE c(s) == CHOOSE x \in s : TRUE
           iter == CHOOSE f : f = [s \in SUBSET base |-> IF s = {} THEN 0 ELSE n[c(s)] + f[s \ {c(s)}]]
           h == [s \in SUBSET base |-> Cardinality(Pile(n, b, s))]
           Fits(s) == iter[s] \in Nat /\ iter[s] <= b * Cardinality(s \ zero)
           Bad == {s \in SUBSET base : ~Fits(s)}
<1>1. AddUp(n, base) = iter[base]
  BY DEF AddUp
<1>2. ASSUME NEW s \in SUBSET base, s # {}
      PROVE  \E x \in s, u \in SUBSET base :
               x = c(s) /\ u = s \ {x} /\ s = u \cup {x} /\ IsFiniteSet(u) /\ n[x] \in 0..b
  <2>1. PICK x : x = c(s)
    OBVIOUS
  <2>2. x \in s
    BY <1>2, <2>1
  <2>3. PICK u : u = s \ {x}
    OBVIOUS
  <2>4. u \in SUBSET base /\ s = u \cup {x} /\ n[x] \in 0..b
    BY <2>2, <2>3
  <2>5. IsFiniteSet(u)
    BY <2>4, FS_Subset
  <2>6. QED BY <2>1, <2>2, <2>3, <2>4, <2>5
<1> HIDE DEF c
<1>3. ASSUME NEW s \in SUBSET base
      PROVE  h[s] = IF s = {} THEN 0 ELSE n[c(s)] + h[s \ {c(s)}]
  <2>1. h[s] = Cardinality(Pile(n, b, s))
    OBVIOUS
  <2>2. CASE s = {}
    BY <2>1, <2>2, PileFinite, FS_EmptySet
  <2>3. CASE s # {}
    <3>1. PICK x \in s, u \in SUBSET base :
            x = c(s) /\ u = s \ {x} /\ s = u \cup {x} /\ IsFiniteSet(u) /\ n[x] \in 0..b
      BY <1>2, <2>3
    <3>2. x \notin u /\ IsFiniteSet(u) /\ n[x] \in 0..b
      BY <3>1
    <3>3. Cardinality(Pile(n, b, u \cup {x})) = n[x] + Cardinality(Pile(n, b, u))
      BY <3>2, PileMore
    <3>4. h[u] = Cardinality(Pile(n, b, u))
      OBVIOUS
    <3> HIDE DEF h
    <3>5. h[s] = n[x] + h[u]
      BY <2>1, <3>1, <3>3, <3>4
    <3>6. QED BY <2>3, <3>1, <3>5
  <2>4. QED BY <2>2, <2>3
<1>4. h = [s \in SUBSET base |-> IF s = {} THEN 0 ELSE n[c(s)] + h[s \ {c(s)}]]
  BY <1>3
<1>5. iter = [s \in SUBSET base |-> IF s = {} THEN 0 ELSE n[c(s)] + iter[s \ {c(s)}]]
  <2> HIDE DEF h
  <2>1. QED BY <1>4
<1> HIDE DEF iter, h
<1>6. ASSUME Bad # {} PROVE FALSE
  <2>1. PICK s \in Bad : \A u \in Bad : u \subseteq s => u = s
    <3>1. Bad \in SUBSET SUBSET base
      OBVIOUS
    <3> HIDE DEF Bad
    <3>2. QED BY <1>6, <3>1, LeastSet
  <2>2. s \in SUBSET base /\ ~Fits(s)
    OBVIOUS
  <2>3. s # {}
    <3>1. iter[{}] = 0
      BY <1>5
    <3>2. {} \ zero = {} /\ Cardinality({}) = 0
      BY FS_EmptySet
    <3>3. Fits({})
      BY <3>1, <3>2
    <3>4. QED BY <2>2, <3>3
  <2>4. PICK x \in s, u \in SUBSET base :
          x = c(s) /\ u = s \ {x} /\ s = u \cup {x} /\ IsFiniteSet(u) /\ n[x] \in 0..b
    BY <1>2, <2>2, <2>3
  <2>5. x \notin u /\ u \subseteq s /\ u # s
    BY <2>4
  <2>6. Fits(u)
    BY <2>1, <2>4, <2>5
  <2>7. iter[s] = n[x] + iter[u]
    BY <1>5, <2>2, <2>3, <2>4
  <2>8. PICK rest : rest = u \ zero /\ IsFiniteSet(rest) /\ x \notin rest
    <3>1. IsFiniteSet(u) /\ u \ zero \in SUBSET u
      BY <2>4
    <3>2. IsFiniteSet(u \ zero)
      BY <3>1, FS_Subset
    <3>3. QED BY <2>5, <3>2
  <2>9. PICK k \in Nat : k = Cardinality(rest) /\ iter[u] <= b * k /\ iter[u] \in Nat
    BY <2>6, <2>8, FS_CardinalityType
  <2>10. PICK m \in Nat : m = b * k
    BY <2>9
  <2>11. CASE x \in zero
    <3>1. n[x] = 0 /\ s \ zero = rest
      BY <2>4, <2>8, <2>11
    <3>2. iter[s] = iter[u]
      BY <2>7, <2>9, <3>1
    <3>3. QED BY <2>9, <3>1, <3>2
  <2>12. CASE x \notin zero
    <3>1. s \ zero = rest \cup {x}
      BY <2>4, <2>8, <2>12
    <3>2. Cardinality(s \ zero) = k + 1
      BY <2>8, <2>9, <3>1, FS_AddElement
    <3>3. b * (k + 1) = m + b
      BY <2>9, <2>10
    <3>4. n[x] + iter[u] \in Nat /\ n[x] + iter[u] <= m + b
      BY <2>4, <2>9, <2>10
    <3>5. QED BY <2>7, <3>2, <3>3, <3>4
  <2>13. QED BY <2>2, <2>11, <2>12
<1>7. base \notin Bad
  BY <1>6
<1>8. QED BY <1>1, <1>7

(* Reviews: the mean of ratings is no more than the highest one, and there *)
(* are no more of them than accounts.                                      *)
LEMMA Quotients ==
  ASSUME NEW x \in Nat, NEW d \in Nat \ {0}
  PROVE  x \div d \in Nat /\ d * (x \div d) \in Nat /\ d * (x \div d) <= x
OBVIOUS

LEMMA QuotientBounded ==
  ASSUME NEW k \in Nat, NEW d \in Nat \ {0}, NEW n \in Nat, n < d, NEW x \in Nat, x <= k * d + n
  PROVE  x \div d \in 0..k
<1>1. PICK y \in Nat : y = x \div d /\ d * y <= x
  BY Quotients
<1>2. ASSUME y > k PROVE FALSE
  <2>1. PICK j \in Nat : y = k + 1 + j
    <3>1. y - k - 1 \in Nat /\ y = k + 1 + (y - k - 1)
      BY <1>2
    <3>2. QED BY <3>1
  <2>2. PICK p, r \in Nat : p = d * j /\ r = k * d
    <3>1. d * j \in Nat /\ k * d \in Nat
      OBVIOUS
    <3>2. QED BY <3>1
  <2>3. d * y = r + d + p
    BY <2>1, <2>2
  <2>4. QED BY <1>1, <2>2, <2>3
<1>3. QED BY <1>1, <1>2

LEMMA SummaryTyped ==
  ASSUME IsFiniteSet(Things), reviews \in [Things -> 0..MaxRating]
  PROVE  R!GetRatingSummary \in R!Stats
<1>1. MaxRating \in Nat \ {0}
  BY WorkspaceConstants DEF R!ReviewConstants
<1>2. PICK rated : rated = {a \in Things : reviews[a] > 0}
  OBVIOUS
<1>3. IsFiniteSet(rated) /\ Cardinality(rated) <= Cardinality(Things)
  BY <1>2, FS_Subset
<1>4. Cardinality(Things) \in Nat /\ Cardinality(rated) \in Nat
  BY <1>3, FS_CardinalityType
<1>5. PICK n, size \in Nat : n = Cardinality(rated) /\ size = Cardinality(Things) /\ n <= size
  BY <1>3, <1>4
<1>6. R!Cardinality(rated) = n /\ R!Cardinality(Things) = size
  BY <1>5 DEF R!Cardinality, Cardinality
<1>7. CASE n = 0
  <2>1. R!GetRatingSummary = R!NoStats
    BY <1>2, <1>6, <1>7 DEF R!GetRatingSummary, R!RatingSummary
  <2>2. 0 \in 0..(100 * MaxRating) /\ 0 \in 0..size
    BY <1>1
  <2>3. QED BY <1>6, <2>1, <2>2 DEF R!Stats, R!NoStats
<1>8. CASE n # 0
  <2>1. R!MapThenSumSet(LAMBDA a : reviews[a], rated) = AddUp(reviews, rated)
    BY DEF AddUp, R!MapThenSumSet, R!MapThenFoldSet
  <2>2. \A a \in rated : reviews[a] \in 0..MaxRating
    BY <1>2
  <2>3. PICK sum \in Nat : sum = AddUp(reviews, rated) /\ sum <= MaxRating * n
    <3>1. rated \ {} = rated /\ MaxRating \in Nat /\ \A a \in {} : reviews[a] = 0
      BY <1>1
    <3>2. /\ AddUp(reviews, rated) \in Nat
          /\ AddUp(reviews, rated) <= MaxRating * Cardinality(rated \ {})
      BY <1>3, <2>2, <3>1, SumBounded
    <3>3. QED BY <1>5, <3>1, <3>2
  <2>4. PICK k, d, x \in Nat : k = 100 * MaxRating /\ d = 2 * n /\ x = 200 * sum + n
    <3>1. 100 * MaxRating \in Nat /\ 2 * n \in Nat /\ 200 * sum + n \in Nat
      BY <1>1
    <3>2. QED BY <3>1
  <2>5. x <= k * d + n
    <3>1. PICK p \in Nat : p = MaxRating * n
      BY <1>1
    <3>2. k * d = 200 * p
      BY <1>1, <2>4, <3>1
    <3>3. QED BY <2>3, <2>4, <3>1, <3>2
  <2>6. d \in Nat \ {0} /\ n < d
    BY <1>8, <2>4
  <2>7. x \div d \in 0..k
    BY <2>5, <2>6, QuotientBounded
  <2>8. R!GetRatingSummary = [averageRating |-> x \div d, totalReviews |-> n]
    BY <1>2, <1>6, <1>8, <2>1, <2>3, <2>4 DEF R!GetRatingSummary, R!RatingSummary
  <2>9. n \in 0..size
    BY <1>5
  <2>10. QED BY <1>6, <2>4, <2>7, <2>8, <2>9 DEF R!Stats
<1>9. QED BY <1>7, <1>8

ReviewTypes ==
  R!TypeOK /\ \A q \in Requests : reviewReq[q].pc # "idle" => reviewReq[q].account \in Things

LEMMA ReviewIdle ==
  ASSUME IsFiniteSet(Things)
  PROVE  R!NoStats \in R!Stats /\ R!Idle \in R!Request /\ R!Idle.pc = "idle"
<1>1. MaxRating \in Nat \ {0}
  BY WorkspaceConstants DEF R!ReviewConstants
<1>2. R!Cardinality(Things) \in Nat
  <2>1. R!Cardinality(Things) = Cardinality(Things)
    BY DEF R!Cardinality, Cardinality
  <2>2. QED BY <2>1, FS_CardinalityType
<1>3. R!NoStats \in R!Stats
  BY <1>1, <1>2 DEF R!NoStats, R!Stats
<1>4. QED BY <1>1, <1>3 DEF R!Idle, R!Request

LEMMA ReviewTypesStep ==
  ASSUME IsFiniteSet(Things), ReviewTypes, NEW q \in Requests,
         \/ R!UpsertForCenter(q) \/ R!Summarise(q) \/ R!SyncCenterRating(q) \/ R!Abort(q)
         \/ \E a \in Things, n \in 1..MaxRating : R!AddReview(q, a, n)
  PROVE  ReviewTypes'
<1>1. /\ reviews \in [Things -> 0..MaxRating] /\ stats \in R!Stats
      /\ reviewReq \in [Requests -> R!Request] /\ reviewStale \in BOOLEAN
  BY DEF ReviewTypes, R!TypeOK
<1>2. PICK r \in R!Request : r = reviewReq[q] /\ (r.pc # "idle" => r.account \in Things)
  BY <1>1 DEF ReviewTypes
<1>3. MaxRating \in Nat \ {0}
  BY WorkspaceConstants DEF R!ReviewConstants
<1>4. PICK held : held = R!GetRatingSummary /\ held \in R!Stats
  BY <1>1, SummaryTyped
<1>5. PICK x \in R!Request : /\ reviewReq' = [reviewReq EXCEPT ![q] = x]
                             /\ x.pc # "idle" => x.account \in Things
  <2>1. ASSUME NEW a \in Things, NEW n \in 1..MaxRating, R!AddReview(q, a, n)
        PROVE  \E x \in R!Request : /\ reviewReq' = [reviewReq EXCEPT ![q] = x]
                                    /\ x.pc # "idle" => x.account \in Things
    <3>1. PICK x : x = [R!Idle EXCEPT !.pc = "upsert", !.account = a, !.rating = n]
      OBVIOUS
    <3>2. n \in 0..MaxRating
      BY <1>3
    <3>3. x \in R!Request /\ x.account = a
      BY <3>1, <3>2, ReviewIdle DEF R!Request
    <3>4. QED BY <2>1, <3>1, <3>3 DEF R!AddReview
  <2>2. CASE R!UpsertForCenter(q)
    <3>1. PICK x : x = [r EXCEPT !.pc = "summary"]
      OBVIOUS
    <3>2. x \in R!Request /\ x.account = r.account
      BY <3>1 DEF R!Request
    <3>3. QED BY <1>2, <2>2, <3>1, <3>2 DEF R!UpsertForCenter
  <2>3. CASE R!Summarise(q)
    <3>1. PICK x : x = [r EXCEPT !.pc = "store", !.held = held]
      OBVIOUS
    <3>2. x \in R!Request /\ x.account = r.account
      BY <1>4, <3>1 DEF R!Request
    <3>3. reviewReq' = [reviewReq EXCEPT ![q] = x]
      BY <1>1, <1>2, <1>4, <2>3, <3>1 DEF R!Summarise
    <3>4. QED BY <1>2, <2>3, <3>2, <3>3 DEF R!Summarise
  <2>4. CASE R!SyncCenterRating(q) \/ R!Abort(q)
    BY <2>4, ReviewIdle DEF R!SyncCenterRating, R!Abort
  <2>5. QED BY <2>1, <2>2, <2>3, <2>4
<1>6. reviews' \in [Things -> 0..MaxRating]
  BY <1>1, <1>2 DEF R!UpsertForCenter, R!Summarise, R!SyncCenterRating, R!Abort, R!AddReview, R!Request
<1>7. stats' \in R!Stats
  BY <1>1, <1>2 DEF R!UpsertForCenter, R!Summarise, R!SyncCenterRating, R!Abort, R!AddReview, R!Request
<1>8. reviewStale' \in BOOLEAN
  BY <1>1 DEF R!UpsertForCenter, R!Summarise, R!SyncCenterRating, R!Abort, R!AddReview
<1>9. QED BY <1>1, <1>5, <1>6, <1>7, <1>8 DEF ReviewTypes, R!TypeOK

LEMMA ReviewTypesNext ==
  ASSUME IsFiniteSet(Things), ReviewTypes, R!Next \/ UNCHANGED reviewsVars
  PROVE  ReviewTypes'
<1>1. CASE R!Next
  BY <1>1, ReviewTypesStep DEF R!Next
<1>2. CASE UNCHANGED reviewsVars
  BY <1>2 DEF reviewsVars, ReviewTypes, R!TypeOK
<1>3. QED BY <1>1, <1>2

LEMMA ReviewTyped ==
  ASSUME IsFiniteSet(Things)
  PROVE  Spec => []R!TypeOK
<1>1. ReviewTypes => R!TypeOK
  BY DEF ReviewTypes
<1>2. Init => ReviewTypes
  <2> SUFFICES ASSUME Init PROVE ReviewTypes
    OBVIOUS
  <2>1. R!Init
    BY DEF Init
  <2>2. reviews \in [Things -> 0..MaxRating]
    BY <2>1, WorkspaceConstants DEF R!ReviewConstants, R!Init
  <2>3. stats \in R!Stats /\ reviewReq = [q \in Requests |-> R!Idle] /\ reviewStale \in BOOLEAN
    BY <2>1, ReviewIdle DEF R!Init
  <2>4. QED BY <2>2, <2>3, ReviewIdle DEF ReviewTypes, R!TypeOK
<1>3. ReviewTypes /\ [Next]_vars => ReviewTypes'
  BY OtherPartsStep, ReviewTypesNext
<1>4. QED BY <1>1, <1>2, <1>3, PTL DEF Spec

(* Vehicles: what a request goes on with is of existing vehicles and       *)
(* owners, and a profile is as long as what it may list: there is room for *)
(* the vehicle that it has not listed yet.                                 *)
GoesOn(r) ==
  /\ r.pc \in {"owner", "save", "garage"} => r.on \in Vehicles /\ r.to \in Things /\ r.from \in Things
  /\ r.pc = "list" => r.on \in Vehicles /\ r.to \in Things /\ r.length < V!MaxTotal

Slots(f) == f \in [Requests -> V!Request] /\ \A q \in Requests : GoesOn(f[q])

VehicleTypes ==
  /\ OwnerInv
  /\ garage \in [Things -> [Vehicles -> 0..MaxListed]]
  /\ total \in [Things -> 0..V!MaxTotal]
  /\ Slots(vehicleReq)
  /\ vehicleStale \subseteq Things /\ typed \subseteq Things

LEMMA VehicleNumbers ==
  /\ MaxHistory \in Nat \ {0} /\ MaxListed \in Nat \ {0} /\ IsFiniteSet(Vehicles)
  /\ V!Cardinality(Vehicles) = Cardinality(Vehicles) /\ Cardinality(Vehicles) \in Nat
  /\ V!MaxTotal = MaxListed * Cardinality(Vehicles) /\ V!MaxTotal \in Nat
  /\ Cardinality(Vehicles) <= V!MaxTotal
<1>1. /\ MaxHistory \in Nat \ {0} /\ MaxListed \in Nat \ {0} /\ V!IsFiniteSet(Vehicles)
  BY WorkspaceConstants DEF V!VehicleConstants
<1>2. IsFiniteSet(Vehicles)
  BY <1>1 DEF V!IsFiniteSet, IsFiniteSet
<1>3. V!Cardinality(Vehicles) = Cardinality(Vehicles)
  BY DEF V!Cardinality, Cardinality
<1>4. PICK c \in Nat : c = Cardinality(Vehicles)
  BY <1>2, FS_CardinalityType
<1>5. V!MaxTotal = MaxListed * c
  BY <1>3, <1>4 DEF V!MaxTotal
<1>6. PICK k \in Nat : MaxListed = k + 1
  <2>1. MaxListed - 1 \in Nat /\ MaxListed = (MaxListed - 1) + 1
    BY <1>1
  <2>2. QED BY <2>1
<1>7. PICK m \in Nat : m = k * c
  OBVIOUS
<1>8. MaxListed * c = m + c
  BY <1>4, <1>6, <1>7
<1>9. QED BY <1>1, <1>2, <1>3, <1>4, <1>5, <1>7, <1>8

LEMMA LengthBounded ==
  ASSUME NEW o, garage[o] \in [Vehicles -> 0..MaxListed], NEW v \in Vehicles, garage[o][v] = 0
  PROVE  V!Length(o) \in Nat /\ V!Length(o) < V!MaxTotal
<1>1. PICK g : g = garage[o] /\ g \in [Vehicles -> 0..MaxListed] /\ g[v] = 0
  OBVIOUS
<1>2. V!Length(o) = AddUp(g, Vehicles)
  BY <1>1 DEF V!Length, AddUp, V!MapThenSumSet, V!MapThenFoldSet
<1>3. MaxListed \in Nat /\ IsFiniteSet(Vehicles) /\ \A x \in {v} : g[x] = 0
  BY <1>1, VehicleNumbers
<1>4. \A x \in Vehicles : g[x] \in 0..MaxListed
  BY <1>1
<1>5. AddUp(g, Vehicles) \in Nat /\ AddUp(g, Vehicles) <= MaxListed * Cardinality(Vehicles \ {v})
  BY <1>3, <1>4, SumBounded
<1>6. PICK c \in Nat : c = Cardinality(Vehicles \ {v}) /\ Cardinality(Vehicles) = c + 1
  <2>1. PICK rest : rest = Vehicles \ {v} /\ IsFiniteSet(rest) /\ v \notin rest
    <3>1. Vehicles \ {v} \in SUBSET Vehicles
      OBVIOUS
    <3>2. IsFiniteSet(Vehicles \ {v})
      BY <1>3, <3>1, FS_Subset
    <3>3. QED BY <3>2
  <2>2. Cardinality(rest \cup {v}) = Cardinality(rest) + 1 /\ Cardinality(rest) \in Nat
    BY <2>1, FS_AddElement, FS_CardinalityType
  <2>3. rest \cup {v} = Vehicles
    BY <2>1
  <2>4. QED BY <2>1, <2>2, <2>3
<1>7. PICK m \in Nat : m = MaxListed * c
  BY <1>3
<1>8. V!MaxTotal = m + MaxListed
  BY <1>3, <1>6, <1>7, VehicleNumbers
<1>9. MaxListed > 0
  BY VehicleNumbers
<1>10. QED BY <1>2, <1>3, <1>5, <1>6, <1>7, <1>8, <1>9

LEMMA CountTyped ==
  ASSUME NEW o
  PROVE  CountOf(o) \in 0..V!Cardinality(Vehicles)
<1>1. V!OwnedBy(o) \in SUBSET Vehicles
  BY DEF V!OwnedBy
<1>2. CountOf(o) = Cardinality(V!OwnedBy(o))
  BY DEF CountOf, V!Cardinality, Cardinality
<1>3. Cardinality(V!OwnedBy(o)) \in Nat /\ Cardinality(V!OwnedBy(o)) <= Cardinality(Vehicles)
  BY <1>1, VehicleNumbers, FS_Subset, FS_CardinalityType
<1>4. QED BY <1>2, <1>3, VehicleNumbers

(* Who owns a vehicle is an owner. *)
LEMMA OwnerTyped ==
  ASSUME OwnerInv, NEW v \in Vehicles, V!Exists(v)
  PROVE  /\ vehicle[v].owner \in Things /\ vehicle[v].history \in Seq(V!Entry)
         /\ V!Open(vehicle[v].history) = {Len(vehicle[v].history)}
         /\ Len(vehicle[v].history) \in Nat \ {0}
<1>1. PICK h : h = vehicle[v].history /\ h \in Seq(V!Entry)
  BY DEF OwnerInv, V!Vehicle
<1>2. V!Open(h) = {Len(h)} /\ h[Len(h)].owner = vehicle[v].owner
  BY <1>1 DEF OwnerInv, V!HistoryMatchesOwner
<1>3. Len(h) \in DOMAIN h
  BY <1>2 DEF V!Open
<1>4. h[Len(h)] \in V!Entry /\ Len(h) \in Nat \ {0}
  BY <1>1, <1>3
<1>5. QED BY <1>1, <1>2, <1>4 DEF V!Entry

LEMMA VehicleIdle == V!Idle \in V!Request /\ GoesOn(V!Idle)
<1>1. 0 \in 0..MaxHistory /\ 0 \in 0..V!MaxTotal
  BY VehicleNumbers
<1>2. QED BY <1>1 DEF V!Idle, V!Request, GoesOn

LEMMA RecountingTyped ==
  ASSUME NEW due \in SUBSET Things
  PROVE  V!Recounting(due) \in V!Request /\ GoesOn(V!Recounting(due))
<1>1. PICK n : n = [V!Idle EXCEPT !.pc = "recount", !.due = due]
  OBVIOUS
<1>2. n \in V!Request /\ n.pc = "recount"
  BY <1>1, VehicleIdle DEF V!Request
<1>3. QED BY <1>1, <1>2 DEF V!Recounting, GoesOn

LEMMA SlotsChange ==
  ASSUME NEW f, Slots(f), NEW q \in Requests, NEW n \in V!Request, GoesOn(n)
  PROVE  Slots([f EXCEPT ![q] = n])
BY DEF Slots

LEMMA SlotsOutdated ==
  ASSUME Slots(vehicleReq), NEW U, NEW q
  PROVE  Slots(V!Outdated(U, q))
<1>1. ASSUME NEW p \in Requests
      PROVE  V!Outdated(U, q)[p] \in V!Request /\ GoesOn(V!Outdated(U, q)[p])
  <2>1. PICK r : r = vehicleReq[p] /\ r \in V!Request /\ GoesOn(r)
    BY DEF Slots
  <2>2. PICK n : n = [r EXCEPT !.fresh = FALSE]
    OBVIOUS
  <2>3. n \in V!Request /\ n.pc = r.pc /\ n.on = r.on /\ n.to = r.to /\ n.from = r.from /\ n.length = r.length
    BY <2>1, <2>2 DEF V!Request
  <2>4. GoesOn(n)
    BY <2>1, <2>3 DEF GoesOn
  <2>5. V!Outdated(U, q)[p] \in {n, r}
    BY <2>1, <2>2 DEF V!Outdated
  <2>6. QED BY <2>1, <2>3, <2>4, <2>5
<1>2. V!Outdated(U, q) \in [Requests -> V!Request]
  <2>1. V!Outdated(U, q) = [p \in Requests |-> V!Outdated(U, q)[p]]
    BY DEF V!Outdated
  <2>2. QED BY <1>1, <2>1
<1>3. QED BY <1>1, <1>2 DEF Slots

(* The owners a request works on. *)
LEMMA OwingTyped ==
  ASSUME NEW q \in Requests, Slots(vehicleReq)
  PROVE  V!Owing(q) \subseteq Things
<1>1. vehicleReq[q] \in V!Request
  BY DEF Slots
<1>2. QED BY <1>1 DEF V!Owing, V!Request

LEMMA AdmitTyped ==
  ASSUME VehicleTypes, NEW q \in Requests, NEW os \in SUBSET Things, V!Admit(q, os)
  PROVE  vehicleStale' \subseteq Things
BY DEF V!Admit, VehicleTypes

LEMMA VehicleStarts ==
  ASSUME VehicleTypes, NEW q \in Requests, NEW v \in Vehicles, OwnerInv',
         V!Delete(q, v) \/ \E o \in Things : V!Create(q, v, o)
  PROVE  VehicleTypes'
<1>1. UNCHANGED <<garage, total, typed>>
  BY DEF V!Delete, V!Create
<1>2. PICK o \in Things : /\ vehicleReq' = [vehicleReq EXCEPT ![q] = V!Recounting({o})]
                          /\ V!Admit(q, {o})
  <2>1. CASE V!Delete(q, v)
    <3>1. vehicle[v].owner \in Things
      BY <2>1, OwnerTyped DEF V!Delete, V!Exists, VehicleTypes
    <3>2. QED BY <2>1, <3>1 DEF V!Delete
  <2>2. CASE \E o \in Things : V!Create(q, v, o)
    BY <2>2 DEF V!Create
  <2>3. QED BY <2>1, <2>2
<1>3. V!Recounting({o}) \in V!Request /\ GoesOn(V!Recounting({o}))
  BY RecountingTyped
<1>4. Slots(vehicleReq')
  BY <1>2, <1>3, SlotsChange DEF VehicleTypes
<1>5. vehicleStale' \subseteq Things
  BY <1>2, AdmitTyped
<1>6. QED BY <1>1, <1>4, <1>5 DEF VehicleTypes, Slots, GoesOn

(* A step that changes requests alone. *)
LEMMA VehicleMoves ==
  ASSUME VehicleTypes, OwnerInv', Slots(vehicleReq'), UNCHANGED <<garage, total, typed>>,
         vehicleStale' \subseteq Things
  PROVE  VehicleTypes'
<1>1. Slots(vehicleReq)'
  BY DEF Slots
<1>2. QED BY <1>1 DEF VehicleTypes

LEMMA LoadTypes ==
  ASSUME IsFiniteSet(Requests), VehicleTypes, OwnerInv', NEW q \in Requests, NEW v \in Vehicles,
         NEW o \in Things, V!LoadVehicle(q, v, o) \/ V!LoadProfile(q, v, o)
  PROVE  VehicleTypes'
<1>1. UNCHANGED <<garage, total, typed>>
  BY DEF V!LoadVehicle, V!LoadProfile
<1>2. vehicle[v].owner \in Things /\ V!Exists(v)
  BY OwnerTyped DEF V!LoadVehicle, V!LoadProfile, VehicleTypes
<1>3. vehicleStale' \subseteq Things
  BY <1>2, AdmitTyped DEF V!LoadVehicle, V!LoadProfile
<1>4. PICK n \in V!Request : GoesOn(n) /\ vehicleReq' = [vehicleReq EXCEPT ![q] = n]
  <2>1. CASE V!LoadVehicle(q, v, o)
    <3>1. PICK h : h = vehicle[v].history /\ V!Open(h) = {Len(h)} /\ Len(h) \in Nat \ {0}
      BY <1>2, OwnerTyped DEF VehicleTypes
    <3>2. V!Min({Len(h)}) = Len(h)
      BY <3>1 DEF V!Min
    <3>3. PICK k : k = Len(h)
      OBVIOUS
    <3>4. k \in 0..MaxHistory
      <4>1. V!OnVehicle(v) \in SUBSET Requests
        BY DEF V!OnVehicle
      <4>2. Cardinality(V!OnVehicle(v)) \in Nat
        BY <4>1, FS_Subset, FS_CardinalityType
      <4>3. V!Cardinality(V!OnVehicle(v)) = Cardinality(V!OnVehicle(v))
        BY DEF V!Cardinality, Cardinality
      <4>4. k + Cardinality(V!OnVehicle(v)) < MaxHistory
        BY <2>1, <3>1, <3>3, <4>3 DEF V!LoadVehicle
      <4>5. QED BY <3>1, <3>3, <4>2, <4>4, VehicleNumbers
    <3>5. PICK n : n = [V!Idle EXCEPT !.pc = "owner", !.on = v, !.to = o, !.from = vehicle[v].owner,
                                      !.closes = k]
      OBVIOUS
    <3>6. /\ n \in V!Request /\ n.pc = "owner" /\ n.on = v /\ n.to = o /\ n.from = vehicle[v].owner
      BY <1>2, <3>4, <3>5, VehicleIdle DEF V!Request
    <3>7. vehicleReq' = [vehicleReq EXCEPT ![q] = n]
      BY <2>1, <3>1, <3>2, <3>3, <3>5 DEF V!LoadVehicle
    <3>8. GoesOn(n)
      BY <1>2, <3>6 DEF GoesOn
    <3>9. QED BY <3>6, <3>7, <3>8
  <2>2. CASE V!LoadProfile(q, v, o)
    <3>1. PICK primary \in BOOLEAN :
            vehicleReq' = [vehicleReq EXCEPT ![q] =
              [V!Idle EXCEPT !.pc = "list", !.on = v, !.to = o, !.length = V!Length(o),
                             !.primary = primary]]
      BY <2>2 DEF V!LoadProfile
    <3>2. PICK k \in 0..V!MaxTotal : k = V!Length(o) /\ k < V!MaxTotal
      <4>1. garage[o] \in [Vehicles -> 0..MaxListed] /\ garage[o][v] = 0
        BY <2>2 DEF VehicleTypes, V!LoadProfile
      <4>2. V!Length(o) \in Nat /\ V!Length(o) < V!MaxTotal
        BY <4>1, LengthBounded
      <4>3. QED BY <4>2, VehicleNumbers
    <3>3. PICK n : n = [V!Idle EXCEPT !.pc = "list", !.on = v, !.to = o, !.length = k,
                                      !.primary = primary]
      OBVIOUS
    <3>4. n \in V!Request /\ n.pc = "list" /\ n.on = v /\ n.to = o /\ n.length = k
      BY <3>2, <3>3, VehicleIdle DEF V!Request
    <3>5. GoesOn(n)
      BY <3>2, <3>4 DEF GoesOn
    <3>6. QED BY <3>1, <3>2, <3>3, <3>4, <3>5
  <2>3. QED BY <2>1, <2>2
<1>5. Slots(vehicleReq')
  BY <1>4, SlotsChange DEF VehicleTypes
<1>6. QED BY <1>1, <1>3, <1>5, VehicleMoves

LEMMA TransferTypes ==
  ASSUME VehicleTypes, OwnerInv', NEW q \in Requests, V!LoadOwner(q) \/ V!SaveTransfer(q)
  PROVE  VehicleTypes'
<1>1. UNCHANGED <<garage, total, typed>> /\ vehicleStale' \subseteq Things
  BY DEF V!LoadOwner, V!SaveTransfer, VehicleTypes
<1>2. PICK r \in V!Request : /\ r = vehicleReq[q] /\ r.on \in Vehicles /\ r.to \in Things /\ r.from \in Things
                             /\ r.pc \in {"owner", "save"}
  BY DEF V!LoadOwner, V!SaveTransfer, VehicleTypes, Slots, GoesOn
<1>3. CASE V!LoadOwner(q)
  <2>1. PICK listed \in BOOLEAN : listed = (garage[r.to][r.on] > 0)
    <3>1. CASE garage[r.to][r.on] > 0
      BY <3>1
    <3>2. CASE ~(garage[r.to][r.on] > 0)
      <4>1. FALSE = (garage[r.to][r.on] > 0)
        BY <3>2
      <4>2. QED BY <4>1, Zenon
    <3>3. QED BY <3>1, <3>2
  <2>2. PICK n : n = [r EXCEPT !.pc = "save", !.listed = listed]
    OBVIOUS
  <2>3. n \in V!Request /\ n.pc = "save" /\ n.on = r.on /\ n.to = r.to /\ n.from = r.from
    BY <2>2 DEF V!Request
  <2>4. vehicleReq' = [vehicleReq EXCEPT ![q] = n]
    BY <1>2, <1>3, <2>1, <2>2 DEF V!LoadOwner, VehicleTypes, Slots
  <2>5. GoesOn(n)
    BY <1>2, <2>3 DEF GoesOn
  <2>6. Slots(vehicleReq')
    BY <2>3, <2>4, <2>5, SlotsChange DEF VehicleTypes
  <2>7. QED BY <1>1, <2>6, VehicleMoves
<1>4. CASE V!SaveTransfer(q)
  <2>1. CASE r.closes > 0 /\ ~r.fresh
    <3>1. vehicleReq' = [vehicleReq EXCEPT ![q] = V!Idle]
      BY <1>2, <1>4, <2>1 DEF V!SaveTransfer, V!Answer
    <3>2. Slots(vehicleReq')
      BY <3>1, VehicleIdle, SlotsChange DEF VehicleTypes
    <3>3. QED BY <1>1, <3>2, VehicleMoves
  <2>2. CASE ~(r.closes > 0 /\ ~r.fresh)
    <3>1. PICK n : n = IF r.listed THEN V!Recounting({r.from, r.to}) ELSE [r EXCEPT !.pc = "garage"]
      OBVIOUS
    <3>2. n \in V!Request /\ GoesOn(n)
      <4>1. CASE r.listed
        BY <1>2, <3>1, <4>1, RecountingTyped
      <4>2. CASE ~r.listed
        <5>1. n = [r EXCEPT !.pc = "garage"]
          BY <3>1, <4>2
        <5>2. n \in V!Request /\ n.pc = "garage" /\ n.on = r.on /\ n.to = r.to /\ n.from = r.from
          BY <5>1 DEF V!Request
        <5>3. QED BY <1>2, <5>2 DEF GoesOn
      <4>3. QED BY <4>1, <4>2
    <3>3. PICK s : s = V!Outdated(V!OnVehicle(r.on), q) /\ Slots(s)
      BY SlotsOutdated DEF VehicleTypes
    <3>4. vehicleReq' = [s EXCEPT ![q] = n]
      BY <1>2, <1>4, <2>2, <3>1, <3>3 DEF V!SaveTransfer
    <3>5. Slots(vehicleReq')
      BY <3>2, <3>3, <3>4, SlotsChange
    <3>6. QED BY <1>1, <3>5, VehicleMoves
  <2>3. QED BY <2>1, <2>2
<1>5. QED BY <1>3, <1>4

(* One more entry in vehicles[]. *)
LEMMA GarageGrows ==
  ASSUME garage \in [Things -> [Vehicles -> 0..MaxListed]], NEW o \in Things, NEW v \in Vehicles,
         garage[o][v] < MaxListed, garage' = [garage EXCEPT ![o][v] = @ + 1]
  PROVE  garage' \in [Things -> [Vehicles -> 0..MaxListed]]
<1>1. PICK g : g = garage[o] /\ g \in [Vehicles -> 0..MaxListed]
  OBVIOUS
<1>2. PICK n \in 0..MaxListed : n = g[v] + 1
  BY <1>1, VehicleNumbers
<1>3. [g EXCEPT ![v] = n] \in [Vehicles -> 0..MaxListed]
  BY <1>1
<1>4. PICK x : x = [g EXCEPT ![v] = n] /\ x \in [Vehicles -> 0..MaxListed]
  BY <1>3
<1>5. garage' = [garage EXCEPT ![o] = x]
  BY <1>1, <1>2, <1>4
<1>6. QED BY <1>4, <1>5

LEMMA GarageTypes ==
  ASSUME VehicleTypes, OwnerInv', NEW q \in Requests, V!SaveGarage(q)
  PROVE  VehicleTypes'
<1>1. PICK r \in V!Request : /\ r = vehicleReq[q] /\ r.on \in Vehicles /\ r.to \in Things /\ r.from \in Things
  BY DEF V!SaveGarage, VehicleTypes, Slots, GoesOn
<1>2. PICK s : s = V!Outdated(V!OnOwner(r.to), q) /\ Slots(s)
  BY SlotsOutdated DEF VehicleTypes
<1>3. PICK n : n = V!Recounting({r.from, r.to}) /\ n \in V!Request /\ GoesOn(n)
  BY <1>1, RecountingTyped
<1>4. vehicleReq' = [s EXCEPT ![q] = n]
  BY <1>1, <1>2, <1>3 DEF V!SaveGarage
<1>5. Slots(vehicleReq')
  BY <1>2, <1>3, <1>4, SlotsChange
<1>6. garage' = [garage EXCEPT ![r.to][r.on] = @ + 1] /\ garage[r.to][r.on] < MaxListed
  BY <1>1 DEF V!SaveGarage
<1>7. garage' \in [Things -> [Vehicles -> 0..MaxListed]]
  BY <1>1, <1>6, GarageGrows DEF VehicleTypes
<1>8. UNCHANGED <<total, vehicleStale, typed>>
  BY DEF V!SaveGarage
<1>9. Slots(vehicleReq)'
  BY <1>5 DEF Slots
<1>10. QED BY <1>7, <1>8, <1>9 DEF VehicleTypes

LEMMA ProfileTypes ==
  ASSUME VehicleTypes, OwnerInv', NEW q \in Requests, V!SaveProfile(q)
  PROVE  VehicleTypes'
<1>1. PICK r \in V!Request : /\ r = vehicleReq[q] /\ r.on \in Vehicles /\ r.to \in Things
                             /\ r.length < V!MaxTotal
  BY DEF V!SaveProfile, VehicleTypes, Slots, GoesOn
<1>2. CASE vehicleReq' = [vehicleReq EXCEPT ![q] = V!Idle] /\ UNCHANGED <<garage, total, vehicleStale, typed>>
  <2>1. Slots(vehicleReq')
    BY <1>2, VehicleIdle, SlotsChange DEF VehicleTypes
  <2>2. QED BY <1>2, <2>1, VehicleMoves DEF VehicleTypes
<1>3. CASE /\ garage[r.to][r.on] < MaxListed
           /\ garage' = [garage EXCEPT ![r.to][r.on] = @ + 1]
           /\ total' = [total EXCEPT ![r.to] = r.length + 1]
           /\ typed' = typed \cup {r.to}
           /\ vehicleReq' = [V!Outdated(V!OnOwner(r.to), q) EXCEPT ![q] = V!Idle]
           /\ vehicleStale' = vehicleStale
  <2>1. garage' \in [Things -> [Vehicles -> 0..MaxListed]]
    BY <1>1, <1>3, GarageGrows DEF VehicleTypes
  <2>2. PICK k \in 0..V!MaxTotal : k = r.length + 1
    <3>1. r.length \in 0..V!MaxTotal
      BY DEF V!Request
    <3>2. QED BY <1>1, <3>1, VehicleNumbers
  <2>3. total' \in [Things -> 0..V!MaxTotal]
    BY <1>3, <2>2 DEF VehicleTypes
  <2>4. PICK s : s = V!Outdated(V!OnOwner(r.to), q) /\ Slots(s)
    BY SlotsOutdated DEF VehicleTypes
  <2>5. Slots(vehicleReq')
    BY <1>3, <2>4, VehicleIdle, SlotsChange
  <2>6. Slots(vehicleReq)'
    BY <2>5 DEF Slots
  <2>7. QED BY <1>1, <1>3, <2>1, <2>3, <2>6 DEF VehicleTypes
<1>4. QED BY <1>1, <1>2, <1>3 DEF V!SaveProfile, V!Answer

LEMMA CountsTypes ==
  ASSUME VehicleTypes, OwnerInv', NEW q \in Requests, NEW o \in Things,
         V!Count(q, o) \/ V!Store(q, o) \/ V!RecountFails(q, o)
  PROVE  VehicleTypes'
<1>1. PICK r \in V!Request : r = vehicleReq[q] /\ r.pc = "recount"
  BY DEF V!Count, V!Store, V!RecountFails, VehicleTypes, Slots
<1>2. PICK held : held = r.held /\ held \in [Things -> 0..V!Cardinality(Vehicles) \cup {None}]
  BY DEF V!Request
<1>3. vehicleReq \in [Requests -> V!Request]
  BY DEF VehicleTypes, Slots
<1>4. PICK due, h : /\ due \in SUBSET Things /\ h \in [Things -> 0..V!Cardinality(Vehicles) \cup {None}]
                    /\ vehicleReq' = [vehicleReq EXCEPT ![q] = [r EXCEPT !.due = due, !.held = h]]
  <2>0. r.due \in SUBSET Things
    BY DEF V!Request
  <2>1. CASE V!Count(q, o)
    <3>1. PICK c : c = CountOf(o) /\ c \in 0..V!Cardinality(Vehicles)
      BY CountTyped
    <3>2. PICK due, h : due = r.due \ {o} /\ h = [held EXCEPT ![o] = c]
      OBVIOUS
    <3>3. due \in SUBSET Things /\ h \in [Things -> 0..V!Cardinality(Vehicles) \cup {None}]
      BY <1>2, <2>0, <3>1, <3>2
    <3>4. vehicleReq' = [vehicleReq EXCEPT ![q].due = @ \ {o}, ![q].held[o] = c]
      BY <2>1, <3>1 DEF V!Count, CountOf
    <3>5. vehicleReq' = [vehicleReq EXCEPT ![q] = [r EXCEPT !.due = due, !.held = h]]
      BY <1>1, <1>2, <1>3, <3>2, <3>4 DEF V!Request
    <3>6. QED BY <3>3, <3>5
  <2>2. CASE V!Store(q, o)
    <3>1. PICK h : h = [held EXCEPT ![o] = None]
      OBVIOUS
    <3>2. h \in [Things -> 0..V!Cardinality(Vehicles) \cup {None}]
      BY <1>2, <3>1
    <3>3. vehicleReq' = [vehicleReq EXCEPT ![q].held[o] = None]
      BY <2>2 DEF V!Store
    <3>4. vehicleReq' = [vehicleReq EXCEPT ![q] = [r EXCEPT !.due = r.due, !.held = h]]
      BY <1>1, <1>2, <1>3, <3>1, <3>3 DEF V!Request
    <3>5. QED BY <2>0, <3>2, <3>4
  <2>3. CASE V!RecountFails(q, o)
    <3>1. PICK due, h : due = r.due \ {o} /\ h = [held EXCEPT ![o] = None]
      OBVIOUS
    <3>2. due \in SUBSET Things /\ h \in [Things -> 0..V!Cardinality(Vehicles) \cup {None}]
      BY <1>2, <2>0, <3>1
    <3>3. vehicleReq' = [vehicleReq EXCEPT ![q].due = @ \ {o}, ![q].held[o] = None]
      BY <2>3 DEF V!RecountFails
    <3>4. vehicleReq' = [vehicleReq EXCEPT ![q] = [r EXCEPT !.due = due, !.held = h]]
      BY <1>1, <1>2, <1>3, <3>1, <3>3 DEF V!Request
    <3>5. QED BY <3>2, <3>4
  <2>4. QED BY <2>1, <2>2, <2>3
<1>5. PICK n : n = [r EXCEPT !.due = due, !.held = h]
  OBVIOUS
<1>6. n \in V!Request /\ n.pc = "recount"
  BY <1>1, <1>4, <1>5 DEF V!Request
<1>7. GoesOn(n)
  BY <1>6 DEF GoesOn
<1>8. Slots(vehicleReq')
  BY <1>4, <1>5, <1>6, <1>7, SlotsChange DEF VehicleTypes
<1>9. total' \in [Things -> 0..V!MaxTotal]
  <2>1. CASE V!Store(q, o)
    <3>1. PICK c : c = held[o]
      OBVIOUS
    <3>2. c \in 0..V!Cardinality(Vehicles)
      BY <1>1, <1>2, <2>1, <3>1 DEF V!Store
    <3>3. c \in 0..V!MaxTotal
      BY <3>2, VehicleNumbers
    <3>4. total' = [total EXCEPT ![o] = c]
      BY <1>1, <1>2, <2>1, <3>1 DEF V!Store
    <3>5. QED BY <3>3, <3>4 DEF VehicleTypes
  <2>2. CASE ~V!Store(q, o)
    BY <2>2 DEF V!Count, V!RecountFails, VehicleTypes
  <2>3. QED BY <2>1, <2>2
<1>10. garage' = garage /\ vehicleStale' \subseteq Things /\ typed' \subseteq Things
  BY DEF V!Count, V!Store, V!RecountFails, VehicleTypes
<1>11. Slots(vehicleReq)'
  BY <1>8 DEF Slots
<1>12. QED BY <1>9, <1>10, <1>11 DEF VehicleTypes

LEMMA VehicleEnds ==
  ASSUME VehicleTypes, OwnerInv', NEW q \in Requests, V!Finish(q) \/ V!Abort(q)
  PROVE  VehicleTypes'
<1>1. /\ UNCHANGED <<garage, total, typed>>
      /\ vehicleReq' = [vehicleReq EXCEPT ![q] = V!Idle]
  BY DEF V!Finish, V!Abort, V!Answer
<1>2. Slots(vehicleReq')
  BY <1>1, VehicleIdle, SlotsChange DEF VehicleTypes
<1>3. vehicleStale' \subseteq Things
  BY OwingTyped DEF V!Finish, V!Abort, VehicleTypes
<1>4. QED BY <1>1, <1>2, <1>3, VehicleMoves

LEMMA ElsewhereTypes ==
  ASSUME VehicleTypes, OwnerInv', NEW v \in Vehicles, V!SaveElsewhere(v)
  PROVE  VehicleTypes'
<1>1. vehicleReq' = V!Outdated(V!OnVehicle(v), None) /\ UNCHANGED <<garage, total, vehicleStale, typed>>
  BY DEF V!SaveElsewhere
<1>2. Slots(vehicleReq')
  BY <1>1, SlotsOutdated DEF VehicleTypes
<1>3. QED BY <1>1, <1>2, VehicleMoves DEF VehicleTypes

LEMMA VehicleTypesNext ==
  ASSUME IsFiniteSet(Requests), VehicleTypes, V!Next \/ UNCHANGED vehiclesVars
  PROVE  VehicleTypes'
<1>1. OwnerInv'
  BY OwnerNext DEF VehicleTypes
<1>2. CASE V!Next
  BY <1>1, <1>2, VehicleStarts, LoadTypes, TransferTypes, GarageTypes, ProfileTypes, CountsTypes,
     VehicleEnds, ElsewhereTypes DEF V!Next
<1>3. CASE UNCHANGED vehiclesVars
  <2>1. Slots(vehicleReq')
    BY <1>3 DEF vehiclesVars, VehicleTypes
  <2>2. QED BY <1>1, <1>3, <2>1, VehicleMoves DEF vehiclesVars, VehicleTypes
<1>4. QED BY <1>2, <1>3

LEMMA VehicleTypesInit == Init => VehicleTypes
<1> SUFFICES ASSUME Init PROVE VehicleTypes
  OBVIOUS
<1>1. V!Init /\ OwnerInv
  BY OwnerInit DEF Init
<1>2. 0 \in 0..MaxListed /\ 0 \in 0..V!MaxTotal
  BY VehicleNumbers
<1>3. Slots([q \in Requests |-> V!Idle])
  BY VehicleIdle DEF Slots
<1>4. QED BY <1>1, <1>2, <1>3 DEF V!Init, VehicleTypes

LEMMA VehicleTyped ==
  ASSUME IsFiniteSet(Requests)
  PROVE  Spec => []V!TypeOK
<1>1. VehicleTypes => V!TypeOK
  BY DEF VehicleTypes, Slots, OwnerInv, V!TypeOK, V!OwnerProfile
<1>2. VehicleTypes /\ [Next]_vars => VehicleTypes'
  BY PartsStep, VehicleTypesNext
<1>3. QED BY VehicleTypesInit, <1>1, <1>2, PTL DEF Spec

(* Answers of the stand-in.                                                *)
Answers(call) ==
  CASE call[1] = "write"   -> {None}
    [] call[1] = "get"     -> Things \cup {None}
    [] call[1] = "keys"    -> 0..1
    [] call[1] = "hgetall" -> [HashFields -> Things \cup {None}]
    [] call[1] = "zcard"   -> 0..K!Cardinality(Things)
    [] OTHER               -> Seq(Things)

Answered(r) == r.call \in K!Calls /\ r.is \in Answers(r.call)

StandInTypes ==
  StandInInv /\ kind \in {"strings", "hashes", "zsets"} /\ Answered(answer)

LEMMA AnswersTyped ==
  /\ \A a : a \in {None} => Answered([call |-> <<"write">>, is |-> a])
  /\ \A a \in Things \cup {None} : Answered([call |-> <<"get">>, is |-> a])
  /\ \A a \in 0..1 : Answered([call |-> <<"keys">>, is |-> a])
  /\ \A a \in [HashFields -> Things \cup {None}] : Answered([call |-> <<"hgetall">>, is |-> a])
  /\ \A a \in 0..K!Cardinality(Things) : Answered([call |-> <<"zcard">>, is |-> a])
  /\ \A a \in Seq(Things) :
       /\ \A i, j \in K!Reach : Answered([call |-> <<"zrange", i, j>>, is |-> a])
       /\ \A i, j \in K!Scores : Answered([call |-> <<"zrangebyscore", i, j>>, is |-> a])
<1>1. \A a \in {None} : Answered([call |-> <<"write">>, is |-> a])
  BY DEF Answered, Answers, K!Calls
<1>2. \A a \in Things \cup {None} : Answered([call |-> <<"get">>, is |-> a])
  BY DEF Answered, Answers, K!Calls
<1>3. \A a \in 0..1 : Answered([call |-> <<"keys">>, is |-> a])
  BY DEF Answered, Answers, K!Calls
<1>4. \A a \in [HashFields -> Things \cup {None}] : Answered([call |-> <<"hgetall">>, is |-> a])
  BY DEF Answered, Answers, K!Calls
<1>5. \A a \in 0..K!Cardinality(Things) : Answered([call |-> <<"zcard">>, is |-> a])
  BY DEF Answered, Answers, K!Calls
<1>6. ASSUME NEW a \in Seq(Things), NEW i \in K!Reach, NEW j \in K!Reach
      PROVE  Answered([call |-> <<"zrange", i, j>>, is |-> a])
  <2>1. <<"zrange", i, j>> \in K!Calls
    BY DEF K!Calls
  <2>2. Answers(<<"zrange", i, j>>) = Seq(Things)
    BY DEF Answers
  <2>3. QED BY <2>1, <2>2 DEF Answered
<1>7. ASSUME NEW a \in Seq(Things), NEW i \in K!Scores, NEW j \in K!Scores
      PROVE  Answered([call |-> <<"zrangebyscore", i, j>>, is |-> a])
  <2>1. <<"zrangebyscore", i, j>> \in K!Calls
    BY DEF K!Calls
  <2>2. Answers(<<"zrangebyscore", i, j>>) = Seq(Things)
    BY DEF Answers
  <2>3. QED BY <2>1, <2>2 DEF Answered
<1>8. QED BY <1>1, <1>2, <1>3, <1>4, <1>5, <1>6, <1>7

(* There are no more members than can be.                                  *)
LEMMA MembersFew ==
  ASSUME IsFiniteSet(Things), StandInInv
  PROVE  Len(zsets) \in 0..K!Cardinality(Things)
<1>1. Entries(zsets)
  BY DEF StandInInv, Entries
<1>2. DOMAIN zsets = 1..Len(zsets) /\ Len(zsets) \in Nat
  BY <1>1, EntryTypes
<1>3. Cardinality(K!Server!In) = Cardinality(DOMAIN zsets)
  BY <1>1, InIs, MembersCounted
<1>4. Cardinality(K!Server!In) = Len(zsets)
  <2>1. PICK n \in Nat : n = Len(zsets) /\ DOMAIN zsets = 1..n
    BY <1>2
  <2>2. Cardinality(1..n) = n
    BY FS_Interval
  <2>3. QED BY <1>3, <2>1, <2>2
<1>5. Cardinality(K!Server!In) <= Cardinality(Things) /\ Cardinality(Things) \in Nat
  BY InIs, FS_Subset, FS_CardinalityType
<1>6. QED BY <1>2, <1>4, <1>5, StandInCounts

LEMMA SliceTyped ==
  ASSUME NEW n \in Nat, NEW l \in [1..n -> Things], NEW start \in Int, NEW stop \in Int
  PROVE  K!SliceRange(l, start, stop) \in Seq(Things)
<1>1. Len(l) = n
  OBVIOUS
<1>2. PICK s, e \in Int : s = K!From(n, start) /\ e = K!To(n, stop)
  BY RanksAreAnInterval
<1>3. s >= 0 /\ e <= n - 1
  BY <1>2 DEF K!From, K!To
<1>4. CASE e < s \/ n = 0
  <2>1. K!SliceRange(l, start, stop) = << >>
    BY <1>1, <1>2, <1>4 DEF K!SliceRange
  <2>2. QED BY <2>1
<1>5. CASE ~(e < s \/ n = 0)
  <2>1. PICK m \in Nat : m = e - s + 1
    BY <1>5
  <2>2. K!SliceRange(l, start, stop) = [k \in 1..m |-> l[s + k]]
    BY <1>1, <1>2, <1>5, <2>1 DEF K!SliceRange
  <2>3. \A k \in 1..m : s + k \in 1..n
    BY <1>3, <2>1
  <2>4. K!SliceRange(l, start, stop) \in [1..m -> Things]
    BY <2>2, <2>3
  <2>5. QED BY <2>1, <2>4
<1>6. QED BY <1>4, <1>5

LEMMA SortedTyped ==
  ASSUME StandInInv, NEW Idx \in SUBSET DOMAIN zsets
  PROVE  \E n \in Nat : K!SortedMembers(Idx) \in [1..n -> Things]
<1>1. PICK ms : ms = {zsets[i].member : i \in Idx}
  OBVIOUS
<1>2. QED BY <1>1, SortedIsListing

LEMMA StandInAnswers ==
  ASSUME IsFiniteSet(Things), StandInTypes, K!Next
  PROVE  Answered(answer')
<1>1. /\ StandInInv /\ strings \in [value : Things \cup {None}, left : 0..K!Forever]
      /\ hashes \in [HashFields -> Things \cup {None}]
  BY DEF StandInTypes, StandInInv
<1>2. CASE K!Silent
  BY <1>2, AnswersTyped DEF K!Silent, K!Answer
<1>3. CASE K!Get
  <2>1. PICK a : a = IF K!IsExpired(strings) THEN None ELSE strings.value
    OBVIOUS
  <2>2. a \in Things \cup {None}
    BY <1>1, <2>1
  <2>3. QED BY <1>3, <2>1, <2>2, AnswersTyped DEF K!Get, K!Answer
<1>4. CASE K!Keys
  <2>1. PICK a : a = IF strings = K!NoEntry THEN 0 ELSE 1
    OBVIOUS
  <2>2. a \in 0..1
    BY <2>1
  <2>3. QED BY <1>4, <2>1, <2>2, AnswersTyped DEF K!Keys, K!Answer
<1>5. CASE K!Tick
  BY <1>5 DEF K!Tick, StandInTypes
<1>6. CASE K!HGetAll
  BY <1>1, <1>6, AnswersTyped DEF K!HGetAll, K!Answer
<1>7. CASE K!ZCard
  <2>1. Len(zsets) \in 0..K!Cardinality(Things)
    BY <1>1, MembersFew
  <2>2. QED BY <1>7, <2>1, AnswersTyped DEF K!ZCard, K!Read, K!Answer
<1>8. ASSUME NEW start \in K!Reach, NEW stop \in K!Reach, K!ZRange(start, stop)
      PROVE  Answered(answer')
  <2>1. start \in Int /\ stop \in Int
    BY StandInNumbers DEF K!Reach
  <2>2. PICK l : l = K!SortedMembers(DOMAIN zsets)
    OBVIOUS
  <2>3. PICK n \in Nat : l \in [1..n -> Things]
    BY <1>1, <2>2, SortedTyped
  <2>4. PICK a : a = K!SliceRange(l, start, stop) /\ a \in Seq(Things)
    BY <2>1, <2>3, SliceTyped
  <2>5. answer' = [call |-> <<"zrange", start, stop>>, is |-> a]
    BY <1>8, <2>2, <2>4 DEF K!ZRange, K!Read, K!Answer
  <2>6. QED BY <2>4, <2>5, AnswersTyped
<1>9. ASSUME NEW min \in K!Scores, NEW max \in K!Scores, K!ZRangeByScore(min, max)
      PROVE  Answered(answer')
  <2>1. K!Within(min, max) \in SUBSET DOMAIN zsets
    BY DEF K!Within
  <2>2. PICK a, n : a = K!SortedMembers(K!Within(min, max)) /\ n \in Nat /\ a \in [1..n -> Things]
    BY <1>1, <2>1, SortedTyped
  <2>3. a \in Seq(Things)
    BY <2>2
  <2>4. answer' = [call |-> <<"zrangebyscore", min, max>>, is |-> a]
    BY <1>9, <2>2 DEF K!ZRangeByScore, K!Read, K!Answer
  <2>5. QED BY <2>3, <2>4, AnswersTyped
<1>10. CASE K!StringCall
  BY <1>2, <1>3, <1>4, <1>5, <1>10 DEF K!StringCall, K!Set, K!DelString
<1>11. CASE K!HashCall
  BY <1>2, <1>6, <1>11 DEF K!HashCall, K!HSet, K!DelHash
<1>12. CASE K!SortedSetCall
  BY <1>2, <1>7, <1>8, <1>9, <1>12 DEF K!SortedSetCall, K!ZAdd, K!ZRem, K!DelSortedSet,
     K!ZRemRangeByScore, K!Write
<1>13. QED BY <1>10, <1>11, <1>12 DEF K!Next

LEMMA StandInTyped ==
  ASSUME IsFiniteSet(Things)
  PROVE  Spec => []K!TypeOK
<1>1. StandInTypes => K!TypeOK
  BY DEF StandInTypes, StandInInv, K!TypeOK, Answered, Answers
<1>2. Init => StandInTypes
  <2> SUFFICES ASSUME Init PROVE StandInTypes
    OBVIOUS
  <2>1. K!Init /\ StandInInv
    BY StandInInit DEF Init
  <2>2. Answered(answer)
    BY <2>1, AnswersTyped DEF K!Init
  <2>3. QED BY <2>1, <2>2 DEF K!Init, StandInTypes
<1>3. StandInTypes /\ [Next]_vars => StandInTypes'
  <2> SUFFICES ASSUME StandInTypes, [Next]_vars PROVE StandInTypes'
    OBVIOUS
  <2>1. CASE K!Next
    <3>1. StandInInv'
      BY <2>1, StandInStep DEF StandInTypes
    <3>2. Answered(answer')
      BY <2>1, StandInAnswers
    <3>3. kind' = kind
      BY <2>1 DEF K!Next
    <3>4. QED BY <3>1, <3>2, <3>3 DEF StandInTypes
  <2>2. CASE UNCHANGED standInVars
    BY <2>2 DEF standInVars, StandInTypes, StandInInv
  <2>3. QED BY <2>1, <2>2, OtherPartsStep
<1>4. QED BY <1>1, <1>2, <1>3, PTL DEF Spec

LEMMA PartTyped == Spec => [](part \in Parts)
<1>1. Init => part \in Parts
  BY DEF Init
<1>2. part \in Parts /\ [Next]_vars => (part \in Parts)'
  BY DEF Next, vars
<1>3. QED BY <1>1, <1>2, PTL DEF Spec

(* Every variable of every part holds a value of its type, whatever the    *)
(* requests do in between: the lists of a vehicle, an owner or a center    *)
(* stay within what a request may add, a total is the sum of what it was   *)
(* counted from, an answer of the stand-in is one of those its call may    *)
(* get.  The things and the requests are finitely many, for they are       *)
(* counted: owners of a fleet, votes of a rating, members of a set.        *)
THEOREM TypeCorrect ==
  ASSUME IsFiniteSet(Things), IsFiniteSet(Requests)
  PROVE  Spec => []TypeOK
<1>1. /\ part \in Parts
      /\ V!TypeOK /\ L!TypeOK /\ S!TypeOK /\ O!TypeOK /\ A!TypeOK /\ I!TypeOK
      /\ C!TypeOK /\ R!TypeOK /\ D!TypeOK /\ N!TypeOK /\ P!TypeOK /\ T!TypeOK
      /\ G!TypeOK /\ H!TypeOK /\ X!TypeOK /\ K!TypeOK
      => TypeOK
  BY DEF TypeOK, Parts
<1>2. QED
  BY <1>1, PartTyped, VehicleTyped, LoginTyped, SessionTyped, EntryTyped, InviteTyped,
     ServiceTyped, ReviewTyped, OnboardingTyped, StaffTyped, IntakeTyped, OthersTyped,
     StandInTyped, PTL
=============================================================================
