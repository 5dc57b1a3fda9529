--------------------------- MODULE JobQueueProofs ---------------------------
(* Proofs about JobQueue for every set of jobs and worker processes, every *)
(* concurrency and every number of attempts.                               *)
EXTENDS JobQueue, FiniteSetTheorems, SequenceTheorems, TLAPS

-----------------------------------------------------------------------------
(* The smaller of two numbers *)

LEMMA MinOfTwo ==
  ASSUME NEW a \in Nat, NEW b \in Nat
  PROVE  Min({a, b}) = IF a <= b THEN a ELSE b
<1> DEFINE m == IF a <= b THEN a ELSE b
<1>1. m \in {a, b} /\ \A y \in {a, b} : m <= y
  OBVIOUS
<1>2. \A x \in {a, b} : (\A y \in {a, b} : x <= y) => x = m
  OBVIOUS
<1>3. QED BY <1>1, <1>2 DEF Min

-----------------------------------------------------------------------------
(* Sequences without repetition, which stand for a sorted set *)

LEMMA NothingListed ==
  ASSUME NEW S
  PROVE  <<>> \in Seq(S) /\ IsInjective(<<>>) /\ ToSet(<<>>) = {}
  BY DEF IsInjective, ToSet

LEMMA ListedIsTyped ==
  ASSUME NEW S, NEW s \in Seq(S)
  PROVE  ToSet(s) \subseteq S
  BY DEF ToSet

LEMMA AppendListed ==
  ASSUME NEW S, NEW s \in Seq(S), IsInjective(s), NEW e \in S, e \notin ToSet(s)
  PROVE  /\ Append(s, e) \in Seq(S)
         /\ IsInjective(Append(s, e))
         /\ ToSet(Append(s, e)) = ToSet(s) \cup {e}
  BY DEF IsInjective, ToSet

LEMMA TailListed ==
  ASSUME NEW S, NEW s \in Seq(S), IsInjective(s), s # <<>>
  PROVE  /\ Head(s) \in S /\ Tail(s) \in Seq(S)
         /\ IsInjective(Tail(s))
         /\ Head(s) \in ToSet(s)
         /\ ToSet(Tail(s)) = ToSet(s) \ {Head(s)}
<1> DEFINE t == Tail(s)
<1>1. /\ Head(s) = s[1] /\ s[1] \in S /\ Len(s) \in Nat \ {0}
      /\ t \in Seq(S) /\ Len(t) = Len(s) - 1
      /\ \A k \in 1..(Len(s) - 1) : t[k] = s[k + 1]
  BY HeadTailProperties
<1> HIDE DEF t
<1>2. ASSUME NEW k \in DOMAIN t, NEW m \in DOMAIN t, t[k] = t[m]
      PROVE  k = m
  <2>1. /\ k \in 1..(Len(s) - 1) /\ m \in 1..(Len(s) - 1)
        /\ k + 1 \in DOMAIN s /\ m + 1 \in DOMAIN s /\ s[k + 1] = s[m + 1]
    BY <1>1, <1>2
  <2>2. k + 1 = m + 1
    BY <2>1 DEF IsInjective
  <2>3. QED BY <2>1, <2>2
<1>3. ToSet(t) \subseteq ToSet(s) \ {s[1]}
  BY <1>1 DEF IsInjective, ToSet
<1>4. ASSUME NEW x \in ToSet(s), x # s[1]
      PROVE  x \in ToSet(t)
  <2>1. PICK k \in 1..Len(s) : s[k] = x
    BY <1>4 DEF ToSet
  <2>2. k - 1 \in 1..Len(t) /\ t[k - 1] = x
    BY <1>1, <1>4, <2>1
  <2>3. QED BY <1>1, <2>2 DEF ToSet
<1>5. s[1] \in ToSet(s)
  BY <1>1 DEF ToSet
<1>6. QED BY <1>1, <1>2, <1>3, <1>4, <1>5 DEF t, IsInjective

LEMMA WithoutListed ==
  ASSUME NEW S, NEW s \in Seq(S), IsInjective(s), NEW e
  PROVE  /\ Without(s, e) \in Seq(S)
         /\ IsInjective(Without(s, e))
         /\ ToSet(Without(s, e)) = ToSet(s) \ {e}
<1>1. CASE ~Contains(s, e)
  BY <1>1 DEF Without, Contains, ToSet
<1>2. CASE Contains(s, e)
  <2> DEFINE i == CHOOSE k \in DOMAIN s : s[k] = e
             w == RemoveAt(s, i)
  <2>1. i \in 1..Len(s) /\ s[i] = e
    BY <1>2 DEF Contains
  <2>2. Without(s, e) = w
    BY <1>2 DEF Without
  <2> DEFINE l == SubSeq(s, 1, i - 1)
             r == SubSeq(s, i + 1, Len(s))
  <2> HIDE DEF i
  <2>3. /\ w \in Seq(S) /\ Len(w) = Len(s) - 1
        /\ \A k \in 1..(Len(s) - 1) : w[k] = IF k < i THEN s[k] ELSE s[k + 1]
    <3>1. /\ l \in Seq(S) /\ Len(l) = i - 1
          /\ \A k \in 1..(i - 1) : l[k] = s[k]
      BY <2>1, SubSeqProperties
    <3>2. /\ r \in Seq(S) /\ Len(r) = Len(s) - i
          /\ \A k \in 1..(Len(s) - i) : r[k] = s[i + k]
      BY <2>1, SubSeqProperties
    <3>3. w = l \o r
      BY DEF RemoveAt
    <3> HIDE DEF l, r, w
    <3>4. /\ w \in Seq(S) /\ Len(w) = Len(l) + Len(r)
          /\ \A k \in 1..(Len(l) + Len(r)) :
               w[k] = IF k <= Len(l) THEN l[k] ELSE r[k - Len(l)]
      BY <3>1, <3>2, <3>3, ConcatProperties
    <3>5. Len(w) = Len(s) - 1
      BY <2>1, <3>1, <3>2, <3>4
    <3>6. ASSUME NEW k \in 1..(Len(s) - 1), k < i
          PROVE  w[k] = s[k]
      <4>1. k \in 1..(i - 1) /\ k \in 1..(Len(l) + Len(r)) /\ k <= Len(l)
        BY <2>1, <3>1, <3>2, <3>6
      <4>2. QED BY <3>1, <3>4, <4>1
    <3>7. ASSUME NEW k \in 1..(Len(s) - 1), ~(k < i)
          PROVE  w[k] = s[k + 1]
      <4>1. k - (i - 1) \in 1..(Len(s) - i) /\ w[k] = r[k - (i - 1)]
        BY <2>1, <3>1, <3>2, <3>4, <3>7
      <4>2. r[k - (i - 1)] = s[i + (k - (i - 1))]
        BY <3>2, <4>1
      <4>3. i + (k - (i - 1)) = k + 1
        BY <2>1
      <4>4. QED BY <4>1, <4>2, <4>3
    <3>8. QED BY <3>4, <3>5, <3>6, <3>7
  <2> HIDE DEF w
  <2>4. ASSUME NEW k \in DOMAIN w, NEW m \in DOMAIN w, w[k] = w[m]
        PROVE  k = m
    BY <2>1, <2>3, <2>4 DEF IsInjective
  <2>5. ToSet(w) \subseteq ToSet(s) \ {e}
    BY <2>1, <2>3 DEF IsInjective, ToSet
  <2>6. ASSUME NEW x \in ToSet(s), x # e
        PROVE  x \in ToSet(w)
    <3>1. PICK k \in 1..Len(s) : s[k] = x
      BY <2>6 DEF ToSet
    <3>2. CASE k < i
      BY <2>1, <2>3, <3>1, <3>2 DEF ToSet
    <3>3. CASE k > i
      <4>1. w[k - 1] = x /\ k - 1 \in 1..Len(w)
        BY <2>1, <2>3, <3>1, <3>3
      <4>2. QED BY <2>3, <4>1 DEF ToSet
    <3>4. QED BY <2>1, <2>6, <3>1, <3>2, <3>3
  <2>7. QED BY <2>2, <2>3, <2>4, <2>5, <2>6 DEF IsInjective
<1>3. QED BY <1>1, <1>2

-----------------------------------------------------------------------------
(* The steps of a task change no other task. *)

Moved(p, j, t) ==
  /\ task' \in [Processes -> [Jobs -> Task]]
  /\ task'[p][j] = t
  /\ \A q \in Processes, k \in Jobs : q # p \/ k # j => task'[q][k] = task[q][k]

LEMMA GotoMoves ==
  ASSUME TypeOK, NEW p \in Processes, NEW j \in Jobs, NEW pc \in TaskPCs, Goto(p, j, pc)
  PROVE  /\ Moved(p, j, [pc |-> pc, attempts |-> task[p][j].attempts])
         /\ task'[p][j].pc = pc /\ task'[p][j].attempts = task[p][j].attempts
<1>1. task \in [Processes -> [Jobs -> Task]] /\ task[p] \in [Jobs -> Task] /\ task[p][j] \in Task
  BY DEF TypeOK
<1>2. task' = [task EXCEPT ![p] = [task[p] EXCEPT ![j] = [task[p][j] EXCEPT !.pc = pc]]]
  BY DEF Goto
<1>3. /\ [task[p][j] EXCEPT !.pc = pc] = [pc |-> pc, attempts |-> task[p][j].attempts]
      /\ [task[p][j] EXCEPT !.pc = pc] \in Task
  BY <1>1 DEF Task
<1>4. QED BY <1>1, <1>2, <1>3 DEF Moved

LEMMA EndTaskMoves ==
  ASSUME TypeOK, NEW p \in Processes, NEW j \in Jobs, EndTask(p, j)
  PROVE  Moved(p, j, NoTask) /\ task'[p][j].pc = "idle"
<1>1. task \in [Processes -> [Jobs -> Task]] /\ task[p] \in [Jobs -> Task]
  BY DEF TypeOK
<1>2. NoTask \in Task
  BY DEF NoTask, Task, TaskPCs
<1>3. NoTask.pc = "idle"
  BY DEF NoTask
<1>4. QED BY <1>1, <1>2, <1>3 DEF Moved, EndTask

LEMMA CaughtMoves ==
  ASSUME TypeOK, NEW p \in Processes, NEW j \in Jobs, Caught(p, j)
  PROVE  /\ Moved(p, j, [pc |-> IF task[p][j].attempts + 1 < MaxAttempts THEN "count" ELSE "drop",
                         attempts |-> task[p][j].attempts])
         /\ task'[p][j].pc = IF task[p][j].attempts + 1 < MaxAttempts THEN "count" ELSE "drop"
         /\ task'[p][j].attempts = task[p][j].attempts
  BY GotoMoves DEF Caught, TaskPCs

LEMMA LoadMoves ==
  ASSUME TypeOK, NEW p \in Processes, NEW j \in Jobs, Load(p, j)
  PROVE  /\ Moved(p, j, IF attempts[j] = None THEN NoTask
                        ELSE [pc |-> IF j \in Unhandled THEN "drop" ELSE "unwait",
                              attempts |-> attempts[j]])
         /\ attempts[j] = None => task'[p][j].pc = "idle"
         /\ attempts[j] # None => /\ task'[p][j].pc = IF j \in Unhandled THEN "drop" ELSE "unwait"
                                  /\ task'[p][j].attempts = attempts[j]
<1>1. CASE attempts[j] = None
  BY <1>1, EndTaskMoves DEF Load
<1>2. CASE attempts[j] # None
  <2> DEFINE t == [pc |-> IF j \in Unhandled THEN "drop" ELSE "unwait", attempts |-> attempts[j]]
  <2>1. task \in [Processes -> [Jobs -> Task]] /\ task[p] \in [Jobs -> Task]
    BY DEF TypeOK
  <2>2. t \in Task
    BY <1>2 DEF TypeOK, Task, TaskPCs
  <2>3. task' = [task EXCEPT ![p][j] = t]
    BY <1>2 DEF Load
  <2> HIDE DEF t
  <2>4. Moved(p, j, t)
    BY <2>1, <2>2, <2>3 DEF Moved
  <2>5. task'[p][j] = t
    BY <2>4 DEF Moved
  <2>6. QED BY <1>2, <2>4, <2>5 DEF t
<1>3. QED BY <1>1, <1>2

LEMMA TaskStepMoves ==
  ASSUME TypeOK, NEW p \in Processes, NEW j \in Jobs, TaskStep(p, j) \/ RedisFails(p, j)
  PROVE  /\ task[p][j].pc # "idle"
         /\ \E t \in Task : Moved(p, j, t)
         /\ UNCHANGED <<entry, stage>>
<1>1. task[p][j].pc # "idle" /\ UNCHANGED <<entry, stage>>
  BY DEF TaskStep, Load, Unwait, Activate, HandlerSucceeds, HandlerThrows, Unactivate, Complete,
         StampCompleted, CountAttempt, Requeue, Drop, Bury, RedisFails
<1>2. \E t : Moved(p, j, t)
  <2>1. CASE Load(p, j)
    BY <2>1, LoadMoves
  <2>2. CASE StampCompleted(p, j) \/ Requeue(p, j) \/ Bury(p, j)
    BY <2>2, EndTaskMoves DEF StampCompleted, Requeue, Bury
  <2>3. CASE HandlerThrows(p, j) \/ RedisFails(p, j)
    BY <2>3, CaughtMoves DEF HandlerThrows, RedisFails
  <2>4. CASE \/ Unwait(p, j) \/ Activate(p, j) \/ HandlerSucceeds(p, j) \/ Unactivate(p, j)
             \/ Complete(p, j) \/ CountAttempt(p, j) \/ Drop(p, j)
    <3>1. PICK pc \in TaskPCs : Goto(p, j, pc)
      BY <2>4 DEF Unwait, Activate, HandlerSucceeds, Unactivate, Complete, CountAttempt, Drop,
                  TaskPCs
    <3>2. Moved(p, j, [pc |-> pc, attempts |-> task[p][j].attempts])
      BY <3>1, GotoMoves
    <3>3. QED BY <3>2
  <2>5. QED BY <2>1, <2>2, <2>3, <2>4 DEF TaskStep
<1>3. QED BY <1>1, <1>2 DEF Moved

-----------------------------------------------------------------------------
(* Types, with what keeps a job from being queued twice: only a job that   *)
(* was enqueued is in the waiting set or in the hands of a worker.  A      *)
(* worker's jobs are counted along with it: poll() subtracts their number. *)

EntryInv ==
  \A j \in Jobs :
    entry[j] # "queued" => j \notin Waiting /\ \A p \in Processes : task[p][j].pc = "idle"

SlotsInv ==
  \A p \in Processes : IsFiniteSet(InFlight(p)) /\ Cardinality(InFlight(p)) <= Concurrency

TypeInv == TypeOK /\ EntryInv /\ SlotsInv

WaitingOK ==
  /\ due \in Seq(Jobs) /\ IsInjective(due)
  /\ later \in Seq(Jobs) /\ IsInjective(later)
  /\ ToSet(due) \cap ToSet(later) = {}

LEMMA WaitingIsJobs == TypeOK => Waiting \subseteq Jobs
  BY ListedIsTyped DEF TypeOK, Waiting

LEMMA AddWaitingAdds ==
  ASSUME TypeInv, NEW j \in Jobs, AddWaiting(j)
  PROVE  WaitingOK' /\ Waiting' = Waiting \cup {j}
<1>1. j \notin ToSet(due) /\ j \notin ToSet(later)
  BY DEF TypeInv, EntryInv, AddWaiting, Waiting
<1>2. due' = Append(due, j) /\ later' = later
  BY DEF AddWaiting, waiting
<1>3. due' \in Seq(Jobs) /\ IsInjective(due') /\ ToSet(due') = ToSet(due) \cup {j}
  BY <1>1, <1>2, AppendListed DEF TypeInv, TypeOK
<1>4. QED BY <1>1, <1>2, <1>3 DEF WaitingOK, Waiting, TypeInv, TypeOK

LEMMA BackoffMoves ==
  ASSUME TypeOK, BackoffElapses
  PROVE  WaitingOK' /\ Waiting' = Waiting
<1> DEFINE j == Head(later)
<1>1. due' = Append(due, j) /\ later' = Tail(later) /\ later # <<>>
  BY DEF BackoffElapses
<1>2. /\ j \in Jobs /\ j \in ToSet(later) /\ later' \in Seq(Jobs) /\ IsInjective(later')
      /\ ToSet(later') = ToSet(later) \ {j}
  BY <1>1, TailListed DEF TypeOK
<1>3. j \notin ToSet(due)
  BY <1>2 DEF TypeOK
<1>4. due' \in Seq(Jobs) /\ IsInjective(due') /\ ToSet(due') = ToSet(due) \cup {j}
  BY <1>1, <1>2, <1>3, AppendListed DEF TypeOK
<1>5. QED BY <1>2, <1>3, <1>4 DEF WaitingOK, Waiting, TypeOK

LEMMA UnwaitRemoves ==
  ASSUME TypeOK, NEW p \in Processes, NEW j \in Jobs, Unwait(p, j)
  PROVE  WaitingOK' /\ Waiting' = Waiting \ {j}
<1>1. due' = Without(due, j) /\ later' = Without(later, j)
  BY DEF Unwait
<1>2. due' \in Seq(Jobs) /\ IsInjective(due') /\ ToSet(due') = ToSet(due) \ {j}
  BY <1>1, WithoutListed DEF TypeOK
<1>3. later' \in Seq(Jobs) /\ IsInjective(later') /\ ToSet(later') = ToSet(later) \ {j}
  BY <1>1, WithoutListed DEF TypeOK
<1>4. QED BY <1>2, <1>3 DEF WaitingOK, Waiting, TypeOK

LEMMA RequeueAdds ==
  ASSUME TypeOK, NEW p \in Processes, NEW j \in Jobs, Requeue(p, j)
  PROVE  WaitingOK' /\ Waiting' = Waiting \cup {j}
<1> DEFINE l == Without(later, j)
<1>1. due' = Without(due, j) /\ later' = Append(l, j)
  BY DEF Requeue
<1>2. due' \in Seq(Jobs) /\ IsInjective(due') /\ ToSet(due') = ToSet(due) \ {j}
  BY <1>1, WithoutListed DEF TypeOK
<1>3. l \in Seq(Jobs) /\ IsInjective(l) /\ ToSet(l) = ToSet(later) \ {j}
  BY WithoutListed DEF TypeOK
<1>4. later' \in Seq(Jobs) /\ IsInjective(later') /\ ToSet(later') = ToSet(l) \cup {j}
  BY <1>1, <1>3, AppendListed
<1>5. QED BY <1>2, <1>3, <1>4 DEF WaitingOK, Waiting, TypeOK

LEMMA KeysAreWaiting ==
  ASSUME TypeOK, NEW n \in Nat
  PROVE  Keys(n) \subseteq Waiting
<1>1. /\ Len(due \o later) = Len(due) + Len(later)
      /\ \A i \in 1..(Len(due) + Len(later)) :
           (due \o later)[i] = IF i <= Len(due) THEN due[i] ELSE later[i - Len(due)]
  BY ConcatProperties DEF TypeOK
<1>2. Len(due) \in Nat /\ Len(later) \in Nat /\ DOMAIN due = 1..Len(due)
      /\ DOMAIN later = 1..Len(later)
  BY DEF TypeOK
<1>3. ASSUME NEW i \in 1..(Len(due) + Len(later))
      PROVE  (due \o later)[i] \in Waiting
  <2>1. CASE i <= Len(due)
    BY <1>1, <1>2, <2>1 DEF Waiting, ToSet
  <2>2. CASE i > Len(due)
    <3>1. i - Len(due) \in 1..Len(later)
      BY <1>2, <2>2
    <3>2. QED BY <1>1, <1>2, <2>2, <3>1 DEF Waiting, ToSet
  <2>3. QED BY <1>2, <2>1, <2>2
<1>4. ASSUME NEW i \in 1..Min({n, Len(due \o later)})
      PROVE  i \in 1..(Len(due) + Len(later))
  BY <1>1, <1>2, MinOfTwo
<1>5. QED BY <1>1, <1>3, <1>4 DEF Keys

(* As many keys at most as were asked for. *)
LEMMA KeysBounded ==
  ASSUME TypeOK, NEW n \in Nat
  PROVE  IsFiniteSet(Keys(n)) /\ Cardinality(Keys(n)) <= n
<1> DEFINE m == Min({n, Len(due \o later)})
           f == [i \in 1..m |-> (due \o later)[i]]
<1>1. m \in Nat /\ m <= n
  <2>1. Len(due \o later) \in Nat
    BY ConcatProperties DEF TypeOK
  <2>2. QED BY <2>1, MinOfTwo
<1> HIDE DEF m
<1>2. f \in Surjection(1..m, Keys(n))
  <2>1. Keys(n) = {(due \o later)[i] : i \in 1..m}
    BY DEF Keys, m
  <2>2. QED BY <2>1 DEF Surjection
<1>3. IsFiniteSet(1..m) /\ Cardinality(1..m) = m
  BY <1>1, FS_Interval
<1>4. IsFiniteSet(Keys(n)) /\ Cardinality(Keys(n)) <= m
  BY <1>2, <1>3, FS_Surjection
<1>5. Cardinality(Keys(n)) \in Nat
  BY <1>4, FS_CardinalityType
<1>6. QED BY <1>1, <1>4, <1>5

LEMMA FewerInFlight ==
  ASSUME NEW S, NEW T, IsFiniteSet(S), T \subseteq S, NEW n \in Nat, Cardinality(S) <= n
  PROVE  IsFiniteSet(T) /\ Cardinality(T) <= n
  BY FS_Subset, FS_CardinalityType

LEMMA TypeInit == Init => TypeInv
<1>1. NoTask \in Task /\ NoTask.pc = "idle"
  BY DEF NoTask, Task, TaskPCs
<1>2. ToSet(<<>>) = {} /\ IsInjective(<<>>) /\ <<>> \in Seq(Jobs)
  BY NothingListed
<1>3. ASSUME Init
      PROVE  SlotsInv
  <2>1. \A p \in Processes : InFlight(p) = {}
    BY <1>1, <1>3 DEF Init, InFlight
  <2>2. QED BY <2>1, FS_EmptySet, JobQueueConstants DEF SlotsInv
<1>4. QED BY <1>1, <1>2, <1>3 DEF Init, TypeInv, TypeOK, EntryInv, Waiting

(* A step of one task keeps the types, if it keeps those of the job's hash *)
(* and of the waiting set, which no other job enters.                      *)
LEMMA TaskTypes ==
  ASSUME TypeInv, NEW p \in Processes, NEW j \in Jobs, TaskStep(p, j) \/ RedisFails(p, j),
         WaitingOK', Waiting' \subseteq Waiting \cup {j},
         attempts' \in [Jobs -> Nat \cup {None}],
         active' \subseteq Jobs, completed' \subseteq Jobs, failed' \subseteq Jobs,
         runs' \in [Jobs -> Nat], delivered' \in [Jobs -> Nat]
  PROVE  TypeInv'
<1>1. PICK t \in Task : Moved(p, j, t)
  BY TaskStepMoves DEF TypeInv
<1>2. task[p][j].pc # "idle" /\ entry' = entry /\ stage' = stage
  BY TaskStepMoves DEF TypeInv
<1>3. TypeOK'
  BY <1>1, <1>2 DEF TypeInv, TypeOK, WaitingOK, Moved
<1>4. EntryInv'
  <2> SUFFICES ASSUME NEW k \in Jobs, entry[k] # "queued"
               PROVE  k \notin Waiting' /\ \A q \in Processes : task'[q][k].pc = "idle"
    BY <1>2 DEF EntryInv
  <2>1. k # j /\ k \notin Waiting /\ \A q \in Processes : task[q][k].pc = "idle"
    BY <1>2 DEF TypeInv, EntryInv
  <2>2. QED BY <1>1, <2>1 DEF Moved
<1>5. SlotsInv'
  <2>1. ASSUME NEW q \in Processes
        PROVE  InFlight(q)' \subseteq InFlight(q)
    BY <1>1, <1>2 DEF InFlight, Moved
  <2>2. QED BY <2>1, FewerInFlight, JobQueueConstants DEF TypeInv, SlotsInv
<1>6. QED BY <1>3, <1>4, <1>5 DEF TypeInv

LEMMA TaskTypeStep ==
  ASSUME TypeInv, NEW p \in Processes, NEW j \in Jobs, TaskStep(p, j) \/ RedisFails(p, j)
  PROVE  TypeInv'
<1> USE DEF TaskStep
<1>0. TypeOK /\ WaitingOK
  BY DEF TypeInv, TypeOK, WaitingOK
<1>1. CASE \/ Load(p, j) \/ Activate(p, j) \/ Unactivate(p, j) \/ Complete(p, j)
           \/ StampCompleted(p, j) \/ Drop(p, j) \/ Bury(p, j) \/ RedisFails(p, j)
  <2>1. /\ UNCHANGED <<waiting, attempts, history>>
        /\ active' \subseteq active \cup {j} /\ completed' \subseteq completed \cup {j}
        /\ failed' \subseteq failed \cup {j}
    BY <1>1 DEF Load, Activate, Unactivate, Complete, StampCompleted, Drop, Bury, RedisFails, redis
  <2>2. WaitingOK' /\ Waiting' = Waiting
    BY <1>0, <2>1 DEF WaitingOK, Waiting, waiting
  <2>3. QED BY <1>0, <2>1, <2>2, TaskTypes DEF TypeOK, history
<1>2. CASE Unwait(p, j)
  <2>1. WaitingOK' /\ Waiting' \subseteq Waiting
    BY <1>0, <1>2, UnwaitRemoves
  <2>2. UNCHANGED <<attempts, active, completed, failed, runs, delivered>>
    BY <1>2 DEF Unwait, history
  <2>3. QED BY <1>0, <1>2, <2>1, <2>2, TaskTypes DEF TypeOK
<1>3. CASE HandlerSucceeds(p, j) \/ HandlerThrows(p, j)
  <2>1. /\ UNCHANGED <<waiting, attempts, active, completed, failed>>
        /\ runs' = [runs EXCEPT ![j] = @ + 1]
        /\ delivered' = delivered \/ delivered' = [delivered EXCEPT ![j] = @ + 1]
    BY <1>3 DEF HandlerSucceeds, HandlerThrows, redis
  <2>2. WaitingOK' /\ Waiting' = Waiting
    BY <1>0, <2>1 DEF WaitingOK, Waiting, waiting
  <2>3. runs' \in [Jobs -> Nat] /\ delivered' \in [Jobs -> Nat]
    BY <1>0, <2>1 DEF TypeOK
  <2>4. QED BY <1>0, <1>3, <2>1, <2>2, <2>3, TaskTypes DEF TypeOK
<1>4. CASE CountAttempt(p, j)
  <2>1. UNCHANGED <<waiting, active, completed, failed, runs, delivered>>
    BY <1>4 DEF CountAttempt, history
  <2>2. WaitingOK' /\ Waiting' = Waiting
    BY <1>0, <2>1 DEF WaitingOK, Waiting, waiting
  <2>3. attempts' \in [Jobs -> Nat \cup {None}]
    BY <1>0, <1>4 DEF CountAttempt, TypeOK, Task
  <2>4. QED BY <1>0, <1>4, <2>1, <2>2, <2>3, TaskTypes DEF TypeOK
<1>5. CASE Requeue(p, j)
  <2>1. WaitingOK' /\ Waiting' \subseteq Waiting \cup {j}
    BY <1>0, <1>5, RequeueAdds
  <2>2. UNCHANGED <<attempts, active, completed, failed, runs, delivered>>
    BY <1>5 DEF Requeue, history
  <2>3. QED BY <1>0, <1>5, <2>1, <2>2, TaskTypes DEF TypeOK
<1>6. QED BY <1>1, <1>2, <1>3, <1>4, <1>5

(* What poll() starts: jobs of the waiting set that it has not in hand. *)
LEMMA PollStarts ==
  ASSUME TypeInv, NEW p \in Processes, Poll(p)
  PROVE  /\ Slots(p) \in Nat /\ Keys(Slots(p)) \subseteq Waiting
         /\ task' \in [Processes -> [Jobs -> Task]]
         /\ \A j \in Keys(Slots(p)) \ InFlight(p) :
              task[p][j].pc = "idle" /\ task'[p][j] = [NoTask EXCEPT !.pc = "load"]
         /\ \A j \in Jobs \ (Keys(Slots(p)) \ InFlight(p)) : task'[p][j] = task[p][j]
         /\ \A q \in Processes \ {p} : task'[q] = task[q]
<1> DEFINE new == Keys(Slots(p)) \ InFlight(p)
           loaded == [NoTask EXCEPT !.pc = "load"]
           mine == [j \in Jobs |-> IF j \in new THEN loaded ELSE task[p][j]]
<1>1. task \in [Processes -> [Jobs -> Task]] /\ task[p] \in [Jobs -> Task]
  BY DEF TypeInv, TypeOK
<1>2. loaded \in Task
  BY DEF NoTask, Task, TaskPCs
<1>3. task' = [task EXCEPT ![p] = mine] /\ Slots(p) > 0
  BY DEF Poll
<1>4. Slots(p) \in Nat
  <2>1. Cardinality(InFlight(p)) \in Nat
    BY FS_CardinalityType DEF TypeInv, SlotsInv
  <2>2. QED BY <1>3, <2>1, JobQueueConstants DEF Slots
<1>5. new \subseteq Jobs /\ Keys(Slots(p)) \subseteq Waiting
  BY <1>4, KeysAreWaiting, WaitingIsJobs DEF TypeInv
<1>6. \A j \in new : task[p][j].pc = "idle"
  BY <1>5 DEF InFlight
<1> HIDE DEF new, loaded
<1>7. mine \in [Jobs -> Task]
  BY <1>1, <1>2
<1>8. task'[p] = mine /\ \A q \in Processes \ {p} : task'[q] = task[q]
  BY <1>1, <1>3
<1>9. task' \in [Processes -> [Jobs -> Task]]
  BY <1>1, <1>3, <1>7
<1>10. QED BY <1>4, <1>5, <1>6, <1>8, <1>9 DEF new, loaded

LEMMA PollTypes ==
  ASSUME TypeInv, NEW p \in Processes, Poll(p)
  PROVE  TypeInv'
<1> DEFINE new == Keys(Slots(p)) \ InFlight(p)
<1>1. /\ Slots(p) \in Nat /\ Keys(Slots(p)) \subseteq Waiting
      /\ task' \in [Processes -> [Jobs -> Task]]
      /\ \A j \in new : task'[p][j] = [NoTask EXCEPT !.pc = "load"]
      /\ \A j \in Jobs \ new : task'[p][j] = task[p][j]
      /\ \A q \in Processes \ {p} : task'[q] = task[q]
  BY PollStarts
<1>2. UNCHANGED <<entry, redis, stage, history>>
  BY DEF Poll
<1>3. Waiting' = Waiting
  BY <1>2 DEF redis, waiting, Waiting
<1>4. TypeOK'
  BY <1>1, <1>2 DEF TypeInv, TypeOK, redis, waiting, history
<1>5. EntryInv'
  <2> SUFFICES ASSUME NEW j \in Jobs, entry[j] # "queued"
               PROVE  j \notin Waiting /\ \A q \in Processes : task'[q][j].pc = "idle"
    BY <1>2, <1>3 DEF EntryInv
  <2>1. j \notin Waiting /\ \A q \in Processes : task[q][j].pc = "idle"
    BY DEF TypeInv, EntryInv
  <2>2. QED BY <1>1, <2>1
<1>6. SlotsInv'
  <2>1. ASSUME NEW q \in Processes \ {p}
        PROVE  InFlight(q)' = InFlight(q)
    BY <1>1 DEF InFlight
  <2>2. InFlight(p)' \subseteq InFlight(p) \cup Keys(Slots(p))
    BY <1>1 DEF InFlight
  <2>3. /\ IsFiniteSet(InFlight(p)) /\ IsFiniteSet(Keys(Slots(p)))
        /\ Cardinality(InFlight(p)) \in Nat /\ Cardinality(Keys(Slots(p))) \in Nat
        /\ Cardinality(Keys(Slots(p))) <= Slots(p)
    BY <1>1, KeysBounded, FS_CardinalityType DEF TypeInv, SlotsInv
  <2>4. /\ IsFiniteSet(InFlight(p) \cup Keys(Slots(p)))
        /\ Cardinality(InFlight(p) \cup Keys(Slots(p)))
             <= Cardinality(InFlight(p)) + Cardinality(Keys(Slots(p)))
    <3>1. /\ IsFiniteSet(InFlight(p) \cup Keys(Slots(p)))
          /\ Cardinality(InFlight(p) \cup Keys(Slots(p)))
               = Cardinality(InFlight(p)) + Cardinality(Keys(Slots(p)))
                 - Cardinality(InFlight(p) \cap Keys(Slots(p)))
      BY <2>3, FS_Union
    <3>2. Cardinality(InFlight(p) \cap Keys(Slots(p))) \in Nat
      BY <2>3, FS_Intersection, FS_CardinalityType
    <3>3. QED BY <2>3, <3>1, <3>2
  <2>5. Cardinality(InFlight(p) \cup Keys(Slots(p))) <= Concurrency
    <3>1. Cardinality(InFlight(p) \cup Keys(Slots(p))) \in Nat
      BY <2>4, FS_CardinalityType
    <3>2. QED BY <2>3, <2>4, <3>1, JobQueueConstants DEF Slots
  <2>6. IsFiniteSet(InFlight(p)') /\ Cardinality(InFlight(p)') <= Concurrency
    BY <2>2, <2>4, <2>5, FewerInFlight, JobQueueConstants
  <2>7. QED BY <2>1, <2>6 DEF TypeInv, SlotsInv
<1>7. QED BY <1>4, <1>5, <1>6 DEF TypeInv

(* The steps of the callers of enqueue(), of time and of the processes. *)
LEMMA OtherTypes ==
  ASSUME TypeInv,
         \/ \E j \in Jobs : AddHash(j) \/ AddWaiting(j)
         \/ BackoffElapses
         \/ \E p \in Processes :
              Signal(p) \/ CloseDatabase(p) \/ Exit(p) \/ Crash(p) \/ Restart(p)
  PROVE  TypeInv'
<1>0. TypeOK /\ EntryInv /\ SlotsInv
  BY DEF TypeInv
<1>1. ASSUME NEW j \in Jobs, AddHash(j)
      PROVE  TypeInv'
  BY <1>0, <1>1 DEF AddHash, TypeInv, TypeOK, EntryInv, SlotsInv, InFlight, Waiting, waiting,
                    history
<1>2. ASSUME NEW j \in Jobs, AddWaiting(j)
      PROVE  TypeInv'
  <2>1. WaitingOK' /\ Waiting' = Waiting \cup {j}
    BY <1>2, AddWaitingAdds
  <2>2. /\ entry' = [entry EXCEPT ![j] = "queued"]
        /\ UNCHANGED <<attempts, active, completed, failed, stage, task, runs, delivered>>
    BY <1>2 DEF AddWaiting, history
  <2>3. TypeOK'
    BY <1>0, <2>1, <2>2 DEF TypeOK, WaitingOK
  <2>4. EntryInv' /\ SlotsInv'
    BY <1>0, <2>1, <2>2 DEF TypeOK, EntryInv, SlotsInv, InFlight
  <2>5. QED BY <2>3, <2>4 DEF TypeInv
<1>3. CASE BackoffElapses
  <2>1. WaitingOK' /\ Waiting' = Waiting
    BY <1>0, <1>3, BackoffMoves
  <2>2. UNCHANGED <<entry, attempts, active, completed, failed, stage, task, runs, delivered>>
    BY <1>3 DEF BackoffElapses, history
  <2>3. TypeOK'
    BY <1>0, <2>1, <2>2 DEF TypeOK, WaitingOK
  <2>4. EntryInv' /\ SlotsInv'
    BY <1>0, <2>1, <2>2 DEF EntryInv, SlotsInv, InFlight
  <2>5. QED BY <2>3, <2>4 DEF TypeInv
<1>4. ASSUME NEW p \in Processes, Signal(p) \/ CloseDatabase(p) \/ Restart(p)
      PROVE  TypeInv'
  <2>1. /\ \E s \in {"running", "stopping", "closed"} : stage' = [stage EXCEPT ![p] = s]
        /\ UNCHANGED <<entry, attempts, due, later, active, completed, failed, task, runs, delivered>>
    BY <1>4 DEF Signal, CloseDatabase, Restart, redis, waiting, history
  <2>2. TypeOK'
    BY <1>0, <2>1 DEF TypeOK
  <2>3. EntryInv' /\ SlotsInv'
    BY <1>0, <2>1 DEF EntryInv, SlotsInv, InFlight, Waiting
  <2>4. QED BY <2>2, <2>3 DEF TypeInv
<1>5. ASSUME NEW p \in Processes, GoDown(p)
      PROVE  TypeInv'
  <2>1. NoTask \in Task /\ NoTask.pc = "idle"
    BY DEF NoTask, Task, TaskPCs
  <2>2. /\ task' = [task EXCEPT ![p] = [j \in Jobs |-> NoTask]]
        /\ stage' = [stage EXCEPT ![p] = "down"]
        /\ UNCHANGED <<entry, attempts, due, later, active, completed, failed, runs, delivered>>
    BY <1>5 DEF GoDown, redis, waiting, history
  <2>3. TypeOK'
    BY <1>0, <2>1, <2>2 DEF TypeOK
  <2>4. EntryInv'
    BY <1>0, <2>1, <2>2 DEF TypeOK, EntryInv, Waiting
  <2>5. \A q \in Processes : InFlight(q)' \subseteq InFlight(q)
    BY <1>0, <2>1, <2>2 DEF TypeOK, InFlight
  <2>6. SlotsInv'
    BY <1>0, <2>5, FewerInFlight, JobQueueConstants DEF SlotsInv
  <2>7. QED BY <2>3, <2>4, <2>6 DEF TypeInv
<1>6. QED BY <1>1, <1>2, <1>3, <1>4, <1>5 DEF Exit, Crash

LEMMA TypeStep ==
  ASSUME TypeInv, [Next]_vars
  PROVE  TypeInv'
<1>1. CASE UNCHANGED vars
  BY <1>1 DEF TypeInv, TypeOK, EntryInv, SlotsInv, InFlight, Waiting, vars, redis, waiting, history
<1>2. CASE Next
  BY <1>2, TaskTypeStep, PollTypes, OtherTypes DEF Next
<1>3. QED BY <1>1, <1>2

(* The sets of the queue, the tasks of the workers and the counts always   *)
(* hold values of their type, and no key is in the waiting set twice,      *)
(* however many processes remove it and put it back.                       *)
THEOREM TypeCorrect == Spec => []TypeOK
<1>1. TypeInv /\ [Next]_vars => TypeInv'
  BY TypeStep
<1>2. TypeInv => TypeOK
  BY DEF TypeInv
<1>3. QED BY TypeInit, <1>1, <1>2, PTL DEF Spec

(* A worker never has more jobs in flight than its concurrency, although   *)
(* it polls while the keys of those it has started are still waiting, and  *)
(* whatever other processes do to the waiting set.                         *)
THEOREM RespectsSlots == Spec => []SlotsRespected
<1>1. TypeInv /\ [Next]_vars => TypeInv'
  BY TypeStep
<1>2. TypeInv => SlotsRespected
  BY DEF TypeInv, SlotsInv, SlotsRespected
<1>3. QED BY TypeInit, <1>1, <1>2, PTL DEF Spec

-----------------------------------------------------------------------------
(* Where an accepted job is while no process dies.  Two facts carry the    *)
(* invariant over the ends of a task: processJob() that finds no hash has  *)
(* a job that was never enqueued, and the stamp comes after the job is in  *)
(* the completed set.                                                      *)

KeptInv ==
  /\ \A p \in Processes : stage[p] = "running"
  /\ \A j \in Jobs : entry[j] # "new" => attempts[j] # None
  /\ \A p \in Processes, j \in Jobs : task[p][j].pc = "stamp" => j \in completed
  /\ NothingLost

LEMMA KeptInit == Init => KeptInv
  BY DEF Init, KeptInv, NothingLost, NoTask

(* A step of one task loses nothing if the task goes on or leaves the job  *)
(* in a set.                                                               *)
LEMMA KeptFrame ==
  ASSUME KeptInv, NEW p \in Processes, NEW j \in Jobs, NEW t \in Task, Moved(p, j, t),
         UNCHANGED <<entry, stage>>,
         \A k \in Jobs : attempts'[k] = None => attempts[k] = None,
         completed \subseteq completed', Waiting \ {j} \subseteq Waiting',
         (active \cup failed) \ {j} \subseteq active' \cup failed',
         t.pc = "stamp" => j \in completed',
         t.pc = "idle" => j \in Waiting' \cup active' \cup completed' \cup failed'
  PROVE  KeptInv'
<1>1. \A q \in Processes, k \in Jobs : q # p \/ k # j => task'[q][k] = task[q][k]
  BY DEF Moved
<1>2. task'[p][j] = t
  BY DEF Moved
<1>3. \A q \in Processes, k \in Jobs : task'[q][k].pc = "stamp" => k \in completed'
  <2>1. ASSUME NEW q \in Processes, NEW k \in Jobs, task'[q][k].pc = "stamp"
        PROVE  k \in completed'
    <3>1. CASE q = p /\ k = j
      BY <1>2, <2>1, <3>1
    <3>2. CASE q # p \/ k # j
      BY <1>1, <2>1, <3>2 DEF KeptInv
    <3>3. QED BY <3>1, <3>2
  <2>2. QED BY <2>1
<1>4. NothingLost'
  <2> SUFFICES ASSUME NEW k \in Jobs, entry[k] = "queued"
               PROVE  \/ k \in Waiting' \cup active' \cup completed' \cup failed'
                      \/ \E q \in Processes : k \in InFlight(q)'
    BY DEF NothingLost
  <2>1. CASE k = j
    BY <1>2, <2>1 DEF InFlight
  <2>2. CASE k # j
    <3>1. \A q \in Processes : k \in InFlight(q) => k \in InFlight(q)'
      BY <1>1, <2>2 DEF InFlight
    <3>2. k \in Waiting \cup active \cup completed \cup failed
            \/ \E q \in Processes : k \in InFlight(q)
      BY DEF KeptInv, NothingLost
    <3>3. QED BY <2>2, <3>1, <3>2
  <2>3. QED BY <2>1, <2>2
<1>5. QED BY <1>3, <1>4 DEF KeptInv

LEMMA KeptTaskStep ==
  ASSUME TypeInv, KeptInv, NEW p \in Processes, NEW j \in Jobs,
         TaskStep(p, j) \/ RedisFails(p, j)
  PROVE  KeptInv'
<1>0. TypeOK
  BY DEF TypeInv
<1>1. PICK t \in Task : Moved(p, j, t)
  BY <1>0, TaskStepMoves
<1>2. UNCHANGED <<entry, stage>> /\ task[p][j].pc # "idle"
  BY <1>0, TaskStepMoves
<1>3. task'[p][j] = t
  BY <1>1 DEF Moved
<1>4. entry[j] = "queued" /\ attempts[j] # None
  BY <1>2 DEF TypeInv, EntryInv, KeptInv
<1> USE DEF Waiting
<1>5. CASE Load(p, j)
  <2>1. t.pc \in {"drop", "unwait"}
    BY <1>0, <1>3, <1>4, <1>5, LoadMoves DEF Moved
  <2>2. QED BY <1>1, <1>2, <1>5, <2>1, KeptFrame DEF Load, redis, waiting
<1>6. CASE Unwait(p, j)
  <2>1. t.pc = "activate"
    BY <1>0, <1>3, <1>6, GotoMoves DEF Unwait, TaskPCs
  <2>2. Waiting' = Waiting \ {j}
    BY <1>0, <1>6, UnwaitRemoves
  <2>3. QED BY <1>1, <1>2, <1>6, <2>1, <2>2, KeptFrame DEF Unwait
<1>7. CASE Activate(p, j)
  <2>1. t.pc = "run"
    BY <1>0, <1>3, <1>7, GotoMoves DEF Activate, TaskPCs
  <2>2. QED BY <1>1, <1>2, <1>7, <2>1, KeptFrame DEF Activate, waiting
<1>8. CASE HandlerSucceeds(p, j)
  <2>1. t.pc = "unactivate"
    BY <1>0, <1>3, <1>8, GotoMoves DEF HandlerSucceeds, TaskPCs
  <2>2. QED BY <1>1, <1>2, <1>8, <2>1, KeptFrame DEF HandlerSucceeds, redis, waiting
<1>9. CASE HandlerThrows(p, j) \/ RedisFails(p, j)
  <2>1. t.pc \in {"count", "drop"}
    BY <1>0, <1>3, <1>9, CaughtMoves DEF HandlerThrows, RedisFails
  <2>2. QED BY <1>1, <1>2, <1>9, <2>1, KeptFrame DEF HandlerThrows, RedisFails, redis, waiting
<1>10. CASE Unactivate(p, j)
  <2>1. t.pc = "complete"
    BY <1>0, <1>3, <1>10, GotoMoves DEF Unactivate, TaskPCs
  <2>2. QED BY <1>1, <1>2, <1>10, <2>1, KeptFrame DEF Unactivate, waiting
<1>11. CASE Complete(p, j)
  <2>1. t.pc = "stamp"
    BY <1>0, <1>3, <1>11, GotoMoves DEF Complete, TaskPCs
  <2>2. QED BY <1>1, <1>2, <1>11, <2>1, KeptFrame DEF Complete, waiting
<1>12. CASE StampCompleted(p, j)
  <2>1. t.pc = "idle" /\ j \in completed
    BY <1>0, <1>3, <1>12, EndTaskMoves DEF StampCompleted, KeptInv
  <2>2. QED BY <1>1, <1>2, <1>12, <2>1, KeptFrame DEF StampCompleted, redis, waiting
<1>13. CASE CountAttempt(p, j)
  <2>1. t.pc = "requeue"
    BY <1>0, <1>3, <1>13, GotoMoves DEF CountAttempt, TaskPCs
  <2>2. \A k \in Jobs : attempts'[k] = None => attempts[k] = None
    BY <1>0, <1>13, JobQueueConstants DEF CountAttempt, TypeOK, Task
  <2>3. QED BY <1>1, <1>2, <1>13, <2>1, <2>2, KeptFrame DEF CountAttempt, waiting
<1>14. CASE Requeue(p, j)
  <2>1. Waiting' = Waiting \cup {j}
    BY <1>0, <1>14, RequeueAdds
  <2>2. t.pc = "idle"
    BY <1>0, <1>3, <1>14, EndTaskMoves DEF Requeue
  <2>3. QED BY <1>1, <1>2, <1>14, <2>1, <2>2, KeptFrame DEF Requeue
<1>15. CASE Drop(p, j)
  <2>1. t.pc = "bury"
    BY <1>0, <1>3, <1>15, GotoMoves DEF Drop, TaskPCs
  <2>2. QED BY <1>1, <1>2, <1>15, <2>1, KeptFrame DEF Drop, waiting
<1>16. CASE Bury(p, j)
  <2>1. t.pc = "idle"
    BY <1>0, <1>3, <1>16, EndTaskMoves DEF Bury
  <2>2. QED BY <1>1, <1>2, <1>16, <2>1, KeptFrame DEF Bury, waiting
<1>17. QED BY <1>5, <1>6, <1>7, <1>8, <1>9, <1>10, <1>11, <1>12, <1>13, <1>14, <1>15, <1>16
           DEF TaskStep

LEMMA KeptStep ==
  ASSUME ~MayCrash, ~MaySignal, TypeInv, KeptInv, [Next]_vars
  PROVE  KeptInv'
<1>0. TypeOK
  BY DEF TypeInv
<1>1. CASE UNCHANGED vars
  BY <1>1 DEF KeptInv, NothingLost, InFlight, Waiting, vars, redis, waiting
<1>2. ASSUME NEW j \in Jobs, AddHash(j)
      PROVE  KeptInv'
  BY <1>0, <1>2, JobQueueConstants DEF AddHash, TypeOK, KeptInv, NothingLost, InFlight, Waiting,
                                       waiting
<1>3. ASSUME NEW j \in Jobs, AddWaiting(j)
      PROVE  KeptInv'
  <2>1. Waiting' = Waiting \cup {j}
    BY <1>3, AddWaitingAdds
  <2>2. QED BY <1>0, <1>3, <2>1 DEF AddWaiting, TypeOK, KeptInv, NothingLost, InFlight
<1>4. CASE BackoffElapses
  <2>1. Waiting' = Waiting
    BY <1>0, <1>4, BackoffMoves
  <2>2. QED BY <1>4, <2>1 DEF BackoffElapses, KeptInv, NothingLost, InFlight
<1>5. ASSUME NEW p \in Processes, Poll(p)
      PROVE  KeptInv'
  <2> DEFINE new == Keys(Slots(p)) \ InFlight(p)
  <2>1. /\ \A j \in new : task[p][j].pc = "idle" /\ task'[p][j] = [NoTask EXCEPT !.pc = "load"]
        /\ \A j \in Jobs \ new : task'[p][j] = task[p][j]
        /\ \A q \in Processes \ {p} : task'[q] = task[q]
    BY <1>5, PollStarts
  <2>2. UNCHANGED <<entry, stage, attempts, due, later, active, completed, failed>>
    BY <1>5 DEF Poll, redis, waiting
  <2>3. \A j \in new : task'[p][j].pc = "load"
    BY <2>1 DEF NoTask
  <2> HIDE DEF new
  <2>4. \A q \in Processes : InFlight(q) \subseteq InFlight(q)'
    BY <2>1, <2>3 DEF InFlight
  <2>5. \A q \in Processes, j \in Jobs : task'[q][j].pc = "stamp" => j \in completed'
    BY <2>1, <2>2, <2>3 DEF KeptInv
  <2>6. QED BY <2>2, <2>4, <2>5 DEF KeptInv, NothingLost, Waiting
<1>6. ASSUME NEW p \in Processes,
             Signal(p) \/ CloseDatabase(p) \/ Exit(p) \/ Crash(p) \/ Restart(p)
      PROVE  FALSE
  BY <1>6 DEF KeptInv, Signal, CloseDatabase, Exit, Crash, Restart
<1>7. QED BY <1>1, <1>2, <1>3, <1>4, <1>5, <1>6, KeptTaskStep DEF Next

(* While no process dies or is stopped, a job that enqueue() accepted is   *)
(* in a set or in the hands of a worker, whichever and however many        *)
(* processes work on it, and whatever Redis commands fail.                 *)
THEOREM LosesNothing ==
  ASSUME ~MayCrash, ~MaySignal
  PROVE  Spec => []NothingLost
<1>1. TypeInv /\ KeptInv /\ [Next]_vars => TypeInv' /\ KeptInv'
  BY TypeStep, KeptStep
<1>2. KeptInv => NothingLost
  BY DEF KeptInv
<1>3. QED BY TypeInit, KeptInit, <1>1, <1>2, PTL DEF Spec

-----------------------------------------------------------------------------
(* One worker process, and Redis answers what it is asked: the promise of  *)
(* JobDelivery is kept through crashes, signals and restarts.  A job that  *)
(* a dead worker held is in neither of the places a job is started from,   *)
(* so that all there is to know is what a waiting job and a job in hand    *)
(* have behind them.                                                       *)

OneWorker == ~RedisMayFail /\ \A p, q \in Processes : p = q

(* The handler may run (again). *)
Owed(j) ==
  delivered[j] = 0 /\ j \notin completed \cup failed /\ runs[j] < MaxAttempts

TaskOK(j, t) ==
  /\ t.pc = "load" => j \in Waiting
  /\ t.pc = "unwait" => j \in Waiting \ Unhandled /\ t.attempts = attempts[j]
  /\ t.pc \in {"activate", "run", "unactivate", "complete", "stamp", "count", "requeue"} =>
       j \notin Waiting \cup Unhandled
  /\ t.pc \in {"activate", "run"} =>
       Owed(j) /\ runs[j] = attempts[j] /\ t.attempts = attempts[j]
  /\ t.pc \in {"unactivate", "complete", "stamp"} => delivered[j] > 0
  /\ t.pc = "count" => Owed(j) /\ runs[j] = t.attempts + 1
  /\ t.pc = "requeue" => Owed(j) /\ runs[j] = attempts[j]
  /\ t.pc \in {"drop", "bury"} /\ j \notin Unhandled =>
       /\ j \notin Waiting \cup completed \cup failed
       /\ delivered[j] = 0 /\ runs[j] = MaxAttempts

JobOK(j) ==
  /\ entry[j] # "queued" => runs[j] = 0 /\ delivered[j] = 0 /\ j \notin completed \cup failed
  /\ entry[j] = "hashed" => attempts[j] = 0
  /\ entry[j] = "queued" /\ j \in Unhandled => j \in Waiting /\ runs[j] = 0
  /\ j \in Waiting => /\ runs[j] = attempts[j] /\ runs[j] < MaxAttempts /\ delivered[j] = 0
                      /\ j \notin completed /\ (j \in failed => j \in Unhandled)
  /\ \A p \in Processes : TaskOK(j, task[p][j])

PromiseInv == \A j \in Jobs : JobOK(j)

LEMMA PromiseInit == Init => PromiseInv
<1> SUFFICES ASSUME Init, NEW j \in Jobs
             PROVE  JobOK(j)
  BY DEF PromiseInv
<1>1. Waiting = {}
  BY NothingListed DEF Init, Waiting
<1>2. \A p \in Processes : task[p][j].pc = "idle"
  BY DEF Init, NoTask
<1>3. QED BY <1>1, <1>2 DEF Init, JobOK, TaskOK

(* The only worker's step on one job concerns that job alone. *)
LEMMA PromiseFrame ==
  ASSUME TypeInv, OneWorker, PromiseInv, NEW p \in Processes, NEW j \in Jobs, NEW t \in Task,
         Moved(p, j, t), task[p][j].pc # "idle", entry' = entry,
         \A k \in Jobs \ {j} :
           /\ UNCHANGED <<attempts[k], runs[k], delivered[k]>>
           /\ k \in Waiting' <=> k \in Waiting
           /\ k \in completed' <=> k \in completed
           /\ k \in failed' <=> k \in failed,
         j \in Unhandled => j \in Waiting' /\ runs'[j] = 0,
         j \in Waiting' => /\ runs'[j] = attempts'[j] /\ runs'[j] < MaxAttempts
                           /\ delivered'[j] = 0 /\ j \notin completed'
                           /\ (j \in failed' => j \in Unhandled),
         TaskOK(j, t)'
  PROVE  PromiseInv'
<1>1. /\ task'[p][j] = t
      /\ \A q \in Processes : q = p
      /\ \A k \in Jobs \ {j} : task'[p][k] = task[p][k]
  BY DEF Moved, OneWorker
<1>2. entry[j] = "queued"
  BY DEF TypeInv, EntryInv
<1>3. JobOK(j)'
  BY <1>1, <1>2 DEF JobOK
<1>4. ASSUME NEW k \in Jobs \ {j}
      PROVE  JobOK(k)'
  <2>1. JobOK(k)
    BY DEF PromiseInv
  <2>2. TaskOK(k, task[p][k])'
    BY <1>1, <2>1 DEF JobOK, TaskOK, Owed
  <2>3. QED BY <1>1, <2>1, <2>2 DEF JobOK
<1>5. QED BY <1>3, <1>4 DEF PromiseInv

LEMMA PromiseTaskStep ==
  ASSUME TypeInv, OneWorker, PromiseInv, NEW p \in Processes, NEW j \in Jobs, TaskStep(p, j)
  PROVE  PromiseInv'
<1>0. TypeOK
  BY DEF TypeInv
<1>1. PICK t \in Task : Moved(p, j, t)
  BY <1>0, TaskStepMoves
<1>2. entry' = entry /\ task[p][j].pc # "idle" /\ entry[j] = "queued"
  BY <1>0, TaskStepMoves DEF TypeInv, EntryInv
<1>3. task'[p][j] = t
  BY <1>1 DEF Moved
<1>4. JobOK(j) /\ TaskOK(j, task[p][j])
  BY DEF PromiseInv, JobOK
<1>5. /\ runs[j] \in Nat /\ delivered[j] \in Nat /\ attempts[j] \in Nat \cup {None}
      /\ MaxAttempts \in Nat \ {0} /\ None \notin Nat
  BY <1>0, JobQueueConstants DEF TypeOK
<1>6. CASE Load(p, j)
  <2>1. UNCHANGED <<attempts, runs, delivered, completed, failed, Waiting>>
    BY <1>6 DEF Load, redis, waiting, history, Waiting
  <2>2. task[p][j].pc = "load" /\ j \in Waiting
    BY <1>4, <1>6 DEF Load, TaskOK
  <2>3. attempts[j] # None
    BY <1>4, <1>5, <2>2 DEF JobOK
  <2>4. t.pc = (IF j \in Unhandled THEN "drop" ELSE "unwait") /\ t.attempts = attempts[j]
    BY <1>0, <1>3, <1>6, <2>3, LoadMoves
  <2>5. TaskOK(j, t)'
    BY <2>1, <2>2, <2>4 DEF TaskOK
  <2>6. QED BY <1>1, <1>2, <1>4, <2>1, <2>5, PromiseFrame DEF JobOK
<1>7. CASE Unwait(p, j)
  <2>1. UNCHANGED <<attempts, runs, delivered, completed, failed>> /\ Waiting' = Waiting \ {j}
    BY <1>0, <1>7, UnwaitRemoves DEF Unwait, history
  <2>2. j \in Waiting \ Unhandled /\ task[p][j].attempts = attempts[j]
    BY <1>4, <1>7 DEF Unwait, TaskOK
  <2>3. t.pc = "activate" /\ t.attempts = attempts[j]
    BY <1>0, <1>3, <1>7, <2>2, GotoMoves DEF Unwait, TaskPCs
  <2>4. TaskOK(j, t)'
    BY <1>4, <2>1, <2>2, <2>3 DEF TaskOK, JobOK, Owed
  <2>5. QED BY <1>1, <1>2, <1>4, <2>1, <2>2, <2>4, PromiseFrame
<1>8. CASE Activate(p, j)
  <2>1. UNCHANGED <<attempts, runs, delivered, completed, failed, Waiting>>
    BY <1>8 DEF Activate, waiting, history, Waiting
  <2>2. t.pc = "run" /\ t.attempts = task[p][j].attempts /\ task[p][j].pc = "activate"
    BY <1>0, <1>3, <1>8, GotoMoves DEF Activate, TaskPCs
  <2>3. TaskOK(j, t)'
    BY <1>4, <2>1, <2>2 DEF TaskOK, Owed
  <2>4. QED BY <1>1, <1>2, <1>4, <2>1, <2>3, PromiseFrame DEF JobOK
<1>9. CASE HandlerSucceeds(p, j)
  <2>1. UNCHANGED <<attempts, completed, failed, Waiting>>
    BY <1>9 DEF HandlerSucceeds, redis, waiting, Waiting
  <2>2. runs' = [runs EXCEPT ![j] = @ + 1] /\ delivered' = [delivered EXCEPT ![j] = @ + 1]
    BY <1>9 DEF HandlerSucceeds
  <2>3. t.pc = "unactivate" /\ task[p][j].pc = "run"
    BY <1>0, <1>3, <1>9, GotoMoves DEF HandlerSucceeds, TaskPCs
  <2>4. /\ j \notin Waiting \cup Unhandled /\ delivered'[j] > 0
        /\ \A k \in Jobs \ {j} : runs'[k] = runs[k] /\ delivered'[k] = delivered[k]
    BY <1>0, <1>4, <1>5, <2>2, <2>3 DEF TaskOK, TypeOK
  <2>5. TaskOK(j, t)'
    BY <2>1, <2>3, <2>4 DEF TaskOK
  <2>6. QED BY <1>1, <1>2, <2>1, <2>4, <2>5, PromiseFrame
<1>10. CASE HandlerThrows(p, j)
  <2>1. UNCHANGED <<attempts, delivered, completed, failed, Waiting>>
    BY <1>10 DEF HandlerThrows, redis, waiting, Waiting
  <2>2. runs'[j] = runs[j] + 1 /\ \A k \in Jobs \ {j} : runs'[k] = runs[k]
    BY <1>0, <1>10 DEF HandlerThrows, TypeOK
  <2>3. /\ j \notin Waiting \cup Unhandled /\ Owed(j) /\ runs[j] = task[p][j].attempts
    BY <1>4, <1>10 DEF HandlerThrows, TaskOK
  <2>4. /\ t.pc = IF runs[j] + 1 < MaxAttempts THEN "count" ELSE "drop"
        /\ t.attempts = runs[j]
    BY <1>0, <1>3, <1>10, <2>3, CaughtMoves DEF HandlerThrows
  <2>5. TaskOK(j, t)'
    BY <1>5, <2>1, <2>2, <2>3, <2>4 DEF TaskOK, Owed
  <2>6. QED BY <1>1, <1>2, <2>1, <2>2, <2>3, <2>5, PromiseFrame
<1>11. CASE Unactivate(p, j)
  <2>1. UNCHANGED <<attempts, runs, delivered, completed, failed, Waiting>>
    BY <1>11 DEF Unactivate, waiting, history, Waiting
  <2>2. t.pc = "complete" /\ task[p][j].pc = "unactivate"
    BY <1>0, <1>3, <1>11, GotoMoves DEF Unactivate, TaskPCs
  <2>3. TaskOK(j, t)'
    BY <1>4, <2>1, <2>2 DEF TaskOK
  <2>4. QED BY <1>1, <1>2, <1>4, <2>1, <2>3, PromiseFrame DEF JobOK
<1>12. CASE Complete(p, j)
  <2>1. UNCHANGED <<attempts, runs, delivered, failed, Waiting>> /\ completed' = completed \cup {j}
    BY <1>12 DEF Complete, waiting, history, Waiting
  <2>2. t.pc = "stamp" /\ task[p][j].pc = "complete"
    BY <1>0, <1>3, <1>12, GotoMoves DEF Complete, TaskPCs
  <2>3. TaskOK(j, t)' /\ j \notin Waiting
    BY <1>4, <2>1, <2>2 DEF TaskOK
  <2>4. QED BY <1>1, <1>2, <1>4, <2>1, <2>3, PromiseFrame DEF JobOK
<1>13. CASE StampCompleted(p, j)
  <2>1. UNCHANGED <<attempts, runs, delivered, completed, failed, Waiting>>
    BY <1>13 DEF StampCompleted, redis, waiting, history, Waiting
  <2>2. t.pc = "idle"
    BY <1>0, <1>3, <1>13, EndTaskMoves DEF StampCompleted
  <2>3. TaskOK(j, t)'
    BY <2>2 DEF TaskOK
  <2>4. QED BY <1>1, <1>2, <1>4, <2>1, <2>3, PromiseFrame DEF JobOK
<1>14. CASE CountAttempt(p, j)
  <2>1. UNCHANGED <<runs, delivered, completed, failed, Waiting>>
    BY <1>14 DEF CountAttempt, waiting, history, Waiting
  <2>2. attempts'[j] = task[p][j].attempts + 1 /\ \A k \in Jobs \ {j} : attempts'[k] = attempts[k]
    BY <1>0, <1>14 DEF CountAttempt, TypeOK
  <2>3. t.pc = "requeue" /\ task[p][j].pc = "count"
    BY <1>0, <1>3, <1>14, GotoMoves DEF CountAttempt, TaskPCs
  <2>4. TaskOK(j, t)' /\ j \notin Waiting \cup Unhandled
    BY <1>4, <2>1, <2>2, <2>3 DEF TaskOK, Owed
  <2>5. QED BY <1>1, <1>2, <2>1, <2>2, <2>4, PromiseFrame
<1>15. CASE Requeue(p, j)
  <2>1. /\ UNCHANGED <<attempts, runs, delivered, completed, failed>>
        /\ Waiting' = Waiting \cup {j}
    BY <1>0, <1>15, RequeueAdds DEF Requeue, history
  <2>2. t.pc = "idle"
    BY <1>0, <1>3, <1>15, EndTaskMoves DEF Requeue
  <2>3. TaskOK(j, t)'
    BY <2>2 DEF TaskOK
  <2>4. Owed(j) /\ runs[j] = attempts[j] /\ j \notin Unhandled
    BY <1>4, <1>15 DEF TaskOK, Requeue
  <2>5. QED BY <1>1, <1>2, <2>1, <2>3, <2>4, PromiseFrame DEF Owed
<1>16. CASE Drop(p, j)
  <2>1. UNCHANGED <<attempts, runs, delivered, completed, failed, Waiting>>
    BY <1>16 DEF Drop, waiting, history, Waiting
  <2>2. t.pc = "bury" /\ task[p][j].pc = "drop"
    BY <1>0, <1>3, <1>16, GotoMoves DEF Drop, TaskPCs
  <2>3. TaskOK(j, t)'
    BY <1>4, <2>1, <2>2 DEF TaskOK
  <2>4. QED BY <1>1, <1>2, <1>4, <2>1, <2>3, PromiseFrame DEF JobOK
<1>17. CASE Bury(p, j)
  <2>1. UNCHANGED <<attempts, runs, delivered, completed, Waiting>> /\ failed' = failed \cup {j}
    BY <1>17 DEF Bury, waiting, history, Waiting
  <2>2. t.pc = "idle"
    BY <1>0, <1>3, <1>17, EndTaskMoves DEF Bury
  <2>3. TaskOK(j, t)'
    BY <2>2 DEF TaskOK
  <2>4. j \in Unhandled \/ j \notin Waiting
    BY <1>4, <1>17 DEF TaskOK, Bury
  <2>5. QED BY <1>1, <1>2, <1>4, <2>1, <2>3, <2>4, PromiseFrame DEF JobOK
<1>18. QED BY <1>6, <1>7, <1>8, <1>9, <1>10, <1>11, <1>12, <1>13, <1>14, <1>15, <1>16, <1>17
           DEF TaskStep

LEMMA PromiseStep ==
  ASSUME OneWorker, TypeInv, PromiseInv, [Next]_vars
  PROVE  PromiseInv'
<1>0. TypeOK
  BY DEF TypeInv
<1>1. CASE UNCHANGED vars
  BY <1>1 DEF PromiseInv, JobOK, TaskOK, Owed, Waiting, vars, redis, waiting, history
<1>2. ASSUME NEW j \in Jobs, AddHash(j)
      PROVE  PromiseInv'
  <2>1. /\ entry' = [entry EXCEPT ![j] = "hashed"] /\ attempts' = [attempts EXCEPT ![j] = 0]
        /\ UNCHANGED <<Waiting, completed, failed, task, runs, delivered>>
        /\ entry[j] = "new"
    BY <1>2 DEF AddHash, waiting, history, Waiting
  <2>2. j \notin Waiting /\ \A p \in Processes : task[p][j].pc = "idle"
    BY <2>1 DEF TypeInv, EntryInv
  <2>3. QED BY <1>0, <2>1, <2>2 DEF TypeOK, PromiseInv, JobOK, TaskOK, Owed
<1>3. ASSUME NEW j \in Jobs, AddWaiting(j)
      PROVE  PromiseInv'
  <2>1. /\ entry' = [entry EXCEPT ![j] = "queued"] /\ entry[j] = "hashed"
        /\ Waiting' = Waiting \cup {j}
        /\ UNCHANGED <<attempts, completed, failed, task, runs, delivered>>
    BY <1>3, AddWaitingAdds DEF AddWaiting, history
  <2>2. j \notin Waiting /\ \A p \in Processes : task[p][j].pc = "idle"
    BY <2>1 DEF TypeInv, EntryInv
  <2>3. JobOK(j)
    BY DEF PromiseInv
  <2>4. JobOK(j)'
    BY <1>0, <2>1, <2>2, <2>3, JobQueueConstants DEF TypeOK, JobOK, TaskOK
  <2>5. ASSUME NEW k \in Jobs \ {j}
        PROVE  JobOK(k)'
    <3>1. JobOK(k)
      BY DEF PromiseInv
    <3>2. QED BY <1>0, <2>1, <3>1 DEF TypeOK, JobOK, TaskOK, Owed
  <2>6. QED BY <2>4, <2>5 DEF PromiseInv
<1>4. CASE BackoffElapses
  <2>1. /\ Waiting' = Waiting
        /\ UNCHANGED <<entry, attempts, completed, failed, task, runs, delivered>>
    BY <1>0, <1>4, BackoffMoves DEF BackoffElapses, history
  <2>2. QED BY <2>1 DEF PromiseInv, JobOK, TaskOK, Owed
<1>5. ASSUME NEW p \in Processes, Poll(p)
      PROVE  PromiseInv'
  <2> DEFINE new == Keys(Slots(p)) \ InFlight(p)
  <2>1. /\ new \subseteq Waiting
        /\ \A j \in new : task'[p][j] = [NoTask EXCEPT !.pc = "load"]
        /\ \A j \in Jobs \ new : task'[p][j] = task[p][j]
        /\ \A q \in Processes : q = p
    BY <1>5, PollStarts DEF OneWorker
  <2>2. UNCHANGED <<entry, attempts, Waiting, completed, failed, runs, delivered>>
    BY <1>5 DEF Poll, redis, waiting, history, Waiting
  <2>3. \A j \in new : task'[p][j].pc = "load"
    BY <2>1 DEF NoTask
  <2> HIDE DEF new
  <2>4. ASSUME NEW j \in Jobs
        PROVE  JobOK(j)'
    <3>1. JobOK(j)
      BY DEF PromiseInv
    <3>2. TaskOK(j, task[p][j])'
      <4>1. CASE j \in new
        BY <2>1, <2>2, <2>3, <4>1 DEF TaskOK
      <4>2. CASE j \notin new
        BY <2>1, <2>2, <3>1, <4>2 DEF JobOK, TaskOK, Owed
      <4>3. QED BY <4>1, <4>2
    <3>3. QED BY <2>1, <2>2, <3>1, <3>2 DEF JobOK
  <2>5. QED BY <2>4 DEF PromiseInv
<1>6. ASSUME NEW p \in Processes,
             Signal(p) \/ CloseDatabase(p) \/ Exit(p) \/ Crash(p) \/ Restart(p)
      PROVE  PromiseInv'
  <2>1. UNCHANGED <<entry, attempts, Waiting, completed, failed, runs, delivered>>
    BY <1>6 DEF Signal, CloseDatabase, Exit, Crash, Restart, GoDown, redis, waiting, history,
                Waiting
  <2>2. \A q \in Processes, j \in Jobs : task'[q][j] = task[q][j] \/ task'[q][j].pc = "idle"
    <3>1. task' = task \/ task' = [task EXCEPT ![p] = [j \in Jobs |-> NoTask]]
      BY <1>6 DEF Signal, CloseDatabase, Exit, Crash, Restart, GoDown
    <3>2. task \in [Processes -> [Jobs -> Task]] /\ NoTask.pc = "idle"
      BY <1>0 DEF TypeOK, NoTask
    <3>3. QED BY <3>1, <3>2
  <2>3. QED BY <2>1, <2>2 DEF PromiseInv, JobOK, TaskOK, Owed
<1>7. ASSUME NEW p \in Processes, NEW j \in Jobs, RedisFails(p, j)
      PROVE  FALSE
  BY <1>7 DEF OneWorker, RedisFails
<1>8. QED BY <1>1, <1>2, <1>3, <1>4, <1>5, <1>6, <1>7, PromiseTaskStep DEF Next

-----------------------------------------------------------------------------
(* What the invariant says of a step: a handler runs only for a job that   *)
(* is owed a run, and the refinement mapping to JobDelivery follows.       *)

LEMMA RunsWhenOwed ==
  ASSUME TypeInv, PromiseInv, NEW p \in Processes, NEW j \in Jobs,
         HandlerSucceeds(p, j) \/ HandlerThrows(p, j)
  PROVE  Owed(j) /\ entry[j] = "queued"
<1>1. TaskOK(j, task[p][j]) /\ task[p][j].pc = "run"
  BY DEF PromiseInv, JobOK, HandlerSucceeds, HandlerThrows
<1>2. QED BY <1>1 DEF TaskOK, TypeInv, EntryInv

LEMMA OtherStepsRunNothing ==
  ASSUME NEW p \in Processes, NEW j \in Jobs,
         TaskStep(p, j) \/ RedisFails(p, j), ~HandlerSucceeds(p, j), ~HandlerThrows(p, j)
  PROVE  UNCHANGED <<entry, runs, delivered>>
  BY DEF TaskStep, Load, Unwait, Activate, Unactivate, Complete, StampCompleted, CountAttempt,
         Requeue, Drop, Bury, RedisFails, history

LEMMA ResultStep ==
  ASSUME TypeInv, PromiseInv, [Next]_vars
  PROVE  \A j \in Jobs : j \in completed \cup failed => runs'[j] = runs[j]
<1>1. CASE runs' = runs
  BY <1>1
<1>2. ASSUME NEW p \in Processes, NEW j \in Jobs, HandlerSucceeds(p, j) \/ HandlerThrows(p, j)
      PROVE  \A k \in Jobs : k \in completed \cup failed => runs'[k] = runs[k]
  <2>1. runs' = [runs EXCEPT ![j] = @ + 1]
    BY <1>2 DEF HandlerSucceeds, HandlerThrows
  <2>2. j \notin completed \cup failed
    BY <1>2, RunsWhenOwed DEF Owed
  <2>3. QED BY <2>1, <2>2 DEF TypeInv, TypeOK
<1>3. CASE UNCHANGED vars
  BY <1>1, <1>3 DEF vars, history
<1>4. CASE \/ \E j \in Jobs : AddHash(j) \/ AddWaiting(j)
           \/ BackoffElapses
           \/ \E p \in Processes :
                \/ Poll(p) \/ Signal(p) \/ CloseDatabase(p) \/ Exit(p) \/ Crash(p) \/ Restart(p)
  <2>1. runs' = runs
    BY <1>4 DEF AddHash, AddWaiting, BackoffElapses, Poll, Signal, CloseDatabase, Exit, Crash,
                Restart, GoDown, history
  <2>2. QED BY <1>1, <2>1
<1>5. QED BY <1>1, <1>2, <1>3, <1>4, OtherStepsRunNothing DEF Next

(* With one worker, a job that is completed or failed is not run again,    *)
(* through any crash, signal and restart between any two Redis commands.   *)
THEOREM KeepsResults ==
  ASSUME OneWorker
  PROVE  Spec => ResultIsFinal
<1>1. TypeInv /\ PromiseInv /\ [Next]_vars => TypeInv' /\ PromiseInv'
  BY TypeStep, PromiseStep
<1>2. TypeInv /\ PromiseInv /\ [Next]_vars
        => [\A j \in Jobs : j \in completed \cup failed => runs'[j] = runs[j]]_vars
  BY ResultStep
<1>3. QED BY TypeInit, PromiseInit, <1>1, <1>2, PTL DEF Spec, ResultIsFinal

-----------------------------------------------------------------------------
(* The refinement of JobDelivery. *)

Fate(j) ==
  IF delivered[j] > 0 THEN "delivered"
  ELSE IF j \in failed THEN "abandoned"
  ELSE IF entry[j] = "queued" THEN "owed" ELSE "unknown"

Promised == [j \in Jobs |-> Fate(j)]

LEMMA DeliveryInit == Init => Delivery!Init
  BY DEF Init, Delivery!Init

LEMMA DeliveryStep ==
  ASSUME OneWorker, TypeInv, PromiseInv, [Next]_vars
  PROVE  [Delivery!Next]_<<Promised, runs>>
<1>0. TypeOK
  BY DEF TypeInv
<1>1. ASSUME NEW p \in Processes, NEW j \in Jobs, HandlerSucceeds(p, j) \/ HandlerThrows(p, j)
      PROVE  Delivery!Attempt(j)
  <2>1. Owed(j) /\ entry[j] = "queued"
    BY <1>1, RunsWhenOwed
  <2>2. /\ runs' = [runs EXCEPT ![j] = @ + 1] /\ failed' = failed /\ entry' = entry
        /\ delivered' = delivered \/ delivered' = [delivered EXCEPT ![j] = @ + 1]
    BY <1>1 DEF HandlerSucceeds, HandlerThrows, redis
  <2>3. Fate(j) = "owed" /\ runs[j] < MaxAttempts
    BY <1>0, <2>1 DEF Owed, Fate, TypeOK
  <2>4. \A k \in Jobs \ {j} : Fate(k)' = Fate(k)
    BY <1>0, <2>2 DEF Fate, TypeOK
  <2>5. Fate(j)' \in {"owed", "delivered"}
    BY <1>0, <2>1, <2>2 DEF Fate, Owed, TypeOK
  <2>6. Promised' = [Promised EXCEPT ![j] = Fate(j)']
    BY <2>4 DEF Promised
  <2>7. QED BY <2>2, <2>3, <2>5, <2>6 DEF Delivery!Attempt, Promised, Fate
<1>2. ASSUME NEW p \in Processes, NEW j \in Jobs, Bury(p, j)
      PROVE  Delivery!Abandon(j) \/ UNCHANGED <<Promised, runs>>
  <2>1. UNCHANGED <<entry, runs, delivered>> /\ failed' = failed \cup {j}
    BY <1>2 DEF Bury, history
  <2>2. CASE j \in failed
    BY <2>1, <2>2 DEF Promised, Fate
  <2>3. CASE j \notin failed
    <3>1. JobOK(j) /\ TaskOK(j, task[p][j]) /\ task[p][j].pc = "bury" /\ entry[j] = "queued"
      BY <1>2 DEF PromiseInv, JobOK, Bury, TypeInv, EntryInv
    <3>2. /\ delivered[j] = 0
          /\ runs[j] = IF j \in Unhandled THEN 0 ELSE MaxAttempts
      BY <3>1 DEF JobOK, TaskOK
    <3>3. Fate(j) = "owed" /\ Fate(j)' = "abandoned"
      BY <2>1, <2>3, <3>1, <3>2 DEF Fate
    <3>4. Promised' = [Promised EXCEPT ![j] = "abandoned"]
      BY <2>1, <3>3 DEF Promised, Fate
    <3>5. QED BY <2>1, <3>2, <3>3, <3>4 DEF Delivery!Abandon, Promised, Fate
  <2>4. QED BY <2>2, <2>3
<1>3. ASSUME NEW j \in Jobs, AddWaiting(j)
      PROVE  Delivery!Accept(j)
  <2>1. /\ entry' = [entry EXCEPT ![j] = "queued"] /\ entry[j] = "hashed"
        /\ UNCHANGED <<failed, runs, delivered>>
    BY <1>3 DEF AddWaiting, history
  <2>2. delivered[j] = 0 /\ j \notin failed
    BY <2>1 DEF PromiseInv, JobOK
  <2>3. Fate(j) = "unknown" /\ Fate(j)' = "owed"
    BY <1>0, <2>1, <2>2 DEF Fate, TypeOK
  <2>4. Promised' = [Promised EXCEPT ![j] = "owed"]
    BY <1>0, <2>1, <2>3 DEF Promised, Fate, TypeOK
  <2>5. QED BY <2>1, <2>3, <2>4 DEF Delivery!Accept, Promised, Fate
<1>4. ASSUME NEW j \in Jobs, AddHash(j)
      PROVE  UNCHANGED <<Promised, runs>>
  BY <1>0, <1>4 DEF AddHash, Promised, Fate, TypeOK, history
<1>5. CASE \/ BackoffElapses
           \/ \E p \in Processes :
                \/ Poll(p) \/ Signal(p) \/ CloseDatabase(p) \/ Exit(p) \/ Crash(p) \/ Restart(p)
           \/ UNCHANGED vars
  <2>1. UNCHANGED <<entry, failed, runs, delivered>>
    BY <1>5 DEF BackoffElapses, Poll, Signal, CloseDatabase, Exit, Crash, Restart, GoDown, redis,
                history, vars
  <2>2. QED BY <2>1 DEF Promised, Fate
<1>6. ASSUME NEW p \in Processes, NEW j \in Jobs, TaskStep(p, j),
             ~HandlerSucceeds(p, j), ~HandlerThrows(p, j), ~Bury(p, j)
      PROVE  UNCHANGED <<Promised, runs>>
  <2>1. UNCHANGED <<entry, failed, runs, delivered>>
    BY <1>6 DEF TaskStep, Load, Unwait, Activate, Unactivate, Complete, StampCompleted,
                CountAttempt, Requeue, Drop, redis, history
  <2>2. QED BY <2>1 DEF Promised, Fate
<1>7. ASSUME NEW p \in Processes, NEW j \in Jobs, RedisFails(p, j)
      PROVE  FALSE
  BY <1>7 DEF OneWorker, RedisFails
<1>8. QED
  BY <1>1, <1>2, <1>3, <1>4, <1>5, <1>6, <1>7 DEF Next, Delivery!Next

(* One worker process keeps the promise of JobDelivery, whatever number of *)
(* jobs and attempts and wherever it is stopped, dies and restarts: at     *)
(* most MaxAttempts runs of a handler, at most one of them successful,     *)
(* none after that, and no job given up before its last attempt.           *)
THEOREM ImplementsDelivery ==
  ASSUME OneWorker
  PROVE  Spec => DeliversAtMostOnce
<1>1. TypeInv /\ PromiseInv /\ [Next]_vars => TypeInv' /\ PromiseInv'
  BY TypeStep, PromiseStep
<1>2. TypeInv /\ PromiseInv /\ [Next]_vars => [Delivery!Next]_<<Promised, runs>>
  BY DeliveryStep
<1>3. QED
  BY TypeInit, PromiseInit, DeliveryInit, <1>1, <1>2, PTL
     DEF Spec, DeliversAtMostOnce, Delivery!Spec, Promised, Fate
=============================================================================
