------------------------------ MODULE JobQueue ------------------------------
(***************************************************************************)
(* The background queue of src/config/queue.ts and                         *)
(* src/services/queue.service.ts: a hash per job and four sorted sets in   *)
(* Redis, and in each server process a worker that polls the waiting set   *)
(* and runs up to Concurrency jobs at a time.  Every Redis command that    *)
(* changes a set is one action; a command that only stamps a time is part  *)
(* of the next one, unless its failure matters.                            *)
(*                                                                         *)
(* A Redis command that fails outside processJob's try block is an         *)
(* unhandled rejection, on which app.ts takes the process down: that is a  *)
(* Crash here.                                                             *)
(***************************************************************************)
EXTENDS Naturals, FiniteSets, Sequences, SequencesExt, FiniteSetsExt

CONSTANTS
  Jobs,           \* job ids
  Unhandled,      \* jobs of a type no handler is registered for
  Processes,      \* server processes, one worker each
  Concurrency,    \* WorkerOptions.concurrency
  MaxAttempts,    \* WorkerOptions.maxAttempts
  MayCrash,       \* whether a process may die
  MaySignal,      \* whether a process may get SIGTERM
  RedisMayFail,   \* whether a Redis command inside the try block may fail
  None

ASSUME JobQueueConstants ==
  /\ Unhandled \subseteq Jobs
  /\ Concurrency \in Nat \ {0}
  /\ MaxAttempts \in Nat \ {0}
  /\ {MayCrash, MaySignal, RedisMayFail} \subseteq BOOLEAN
  /\ None \notin Nat

VARIABLES
  entry,      \* the caller of enqueue(): before the hash, before the zadd, after it
  attempts,   \* attemptsMade in the job's hash; None when there is no hash
  due,        \* the waiting set in score order: the jobs whose score is not in the future
  later,      \* its rest, the retries whose time has not come
  active, completed, failed,
  stage,      \* what each process is doing
  task,       \* processJob, for each process and job in flight
  runs,       \* how often each job's handler has run
  delivered   \* how often it succeeded

waiting == <<due, later>>
redis   == <<attempts, waiting, active, completed, failed>>
history == <<runs, delivered>>
vars    == <<entry, redis, stage, task, history>>

-----------------------------------------------------------------------------
TaskPCs == {"idle", "load", "unwait", "activate", "run", "unactivate", "complete", "stamp",
            "count", "requeue", "drop", "bury"}
Task == [pc : TaskPCs, attempts : Nat]

NoTask == [pc |-> "idle", attempts |-> 0]

TypeOK ==
  /\ entry \in [Jobs -> {"new", "hashed", "queued"}]
  /\ attempts \in [Jobs -> Nat \cup {None}]
  /\ due \in Seq(Jobs) /\ IsInjective(due)
  /\ later \in Seq(Jobs) /\ IsInjective(later)
  /\ ToSet(due) \cap ToSet(later) = {}
  /\ active \subseteq Jobs /\ completed \subseteq Jobs /\ failed \subseteq Jobs
  /\ stage \in [Processes -> {"running", "stopping", "closed", "down"}]
  /\ task \in [Processes -> [Jobs -> Task]]
  /\ runs \in [Jobs -> Nat] /\ delivered \in [Jobs -> Nat]

InFlight(p) == {j \in Jobs : task[p][j].pc # "idle"}

(* Mutant of Slots: what is in flight is not subtracted. *)
AllSlots(p) == Concurrency

Slots(p) == Concurrency - Cardinality(InFlight(p))

Waiting == ToSet(due) \cup ToSet(later)

(* zrem: a key is in a sorted set at most once. *)
Without(s, j) ==
  IF Contains(s, j) THEN RemoveAt(s, CHOOSE i \in DOMAIN s : s[i] = j) ELSE s

Goto(p, j, pc) == task' = [task EXCEPT ![p][j].pc = pc]
EndTask(p, j)  == task' = [task EXCEPT ![p][j] = NoTask]

(* The catch block of processJob. *)
Caught(p, j) ==
  Goto(p, j, IF task[p][j].attempts + 1 < MaxAttempts THEN "count" ELSE "drop")

-----------------------------------------------------------------------------
Init ==
  /\ entry = [j \in Jobs |-> "new"]
  /\ attempts = [j \in Jobs |-> None]
  /\ due = <<>> /\ later = <<>>
  /\ active = {} /\ completed = {} /\ failed = {}
  /\ stage = [p \in Processes |-> "running"]
  /\ task = [p \in Processes |-> [j \in Jobs |-> NoTask]]
  /\ runs = [j \in Jobs |-> 0] /\ delivered = [j \in Jobs |-> 0]

-----------------------------------------------------------------------------
(* addJob(): the hash, then the waiting set, behind what is due and ahead  *)
(* of what is not.  The caller may fail between.                           *)
AddHash(j) ==
  /\ entry[j] = "new"
  /\ entry' = [entry EXCEPT ![j] = "hashed"]
  /\ attempts' = [attempts EXCEPT ![j] = 0]
  /\ UNCHANGED <<waiting, active, completed, failed, stage, task, history>>

AddWaiting(j) ==
  /\ entry[j] = "hashed"
  /\ entry' = [entry EXCEPT ![j] = "queued"]
  /\ due' = Append(due, j)
  /\ UNCHANGED <<attempts, later, active, completed, failed, stage, task, history>>

(* Time passes: the next score in the future is reached. *)
BackoffElapses ==
  /\ later # <<>>
  /\ due' = Append(due, Head(later))
  /\ later' = Tail(later)
  /\ UNCHANGED <<entry, attempts, active, completed, failed, stage, task, history>>

-----------------------------------------------------------------------------
(* Mutant of Keys: the end of the range is not part of it. *)
KeysBeforeEnd(n) == {(due \o later)[i] : i \in 1..Min({n - 1, Len(due \o later)})}

(* getWaitingJobs(): the first n keys. *)
Keys(n) == {(due \o later)[i] : i \in 1..Min({n, Len(due \o later)})}

(* poll(): as many keys as there are free slots, from the front of the     *)
(* waiting set whatever their score; those not in flight here are started. *)
(* One action although it awaits: a process has one Redis connection and   *)
(* its replies come in order, so none of its tasks ends in between.        *)
Poll(p) ==
  /\ stage[p] = "running"
  /\ Slots(p) > 0
  /\ Keys(Slots(p)) \ InFlight(p) # {}
  /\ task' = [task EXCEPT ![p] =
               [j \in Jobs |-> IF j \in Keys(Slots(p)) \ InFlight(p)
                                 THEN [NoTask EXCEPT !.pc = "load"] ELSE @[j]]]
  /\ UNCHANGED <<entry, redis, stage, history>>

-----------------------------------------------------------------------------
(* processJob(): the hash is read once; attemptsMade is used after the run. *)
Load(p, j) ==
  /\ task[p][j].pc = "load"
  /\ IF attempts[j] = None
       THEN EndTask(p, j)
       ELSE task' = [task EXCEPT ![p][j] =
                      [pc |-> IF j \in Unhandled THEN "drop" ELSE "unwait",
                       attempts |-> attempts[j]]]
  /\ UNCHANGED <<entry, redis, stage, history>>

(* Mutant of Unwait: the key is left in the waiting set. *)
UnwaitNothing(p, j) ==
  /\ task[p][j].pc = "unwait"
  /\ Goto(p, j, "activate")
  /\ UNCHANGED <<entry, redis, stage, history>>

(* moveJobToActive(). *)
Unwait(p, j) ==
  /\ task[p][j].pc = "unwait"
  /\ due' = Without(due, j)
  /\ later' = Without(later, j)
  /\ Goto(p, j, "activate")
  /\ UNCHANGED <<entry, attempts, active, completed, failed, stage, history>>

Activate(p, j) ==
  /\ task[p][j].pc = "activate"
  /\ active' = active \cup {j}
  /\ Goto(p, j, "run")
  /\ UNCHANGED <<entry, attempts, waiting, completed, failed, stage, history>>

HandlerSucceeds(p, j) ==
  /\ task[p][j].pc = "run"
  /\ runs' = [runs EXCEPT ![j] = @ + 1]
  /\ delivered' = [delivered EXCEPT ![j] = @ + 1]
  /\ Goto(p, j, "unactivate")
  /\ UNCHANGED <<entry, redis, stage>>

HandlerThrows(p, j) ==
  /\ task[p][j].pc = "run"
  /\ runs' = [runs EXCEPT ![j] = @ + 1]
  /\ Caught(p, j)
  /\ UNCHANGED <<entry, redis, stage, delivered>>

(* updateJobProgress(100) and moveJobToCompleted(), still inside the try.  *)
Unactivate(p, j) ==
  /\ task[p][j].pc = "unactivate"
  /\ active' = active \ {j}
  /\ Goto(p, j, "complete")
  /\ UNCHANGED <<entry, attempts, waiting, completed, failed, stage, history>>

Complete(p, j) ==
  /\ task[p][j].pc = "complete"
  /\ completed' = completed \cup {j}
  /\ Goto(p, j, "stamp")
  /\ UNCHANGED <<entry, attempts, waiting, active, failed, stage, history>>

StampCompleted(p, j) ==
  /\ task[p][j].pc = "stamp"
  /\ EndTask(p, j)
  /\ UNCHANGED <<entry, redis, stage, history>>

RedisFails(p, j) ==
  /\ RedisMayFail
  /\ task[p][j].pc \in {"unactivate", "complete", "stamp"}
  /\ Caught(p, j)
  /\ UNCHANGED <<entry, redis, stage, history>>

(* Mutant of CountAttempt: the count is not stored. *)
CountNothing(p, j) ==
  /\ task[p][j].pc = "count"
  /\ Goto(p, j, "requeue")
  /\ UNCHANGED <<entry, redis, stage, history>>

(* The retry: the count is stored, and the key goes back to the waiting set *)
(* with a score in the future.  It is not taken out of the active set.     *)
CountAttempt(p, j) ==
  /\ task[p][j].pc = "count"
  /\ attempts' = [attempts EXCEPT ![j] = task[p][j].attempts + 1]
  /\ Goto(p, j, "requeue")
  /\ UNCHANGED <<entry, waiting, active, completed, failed, stage, history>>

(* Mutant of Requeue: the waiting set is a list. *)
RequeueInList(p, j) ==
  /\ task[p][j].pc = "requeue"
  /\ later' = Append(later, j)
  /\ EndTask(p, j)
  /\ UNCHANGED <<entry, attempts, due, active, completed, failed, stage, history>>

(* Mutant of Requeue: only the count is stored. *)
RequeueNothing(p, j) ==
  /\ task[p][j].pc = "requeue"
  /\ EndTask(p, j)
  /\ UNCHANGED <<entry, redis, stage, history>>

Requeue(p, j) ==
  /\ task[p][j].pc = "requeue"
  /\ due' = Without(due, j)
  /\ later' = Append(Without(later, j), j)
  /\ EndTask(p, j)
  /\ UNCHANGED <<entry, attempts, active, completed, failed, stage, history>>

(* Mutant of Drop: the job leaves the active set for nowhere. *)
DropOnly(p, j) ==
  /\ task[p][j].pc = "drop"
  /\ active' = active \ {j}
  /\ EndTask(p, j)
  /\ UNCHANGED <<entry, attempts, waiting, completed, failed, stage, history>>

(* moveJobToFailed(), also for a job without a handler: the waiting set is *)
(* left as it is.                                                          *)
Drop(p, j) ==
  /\ task[p][j].pc = "drop"
  /\ active' = active \ {j}
  /\ Goto(p, j, "bury")
  /\ UNCHANGED <<entry, attempts, waiting, completed, failed, stage, history>>

Bury(p, j) ==
  /\ task[p][j].pc = "bury"
  /\ failed' = failed \cup {j}
  /\ EndTask(p, j)
  /\ UNCHANGED <<entry, attempts, waiting, active, completed, stage, history>>

-----------------------------------------------------------------------------
(* SIGTERM: server.ts calls stopWorkers(), which stops the polling, while  *)
(* app.ts and database.ts close the database and exit on their own.        *)
Signal(p) ==
  /\ MaySignal
  /\ stage[p] = "running"
  /\ stage' = [stage EXCEPT ![p] = "stopping"]
  /\ UNCHANGED <<entry, redis, task, history>>

CloseDatabase(p) ==
  /\ stage[p] = "stopping"
  /\ stage' = [stage EXCEPT ![p] = "closed"]
  /\ UNCHANGED <<entry, redis, task, history>>

(* process.exit(0), or the process dies: what was in flight is forgotten.  *)
GoDown(p) ==
  /\ stage' = [stage EXCEPT ![p] = "down"]
  /\ task' = [task EXCEPT ![p] = [j \in Jobs |-> NoTask]]
  /\ UNCHANGED <<entry, redis, history>>

Exit(p)  == stage[p] = "closed" /\ GoDown(p)
Crash(p) == MayCrash /\ stage[p] # "down" /\ GoDown(p)

Restart(p) ==
  /\ stage[p] = "down"
  /\ stage' = [stage EXCEPT ![p] = "running"]
  /\ UNCHANGED <<entry, redis, task, history>>

-----------------------------------------------------------------------------
TaskStep(p, j) ==
  \/ Load(p, j)
  \/ Unwait(p, j)
  \/ Activate(p, j)
  \/ HandlerSucceeds(p, j)
  \/ HandlerThrows(p, j)
  \/ Unactivate(p, j)
  \/ Complete(p, j)
  \/ StampCompleted(p, j)
  \/ CountAttempt(p, j)
  \/ Requeue(p, j)
  \/ Drop(p, j)
  \/ Bury(p, j)

Next ==
  \/ \E j \in Jobs : AddHash(j) \/ AddWaiting(j)
  \/ BackoffElapses
  \/ \E p \in Processes :
       \/ Poll(p)
       \/ Signal(p) \/ CloseDatabase(p) \/ Exit(p) \/ Crash(p) \/ Restart(p)
       \/ \E j \in Jobs : TaskStep(p, j) \/ RedisFails(p, j)

Spec == Init /\ [][Next]_vars

(* The poll timer keeps firing, Redis answers and every handler returns.   *)
FairSpec ==
  /\ Spec
  /\ \A p \in Processes :
       /\ WF_vars(Poll(p))
       /\ \A j \in Jobs : WF_vars(TaskStep(p, j))

-----------------------------------------------------------------------------
(* Properties *)

(* A worker never has more jobs in flight than its concurrency, although   *)
(* a key leaves the waiting set some time after its job was started.       *)
SlotsRespected ==
  \A p \in Processes : Cardinality(InFlight(p)) <= Concurrency

(* As long as no process dies, a job that enqueue() accepted is in a set   *)
(* or in the hands of a worker, whichever processes work on it.            *)
NothingLost ==
  \A j \in Jobs :
    entry[j] = "queued" =>
      \/ j \in Waiting
      \/ j \in active \cup completed \cup failed
      \/ \E p \in Processes : j \in InFlight(p)

(* A job's result is final: once it is completed or failed its handler is  *)
(* not run again.                                                          *)
ResultIsFinal ==
  [][\A j \in Jobs : j \in completed \cup failed => runs'[j] = runs[j]]_vars

(* What the queue promises of a job, with a single worker process.         *)
Delivery == INSTANCE JobDelivery WITH
  fate  <- [j \in Jobs |-> IF delivered[j] > 0 THEN "delivered"
                           ELSE IF j \in failed THEN "abandoned"
                           ELSE IF entry[j] = "queued" THEN "owed" ELSE "unknown"],
  tries <- runs

DeliversAtMostOnce == Delivery!Spec

(* The jobs that no poll gets rid of: each of them goes to the failed set  *)
(* and keeps its place in the waiting set, at the front.                   *)
Stuck == {j \in Unhandled : entry[j] = "queued"}

(* Every accepted job is completed or failed in the end, also behind a job *)
(* without a handler, which is picked again at every poll: as long as such *)
(* jobs leave a slot.  Once they are as many as the slots of a worker, its *)
(* polls read nothing else, and jobs behind them are never started.        *)
EverySettled ==
  \A j \in Jobs :
    (entry[j] = "queued") ~> (j \in completed \cup failed \/ Cardinality(Stuck) >= Concurrency)
=============================================================================
