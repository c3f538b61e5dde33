----------------------------- MODULE WorkerPool -----------------------------
(* The pool of worker threads: WorkerPool (worker_management/worker_pool.py)   *)
(* and the loop of a Worker (worker.py).  Two threads call the pool: the       *)
(* dispatcher checks the scale now and then, the thread that runs the engine   *)
(* stops the pool; both hold its lock for the whole call.                      *)
(*                                                                             *)
(* Time is abstracted to the age of a worker, the time since it last picked    *)
(* up a node: 0 until WORKER_IDLE_THRESHOLD_SECONDS have gone by, 1 after      *)
(* that ("idle"), 2 when scale_down_idle_time has gone by too.                 *)
EXTENDS Integers, Sequences, FiniteSets, SequencesExt, FiniteSetsExt

CONSTANTS MinWorkers, MaxWorkers, ScaleUpThreshold,   \* GraphEngineConfig
          NodeCounts,    \* the sizes of graph a pool is started for
          MaxThreads,    \* bound: the threads a behaviour may create
          MaxDepth       \* bound: the nodes that wait in the ready queue

ASSUME PoolAssumption ==
    /\ MinWorkers \in Nat \ {0} /\ MaxWorkers \in Nat /\ MinWorkers <= MaxWorkers
    /\ ScaleUpThreshold \in Nat /\ MaxDepth \in Nat /\ NodeCounts \subseteq Nat
    /\ MaxThreads \in Nat /\ MaxThreads >= MaxWorkers

VARIABLES depth,     \* qsize() of the ready queue
          workers,   \* _workers: the list of the pool
          created,   \* _worker_counter
          running,   \* _running
          at,        \* where the loop of each thread is
          stop,      \* its _stop_event
          age,       \* its age, see above
          check,     \* the call of check_and_scale under way
          stopping   \* the call of stop under way
poolVars == <<depth, workers, created, running, at, stop, age, check, stopping>>

Threads == 1..MaxThreads
Checks == [pc : {"out", "up", "down", "join"}, depth : 0..MaxDepth,
           count : 0..MaxWorkers, idle : Nat, victim : 0..MaxThreads]
NoCheck == [pc |-> "out", depth |-> 0, count |-> 0, idle |-> 0, victim |-> 0]
IsIdle(w) == age[w] >= 1
LongIdle(w) == age[w] = 2
InPool(w) == Contains(workers, w)

\* start: the initial count depends on the size of the graph only.
InitialCount(nodes) ==
    IF nodes < 10 THEN MinWorkers
    ELSE Min({MinWorkers + (IF nodes < 50 THEN 1 ELSE 2), MaxWorkers})

PoolInit ==
    /\ created \in {InitialCount(n) : n \in NodeCounts}
    /\ workers = [i \in 1..created |-> i]
    /\ at = [w \in Threads |-> IF w <= created THEN "test" ELSE "none"]
    /\ stop = [w \in Threads |-> FALSE]
    /\ age = [w \in Threads |-> 0]
    /\ depth = 0 /\ running = TRUE
    /\ check = NoCheck /\ stopping = 0

-----------------------------------------------------------------------------
(* The loop of a worker.                                                       *)

Move(w, from, to) == at[w] = from /\ at' = [at EXCEPT ![w] = to]
PoolSame == UNCHANGED <<workers, created, running, stop, check, stopping>>

LoopTest(w) ==
    /\ Move(w, "test", IF stop[w] THEN "gone" ELSE "get")
    /\ PoolSame /\ UNCHANGED <<depth, age>>

\* A slip: a worker whose queue is empty ends instead of trying again.
GetTimesOutLeaves(w) ==
    /\ depth = 0 /\ Move(w, "get", "gone")
    /\ PoolSame /\ UNCHANGED <<depth, age>>

\* get() ran into its timeout of 0.1 s.
GetTimesOut(w) ==
    /\ depth = 0 /\ Move(w, "get", "test")
    /\ PoolSame /\ UNCHANGED <<depth, age>>

Take(w) ==
    /\ depth > 0 /\ Move(w, "get", "busy")
    /\ depth' = depth - 1
    /\ age' = [age EXCEPT ![w] = 0]
    /\ PoolSame

\* A slip: the stop event is looked at only when the queue was empty.
FinishSkipsTest(w) ==
    /\ Move(w, "busy", "get")
    /\ PoolSame /\ UNCHANGED <<depth, age>>

\* The node ends, with a result or an exception the loop turns into an event.
Finish(w) ==
    /\ Move(w, "busy", "test")
    /\ PoolSame /\ UNCHANGED <<depth, age>>

-----------------------------------------------------------------------------
(* check_and_scale, called by the dispatcher.                                  *)

LockFree == check.pc = "out" /\ stopping = 0
LoopsSame == UNCHANGED <<depth, running, stopping>>

\* A call that finds the pool stopped returns at once.  Otherwise the counts
\* are read here and stay what they are to the end of the call.
CheckBegin ==
    /\ LockFree /\ running /\ created < MaxThreads
    /\ check' = [pc |-> "up", depth |-> depth, count |-> Len(workers),
                 idle |-> Quantify(Range(workers), IsIdle), victim |-> 0]
    /\ LoopsSame /\ UNCHANGED <<workers, created, at, stop, age>>

ShouldScaleUp == check.depth > ScaleUpThreshold /\ check.count < MaxWorkers

\* _create_worker: the thread is started before it is in the list.
ScaleUp ==
    /\ check.pc = "up" /\ ShouldScaleUp
    /\ created' = created + 1
    /\ workers' = Append(workers, created')
    /\ at' = [at EXCEPT ![created'] = "test"]
    /\ check' = [check EXCEPT !.pc = "down"]
    /\ LoopsSame /\ UNCHANGED <<stop, age>>

NoScaleUp ==
    /\ check.pc = "up" /\ ~ShouldScaleUp
    /\ check' = [check EXCEPT !.pc = "down"]
    /\ LoopsSame /\ UNCHANGED <<workers, created, at, stop, age>>

ExcessCapacity ==
    LET active == check.count - check.idle
    IN check.depth <= active \/ check.idle > active

\* What _try_scale_down asks of the counts before it looks at the workers, and
\* of what would remain; all of it with the counts read when the call began.
MayScaleDown ==
    /\ check.count > MinWorkers /\ check.idle > 0 /\ ExcessCapacity
    /\ check.count - 1 >= MinWorkers
    /\ check.count - 1 >= Max({1, check.depth \div 2})

Candidates == {i \in DOMAIN workers : LongIdle(workers[i])}

\* The first worker of the list that has been idle long enough is told to stop.
ScaleDown ==
    /\ check.pc = "down" /\ MayScaleDown
    /\ \E first \in Candidates :
          /\ \A i \in Candidates : first <= i
          /\ stop' = [stop EXCEPT ![workers[first]] = TRUE]
          /\ check' = [check EXCEPT !.pc = "join", !.victim = workers[first]]
    /\ LoopsSame /\ UNCHANGED <<workers, created, at, age>>

NoScaleDown ==
    /\ check.pc = "down" /\ ~(MayScaleDown /\ Candidates # {})
    /\ check' = NoCheck
    /\ LoopsSame /\ UNCHANGED <<workers, created, at, stop, age>>

\* _remove_worker after the join, which ends with the thread or after 2 s.
RemoveWorker ==
    /\ check.pc = "join"
    /\ workers' = RemoveFirst(workers, check.victim)
    /\ check' = NoCheck
    /\ LoopsSame /\ UNCHANGED <<created, at, stop, age>>

-----------------------------------------------------------------------------
(* stop, called by the thread that runs the engine.                            *)

\* A slip: stop does not take the lock.
StopBeginUnlocked ==
    /\ stopping = 0 /\ running
    /\ running' = FALSE
    /\ stop' = [w \in Threads |-> stop[w] \/ InPool(w)]
    /\ stopping' = 1
    /\ UNCHANGED <<depth, workers, created, at, age, check>>

StopBegin ==
    /\ LockFree /\ running
    /\ running' = FALSE
    /\ stop' = [w \in Threads |-> stop[w] \/ InPool(w)]
    /\ stopping' = 1
    /\ UNCHANGED <<depth, workers, created, at, age, check>>

StopJoin ==
    /\ stopping \in DOMAIN workers
    /\ stopping' = stopping + 1
    /\ UNCHANGED <<depth, workers, created, running, at, stop, age, check>>

StopEnd ==
    /\ stopping = Len(workers) + 1 /\ ~running
    /\ workers' = <<>> /\ stopping' = 0
    /\ UNCHANGED <<depth, created, running, at, stop, age, check>>

-----------------------------------------------------------------------------
(* The surroundings: nodes become ready, time goes by.                         *)

Arrive ==
    /\ depth < MaxDepth /\ depth' = depth + 1
    /\ PoolSame /\ UNCHANGED <<at, age>>

GrowOld(w) ==
    /\ at[w] \notin {"none", "gone"} /\ age[w] < 2
    /\ age' = [age EXCEPT ![w] = @ + 1]
    /\ PoolSame /\ UNCHANGED <<depth, at>>

WorkerStep(w) == LoopTest(w) \/ GetTimesOut(w) \/ Take(w) \/ Finish(w)
CheckStep == ScaleUp \/ NoScaleUp \/ ScaleDown \/ NoScaleDown \/ RemoveWorker
StopStep == StopJoin \/ StopEnd
PoolNext ==
    \/ \E w \in Threads : WorkerStep(w) \/ GrowOld(w)
    \/ CheckBegin \/ CheckStep \/ StopBegin \/ StopStep \/ Arrive

\* Threads run, nodes end, and a call of the pool once begun goes on.  Nobody
\* has to call the pool, and no node has to arrive.
Fairness ==
    /\ \A w \in Threads : WF_poolVars(WorkerStep(w))
    /\ WF_poolVars(CheckStep) /\ WF_poolVars(StopStep)
PoolSpec == PoolInit /\ [][PoolNext]_poolVars
FairSpec == PoolSpec /\ Fairness

-----------------------------------------------------------------------------
\* Type invariant: the state is well-formed.
PoolTypeOK ==
    /\ depth \in 0..MaxDepth /\ created \in 0..MaxThreads /\ running \in BOOLEAN
    /\ workers \in Seq(Threads)
    /\ at \in [Threads -> {"none", "test", "get", "busy", "gone"}]
    /\ stop \in [Threads -> BOOLEAN] /\ age \in [Threads -> 0..2]
    /\ check \in Checks
    /\ stopping \in 0..(MaxWorkers + 1)

\* Every thread that is not in the list has been told to stop: the pool never
\* loses a thread that keeps taking nodes, whichever of check_and_scale and
\* stop comes first.
NoOrphans ==
    \A w \in Threads : at[w] \in {"test", "get", "busy"} => InPool(w) \/ stop[w]

\* While the pool runs its list keeps to the bounds of the configuration, though
\* one call may grow and shrink it by counts that are no longer true.
PoolBounds == running => MinWorkers <= Len(workers) /\ Len(workers) <= MaxWorkers

\* The list holds threads that were started, each of them once, and never more
\* than the configuration allows, not even while the pool stops.
ListInv ==
    /\ Len(workers) <= MaxWorkers
    /\ \A i, j \in DOMAIN workers : workers[i] = workers[j] => i = j
    /\ \A i \in DOMAIN workers : workers[i] <= created
    /\ \A w \in Threads : at[w] = "none" <=> w > created

\* Under the lock a call of check_and_scale may rely on what it read: nobody
\* stops the pool or shortens the list meanwhile, and the worker it waits for
\* is still listed, has been told to stop, and can be spared.
CheckInv ==
    /\ check.pc # "out" => running /\ stopping = 0
    /\ check.pc = "up" => check.count = Len(workers) /\ created < MaxThreads
    /\ check.pc = "down" => check.count <= Len(workers)
    /\ check.pc = "join" => /\ InPool(check.victim) /\ stop[check.victim]
                            /\ Len(workers) > MinWorkers

\* stop has told every listed worker before it waits for the first of them,
\* and leaves an empty list behind.
StopInv ==
    /\ stopping > 0 => ~running /\ \A i \in DOMAIN workers : stop[workers[i]]
    /\ ~running /\ stopping = 0 => workers = <<>>

\* The list, the threads and the stop events are consistent at every moment.
PoolInv == PoolTypeOK /\ NoOrphans /\ PoolBounds /\ ListInv /\ CheckInv /\ StopInv

\* While the pool runs and nodes wait, nodes are taken again and again: no
\* scaling ever leaves the queue without a thread that reads it.
QueueServed == <>[](depth > 0 /\ running) => []<><<depth' < depth>>_poolVars

\* Every thread told to stop ends once its node does.
StoppedEnds == \A w \in Threads : stop[w] ~> at[w] = "gone"

\* Threads serve the queue while they should and end when they should.
ThreadsServe == QueueServed /\ StoppedEnds
=============================================================================
