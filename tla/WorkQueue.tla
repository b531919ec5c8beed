------------------------------ MODULE WorkQueue ------------------------------
(***************************************************************************)
(* px4::WorkQueue, its worker thread, and the WorkItems that other threads *)
(* construct, schedule and destroy on it.  A section under work_lock() is  *)
(* one step; between two sections other threads run.  The worker is itself *)
(* a caller while it executes an item's Run(), which may schedule items or *)
(* delete the item (ModuleBase::exit_and_cleanup()).                       *)
(*                                                                         *)
(* With AtomicSchedule, ScheduleNow() is one step: it is called with       *)
(* interrupts off, by a uORB callback or a timer on NuttX.  Otherwise it   *)
(* is called by threads that can be preempted between its parts.           *)
(***************************************************************************)
EXTENDS Integers, FiniteSets, SequencesExt

CONSTANTS
  Clients,         \* threads other than the worker
  Worker,          \* the thread of the queue
  Items,           \* WorkItem objects
  NoItem,
  AtomicSchedule,  \* see above
  MayStop          \* WorkQueueManagerStop() may be called

VARIABLES
  q,           \* _q
  attached,    \* _work_items
  sem,         \* value of _process_lock
  exitLock,    \* value of _exit_lock
  shouldExit,  \* _should_exit
  worker,      \* where the worker thread is
  current,     \* the item it runs
  inProgress,  \* [Items -> _run_in_progress]
  hasQueue,    \* [Items -> _wq is set]
  life,        \* [Items -> lifetime of the object]
  pc,          \* [Threads -> where the thread is in a call]
  arg          \* [Threads -> the item of that call]

queueVars == <<q, attached, sem, exitLock, shouldExit>>
itemVars  == <<inProgress, hasQueue, life>>
callVars  == <<pc, arg>>
vars == <<queueVars, worker, current, itemVars, callVars>>

Threads == Clients \cup {Worker}

WorkerStates == {"check", "wait", "process", "run", "leave", "destruct", "dead"}
CallStates   == {"idle", "attach", "push", "getvalue", "semPost",
                 "remove", "await", "detach", "exitPost", "free"}
OwnerStates  == {"attach", "remove", "await", "detach", "exitPost", "free"}

ASSUME WorkQueueConstants ==
  /\ IsFiniteSet(Clients) /\ Worker \notin Clients
  /\ NoItem \notin Items
  /\ AtomicSchedule \in BOOLEAN /\ MayStop \in BOOLEAN

(* A thread may make a call; the worker only from within Run().            *)
CanCall(t) == pc[t] = "idle" /\ (t = Worker => worker = "run")

(* "Caller is responsible for synchronization": at most one thread         *)
(* constructs or destroys an item.                                         *)
Owned(i) == \E t \in Threads : arg[t] = i /\ pc[t] \in OwnerStates

Goto(t, state) == pc' = [pc EXCEPT ![t] = state]

(* IntrusiveQueue::push() ignores an item that is queued.                  *)
Pushed(i) == IF Contains(q, i) THEN q ELSE Append(q, i)

(* Mutant: queued work is not removed. *)
Dequeued_Not(i) == q

(* IntrusiveQueue::remove().                                               *)
Dequeued(i) ==
  IF Contains(q, i) THEN RemoveAt(q, CHOOSE k \in 1..Len(q) : q[k] = i) ELSE q

Signalled == IF sem <= 0 THEN sem + 1 ELSE sem

Init ==
  /\ q = <<>> /\ attached = {} /\ sem = 0 /\ exitLock = 1 /\ shouldExit = FALSE
  /\ worker = "check" /\ current = NoItem
  /\ inProgress = [i \in Items |-> FALSE]
  /\ hasQueue = [i \in Items |-> FALSE]
  /\ life = [i \in Items |-> "unborn"]
  /\ pc = [t \in Threads |-> "idle"]
  /\ arg = [t \in Threads |-> NoItem]
-----------------------------------------------------------------------------
(* WorkItem::Init(): the queue is found in the manager's list, then the    *)
(* item attaches to it.                                                    *)
Construct(t, i) ==
  /\ CanCall(t) /\ life[i] = "unborn"
  /\ worker \notin {"destruct", "dead"}
  /\ life' = [life EXCEPT ![i] = "alive"]
  /\ arg' = [arg EXCEPT ![t] = i] /\ Goto(t, "attach")
  /\ UNCHANGED <<queueVars, worker, current, inProgress, hasQueue>>

Attach(t) ==
  /\ pc[t] = "attach"
  /\ attached' = IF shouldExit THEN attached ELSE attached \cup {arg[t]}
  /\ hasQueue' = [hasQueue EXCEPT ![arg[t]] = ~shouldExit]
  /\ Goto(t, "idle")
  /\ UNCHANGED <<q, sem, exitLock, shouldExit, worker, current, inProgress,
                 life, arg>>

(* Mutant: the worker is not woken. *)
ScheduleNow_NoSignal(t, i) ==
  /\ AtomicSchedule /\ CanCall(t) /\ hasQueue[i]
  /\ q' = Pushed(i)
  /\ UNCHANGED <<attached, sem, exitLock, shouldExit, worker, current, itemVars,
                 callVars>>

(* ScheduleNow() with interrupts off.                                      *)
ScheduleNow(t, i) ==
  /\ AtomicSchedule /\ CanCall(t) /\ hasQueue[i]
  /\ q' = Pushed(i) /\ sem' = Signalled
  /\ UNCHANGED <<attached, exitLock, shouldExit, worker, current, itemVars,
                 callVars>>

(* ScheduleNow() by a thread: the check of _wq, Add()'s push, and the two  *)
(* parts of SignalWorkerThread().                                          *)
StartSchedule(t, i) ==
  /\ ~AtomicSchedule /\ CanCall(t) /\ hasQueue[i]
  /\ arg' = [arg EXCEPT ![t] = i] /\ Goto(t, "push")
  /\ UNCHANGED <<queueVars, worker, current, itemVars>>

Push(t) ==
  /\ pc[t] = "push"
  /\ q' = Pushed(arg[t])
  /\ Goto(t, "getvalue")
  /\ UNCHANGED <<attached, sem, exitLock, shouldExit, worker, current, itemVars, arg>>

(* Mutant: the value of the semaphore is not checked. *)
GetValue_Always(t) ==
  /\ pc[t] = "getvalue"
  /\ Goto(t, "semPost")
  /\ UNCHANGED <<queueVars, worker, current, itemVars, arg>>

GetValue(t) ==
  /\ pc[t] = "getvalue"
  /\ Goto(t, IF sem <= 0 THEN "semPost" ELSE "idle")
  /\ UNCHANGED <<queueVars, worker, current, itemVars, arg>>

SemPost(t) ==
  /\ pc[t] = "semPost"
  /\ sem' = sem + 1
  /\ Goto(t, "idle")
  /\ UNCHANGED <<q, attached, exitLock, shouldExit, worker, current, itemVars, arg>>

ScheduleClear(t, i) ==
  /\ CanCall(t) /\ hasQueue[i] /\ Contains(q, i)
  /\ q' = Dequeued(i)
  /\ UNCHANGED <<attached, sem, exitLock, shouldExit, worker, current, itemVars,
                 callVars>>
-----------------------------------------------------------------------------
(* ~WorkItem(): Deinit(), which clears _wq first.                          *)
Destroy(t, i) ==
  /\ CanCall(t) /\ life[i] = "alive" /\ ~Owned(i)
  /\ arg' = [arg EXCEPT ![t] = i]
  /\ Goto(t, IF hasQueue[i] THEN "remove" ELSE "free")
  /\ hasQueue' = [hasQueue EXCEPT ![i] = FALSE]
  /\ UNCHANGED <<queueVars, worker, current, inProgress, life>>

(* Mutant: Run() waits for itself. *)
AfterRemove_AlwaysWaits(t) == "await"

AfterRemove(t) == IF t = Worker THEN "detach" ELSE "await"

RemoveQueued(t) ==
  /\ pc[t] = "remove"
  /\ q' = Dequeued(arg[t])
  /\ Goto(t, AfterRemove(t))
  /\ UNCHANGED <<attached, sem, exitLock, shouldExit, worker, current, itemVars, arg>>

AwaitRun(t) ==
  /\ pc[t] = "await" /\ ~inProgress[arg[t]]
  /\ Goto(t, "detach")
  /\ UNCHANGED <<queueVars, worker, current, itemVars, arg>>

(* Detach(): the last item stops the queue and keeps it from being         *)
(* destroyed until it has let go of it.                                    *)
Detach(t) ==
  /\ pc[t] = "detach"
  /\ attached' = attached \ {arg[t]}
  /\ \/ /\ attached' # {}
        /\ Goto(t, "free")
        /\ UNCHANGED <<sem, exitLock, shouldExit>>
     \/ /\ attached' = {} /\ exitLock = 1
        /\ exitLock' = 0 /\ shouldExit' = TRUE /\ sem' = Signalled
        /\ Goto(t, "exitPost")
  /\ UNCHANGED <<q, worker, current, itemVars, arg>>

ExitPost(t) ==
  /\ pc[t] = "exitPost"
  /\ exitLock' = exitLock + 1
  /\ Goto(t, "free")
  /\ UNCHANGED <<q, attached, sem, shouldExit, worker, current, itemVars, arg>>

(* The destructor returns and the memory is released.                      *)
Free(t) ==
  /\ pc[t] = "free"
  /\ life' = [life EXCEPT ![arg[t]] = "destroyed"]
  /\ Goto(t, "idle")
  /\ UNCHANGED <<queueVars, worker, current, inProgress, hasQueue, arg>>

(* Mutant: the worker is not woken. *)
request_stop_NoSignal(t) ==
  /\ MayStop /\ CanCall(t) /\ t # Worker /\ ~shouldExit
  /\ worker \notin {"destruct", "dead"}
  /\ shouldExit' = TRUE
  /\ UNCHANGED <<q, attached, sem, exitLock, worker, current, itemVars, callVars>>

(* WorkQueueManagerStop() asks a queue in its list to stop.                *)
request_stop(t) ==
  /\ MayStop /\ CanCall(t) /\ t # Worker /\ ~shouldExit
  /\ worker \notin {"destruct", "dead"}
  /\ shouldExit' = TRUE
  /\ Goto(t, "getvalue")
  /\ UNCHANGED <<q, attached, sem, exitLock, worker, current, itemVars, arg>>
-----------------------------------------------------------------------------
(* WorkQueue::Run().                                                       *)
WorkerCheck ==
  /\ worker = "check"
  /\ worker' = IF shouldExit THEN "leave" ELSE "wait"
  /\ UNCHANGED <<queueVars, current, itemVars, callVars>>

WorkerWait ==
  /\ worker = "wait" /\ sem > 0
  /\ sem' = sem - 1
  /\ worker' = "process"
  /\ UNCHANGED <<q, attached, exitLock, shouldExit, current, itemVars, callVars>>

(* Mutant: the item is not marked before the lock is released. *)
Marked_Not(i) == inProgress

Marked(i) == [inProgress EXCEPT ![i] = TRUE]

(* Under the lock: the next item is taken and marked, or there is none.    *)
WorkerProcess ==
  /\ worker = "process"
  /\ \/ /\ q # <<>>
        /\ current' = Head(q) /\ q' = Tail(q)
        /\ inProgress' = Marked(Head(q))
        /\ worker' = "run"
     \/ /\ q = <<>>
        /\ worker' = "check"
        /\ UNCHANGED <<q, current, inProgress>>
  /\ UNCHANGED <<attached, sem, exitLock, shouldExit, hasQueue, life, callVars>>

(* Run() returns and the mark is cleared.                                  *)
WorkerRan ==
  /\ worker = "run" /\ pc[Worker] = "idle"
  /\ inProgress' = [inProgress EXCEPT ![current] = FALSE]
  /\ current' = NoItem
  /\ worker' = "process"
  /\ UNCHANGED <<queueVars, hasQueue, life, callVars>>

(* WorkQueueRunner() takes the queue off the list.                         *)
WorkerLeave ==
  /\ worker = "leave"
  /\ worker' = "destruct"
  /\ UNCHANGED <<queueVars, current, itemVars, callVars>>

(* Mutant: the destructor does not wait for Detach(). *)
WorkerDestruct_NoWait ==
  /\ worker = "destruct"
  /\ exitLock' = 0
  /\ worker' = "dead"
  /\ UNCHANGED <<q, attached, sem, shouldExit, current, itemVars, callVars>>

(* ~WorkQueue() waits for a Detach() that still uses the queue.            *)
WorkerDestruct ==
  /\ worker = "destruct" /\ exitLock = 1
  /\ exitLock' = 0
  /\ worker' = "dead"
  /\ UNCHANGED <<q, attached, sem, shouldExit, current, itemVars, callVars>>

WorkerNext ==
  \/ WorkerCheck \/ WorkerWait \/ WorkerProcess \/ WorkerRan
  \/ WorkerLeave \/ WorkerDestruct

(* A step of a call in progress.                                           *)
CallNext(t) ==
  \/ Attach(t) \/ Push(t) \/ GetValue(t) \/ SemPost(t) \/ RemoveQueued(t)
  \/ AwaitRun(t) \/ Detach(t) \/ ExitPost(t) \/ Free(t)

StartNext(t) ==
  \/ \E i \in Items : \/ Construct(t, i) \/ ScheduleNow(t, i) \/ StartSchedule(t, i)
                      \/ ScheduleClear(t, i) \/ Destroy(t, i)
  \/ request_stop(t)

Next == WorkerNext \/ \E t \in Threads : CallNext(t) \/ StartNext(t)

Spec == Init /\ [][Next]_vars

(* Every thread is scheduled, and Run() returns whatever calls it makes.   *)
Fairness ==
  /\ WF_vars(WorkerNext) /\ SF_vars(WorkerRan)
  /\ \A t \in Threads : WF_vars(CallNext(t))
FairSpec == Spec /\ Fairness
-----------------------------------------------------------------------------
(* Every variable stays in its type.                                       *)
TypeOK ==
  /\ q \in Seq(Items) /\ attached \subseteq Items
  /\ sem \in Nat /\ exitLock \in {0, 1}
  /\ shouldExit \in BOOLEAN
  /\ worker \in WorkerStates /\ current \in Items \cup {NoItem}
  /\ inProgress \in [Items -> BOOLEAN] /\ hasQueue \in [Items -> BOOLEAN]
  /\ life \in [Items -> {"unborn", "alive", "destroyed"}]
  /\ pc \in [Threads -> CallStates] /\ arg \in [Threads -> Items \cup {NoItem}]

(* However many threads signal at once, the semaphore counts no more       *)
(* wake-ups than there are threads.                                        *)
SemaphoreBounded == sem <= Cardinality(Threads)

(* Another thread that destroys an item has waited for its Run() to        *)
(* return: only Run() itself can delete the item that runs.                *)
DestroyWaitsForRun ==
  [][\A i \in Items : life'[i] # life[i] /\ worker = "run" /\ current = i
                      => pc[Worker] = "free"]_vars

(* Deinit() "prevents additional insertions": a destroyed item is not in   *)
(* the queue, where the worker would find it.                              *)
DestroyedIsNotQueued == \A i \in Items : life[i] = "destroyed" => ~Contains(q, i)

(* The queue is not destroyed while a Detach() has still to release its    *)
(* lock ("use a separate lock to prevent premature deletion").             *)
QueueOutlivesDetach == worker = "dead" => \A t \in Threads : pc[t] # "exitPost"

(* No wake-up is lost: a queued item is taken by the worker, or removed.   *)
QueuedIsTaken == \A i \in Items : Contains(q, i) ~> ~Contains(q, i)

(* Deinit() returns, also when Run() calls it for its own item.            *)
DeinitReturns == \A t \in Threads : pc[t] = "remove" ~> pc[t] = "idle"

(* A queue that is asked to stop ends, also one that waits for work; items *)
(* that requeue themselves for ever are the exception.                     *)
StopEnds == []<>(q # <<>>) \/ (shouldExit ~> worker = "dead")
=============================================================================
