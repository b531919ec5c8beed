-------------------------- MODULE WorkQueue_proofs --------------------------
(***************************************************************************)
(* For every number of threads and items: the exit lock keeps the queue    *)
(* from being destroyed under a Detach(), and, when ScheduleNow() is not   *)
(* interrupted, a destroyed item is neither queued nor (unless it deleted  *)
(* itself) running.                                                        *)
(***************************************************************************)
EXTENDS WorkQueue, FiniteSetTheorems, TLAPS

(* A call that uses its item has one.                                      *)
CallsHaveItems ==
  \A t \in Threads : pc[t] \in OwnerStates \cup {"push"} => arg[t] \in Items

(* The exit lock is held by one Detach() of a queue that still exists, or  *)
(* by the destructor.                                                      *)
ExitLockHeld ==
  /\ worker = "dead" => exitLock = 0
  /\ \A t \in Threads : pc[t] = "exitPost" => exitLock = 0 /\ worker # "dead"
  /\ \A t, u \in Threads : pc[t] = "exitPost" /\ pc[u] = "exitPost" => t = u

LockInv == TypeOK /\ CallsHaveItems /\ ExitLockHeld

(* Threads that have seen the semaphore at zero and are about to post it.  *)
Posting == {t \in Threads : pc[t] = "semPost"}

(* A wake-up is counted already or about to be, at most one per thread.    *)
WakeupsFew == sem + Cardinality(Posting) <= Cardinality(Threads)

(* An item is constructed or destroyed by one thread, and exists then.     *)
OwnersExclude ==
  /\ \A t \in Threads : pc[t] \in OwnerStates => life[arg[t]] = "alive"
  /\ \A t, u \in Threads :
       pc[t] \in OwnerStates /\ pc[u] \in OwnerStates /\ arg[t] = arg[u] => t = u

(* An item that others may schedule exists and is not being destroyed.     *)
ReachableIsAlive ==
  \A i \in Items : hasQueue[i] =>
    /\ life[i] = "alive"
    /\ \A t \in Threads : ~(arg[t] = i /\ pc[t] \in OwnerStates)

(* Deinit() of item i has not reached Remove().                            *)
Leaving(i) == \E t \in Threads : pc[t] = "remove" /\ arg[t] = i

NoRepeats(s) == \A j, k \in 1..Len(s) : s[j] = s[k] => j = k

(* The queue holds an item once, and only until its Deinit() removes it.   *)
QueueOK ==
  /\ NoRepeats(q)
  /\ \A i \in Items : Contains(q, i) => hasQueue[i] \/ Leaving(i)

(* The running item is marked; another thread that destroys it waits.      *)
RunningIsKept ==
  worker = "run" =>
    /\ current \in Items /\ inProgress[current]
    /\ \/ hasQueue[current] \/ life[current] = "destroyed"
       \/ \E t \in Threads : pc[t] \in {"remove", "await"} /\ arg[t] = current
       \/ arg[Worker] = current /\ pc[Worker] \in {"detach", "exitPost", "free"}

(* Without threads inside ScheduleNow().                                   *)
NobodyPushes == \A t \in Threads : pc[t] # "push"

ItemInv ==
  /\ NobodyPushes /\ OwnersExclude /\ ReachableIsAlive /\ QueueOK /\ RunningIsKept
-----------------------------------------------------------------------------
(* push() adds at most the item it is given.                               *)
LEMMA PushedFacts ==
  ASSUME q \in Seq(Items), NEW i \in Items
  PROVE  /\ Pushed(i) \in Seq(Items)
         /\ NoRepeats(q) => NoRepeats(Pushed(i))
         /\ \A e : Contains(Pushed(i), e) => Contains(q, e) \/ e = i
<1>1. CASE Contains(q, i)
  BY <1>1 DEF Pushed
<1>2. CASE ~Contains(q, i)
  <2>1. Pushed(i) = Append(q, i)
    BY <1>2 DEF Pushed
  <2>2. /\ Append(q, i) \in Seq(Items) /\ Len(Append(q, i)) = Len(q) + 1
        /\ \A k \in 1..Len(q) : Append(q, i)[k] = q[k]
        /\ Append(q, i)[Len(q) + 1] = i
    OBVIOUS
  <2>3. NoRepeats(q) => NoRepeats(Append(q, i))
    BY <1>2, <2>2 DEF NoRepeats, Contains
  <2>4. \A e : Contains(Append(q, i), e) => Contains(q, e) \/ e = i
    BY <2>2 DEF Contains
  <2> QED
    BY <2>1, <2>2, <2>3, <2>4
<1> QED
  BY <1>1, <1>2

(* remove() takes out the item it is given and no other.                   *)
LEMMA DequeuedFacts ==
  ASSUME q \in Seq(Items), NEW i \in Items
  PROVE  /\ Dequeued(i) \in Seq(Items)
         /\ NoRepeats(q) => NoRepeats(Dequeued(i)) /\ ~Contains(Dequeued(i), i)
         /\ \A e : Contains(Dequeued(i), e) => Contains(q, e)
<1>1. CASE ~Contains(q, i)
  BY <1>1 DEF Dequeued
<1>2. CASE Contains(q, i)
  <2> DEFINE k == CHOOSE k \in 1..Len(q) : q[k] = i
             d == RemoveAt(q, k)
  <2>1. k \in 1..Len(q) /\ q[k] = i
    BY <1>2 DEF Contains
  <2>2. Dequeued(i) = d
    BY <1>2 DEF Dequeued
  <2> HIDE DEF k
  <2>3. /\ d \in Seq(Items) /\ Len(d) = Len(q) - 1
        /\ \A j \in 1..Len(d) : d[j] = IF j < k THEN q[j] ELSE q[j + 1]
    <3> DEFINE a == SubSeq(q, 1, k - 1)
               b == SubSeq(q, k + 1, Len(q))
    <3>1. /\ a \in Seq(Items) /\ Len(a) = k - 1
          /\ \A j \in 1..Len(a) : a[j] = q[j]
      BY <2>1
    <3>2. /\ b \in Seq(Items) /\ Len(b) = Len(q) - k
          /\ \A j \in 1..Len(b) : b[j] = q[k + j]
      BY <2>1
    <3>3. d = a \o b
      BY DEF RemoveAt
    <3> HIDE DEF a, b, d
    <3>4. d \in Seq(Items) /\ Len(d) = Len(a) + Len(b)
      BY <3>1, <3>2, <3>3
    <3>5. \A j \in 1..Len(d) :
            d[j] = IF j <= Len(a) THEN a[j] ELSE b[j - Len(a)]
      BY <3>1, <3>2, <3>3
    <3>6. Len(q) \in Nat /\ k \in Nat /\ Len(d) = Len(q) - 1
      BY <2>1, <3>1, <3>2, <3>4
    <3>7. ASSUME NEW j \in 1..Len(d), j < k PROVE d[j] = q[j]
      BY <3>1, <3>5, <3>6, <3>7
    <3>8. ASSUME NEW j \in 1..Len(d), ~(j < k) PROVE d[j] = q[j + 1]
      <4>1. d[j] = b[j - Len(a)]
        BY <3>1, <3>5, <3>6, <3>8
      <4>2. j - Len(a) \in 1..Len(b) /\ k + (j - Len(a)) = j + 1
        BY <2>1, <3>1, <3>2, <3>6, <3>8
      <4> QED
        BY <3>2, <4>1, <4>2
    <3> QED
      BY <3>4, <3>6, <3>7, <3>8
  <2> HIDE DEF d
  <2>4. NoRepeats(q) => NoRepeats(d)
    BY <2>1, <2>3 DEF NoRepeats
  <2>5. NoRepeats(q) => ~Contains(d, i)
    BY <2>1, <2>3 DEF NoRepeats, Contains
  <2>6. \A e : Contains(d, e) => Contains(q, e)
    BY <2>1, <2>3 DEF Contains
  <2> QED
    BY <2>2, <2>3, <2>4, <2>5, <2>6
<1> QED
  BY <1>1, <1>2

(* The worker takes the first item and leaves the others.                  *)
LEMMA TakenFacts ==
  ASSUME q \in Seq(Items), q # <<>>
  PROVE  /\ Head(q) \in Items /\ Contains(q, Head(q))
         /\ Tail(q) \in Seq(Items)
         /\ NoRepeats(q) => NoRepeats(Tail(q))
         /\ \A e : Contains(Tail(q), e) => Contains(q, e)
<1>1. /\ Head(q) \in Items /\ Len(q) > 0 /\ Head(q) = q[1]
      /\ Tail(q) \in Seq(Items) /\ Len(Tail(q)) = Len(q) - 1
      /\ \A j \in 1..Len(Tail(q)) : Tail(q)[j] = q[j + 1]
  OBVIOUS
<1> QED
  BY <1>1 DEF NoRepeats, Contains
-----------------------------------------------------------------------------
(* The lock invariant holds for the new queue.                             *)
LEMMA LockInit == Init => LockInv
<1> SUFFICES ASSUME Init PROVE LockInv
  OBVIOUS
<1>1. /\ q \in Seq(Items) /\ attached \subseteq Items
      /\ sem \in Nat /\ exitLock \in {0, 1}
  BY DEF Init
<1>2. shouldExit \in BOOLEAN /\ worker \in WorkerStates
      /\ current \in Items \cup {NoItem}
  BY DEF Init, WorkerStates
<1>3. /\ inProgress \in [Items -> BOOLEAN] /\ hasQueue \in [Items -> BOOLEAN]
      /\ life \in [Items -> {"unborn", "alive", "destroyed"}]
  BY DEF Init
<1>4. /\ pc \in [Threads -> CallStates] /\ arg \in [Threads -> Items \cup {NoItem}]
      /\ \A t \in Threads : pc[t] = "idle"
  BY DEF Init, CallStates
<1>5. CallsHaveItems /\ ExitLockHeld
  BY <1>4 DEF CallsHaveItems, ExitLockHeld, OwnerStates, Init
<1> QED
  BY <1>1, <1>2, <1>3, <1>4, <1>5 DEF LockInv, TypeOK

(* Every action keeps the types and the exit lock.                         *)
LEMMA LockStep == LockInv /\ [Next]_vars => LockInv'
<1> SUFFICES ASSUME LockInv, [Next]_vars PROVE LockInv'
  OBVIOUS
<1> USE DEF LockInv, TypeOK, CallsHaveItems, ExitLockHeld, CallStates, OwnerStates,
            WorkerStates, queueVars, itemVars, callVars, Goto
<1>1. ASSUME NEW t \in Threads, NEW i \in Items, Construct(t, i) PROVE LockInv'
  BY <1>1 DEF Construct, CanCall
<1>2. ASSUME NEW t \in Threads, NEW i \in Items, ScheduleNow(t, i) PROVE LockInv'
  BY <1>2, PushedFacts DEF ScheduleNow, Signalled, CanCall
<1>3. ASSUME NEW t \in Threads, NEW i \in Items, StartSchedule(t, i) PROVE LockInv'
  BY <1>3 DEF StartSchedule, CanCall
<1>4. ASSUME NEW t \in Threads, NEW i \in Items, ScheduleClear(t, i) PROVE LockInv'
  BY <1>4, DequeuedFacts DEF ScheduleClear, CanCall
<1>5. ASSUME NEW t \in Threads, NEW i \in Items, Destroy(t, i) PROVE LockInv'
  BY <1>5 DEF Destroy, CanCall
<1>6. ASSUME NEW t \in Threads, Attach(t) PROVE LockInv'
  BY <1>6 DEF Attach
<1>7. ASSUME NEW t \in Threads, Push(t) PROVE LockInv'
  BY <1>7, PushedFacts DEF Push
<1>8. ASSUME NEW t \in Threads, GetValue(t) PROVE LockInv'
  BY <1>8 DEF GetValue
<1>9. ASSUME NEW t \in Threads, SemPost(t) PROVE LockInv'
  BY <1>9 DEF SemPost
<1>10. ASSUME NEW t \in Threads, RemoveQueued(t) PROVE LockInv'
  BY <1>10, DequeuedFacts DEF RemoveQueued, AfterRemove
<1>11. ASSUME NEW t \in Threads, AwaitRun(t) PROVE LockInv'
  BY <1>11 DEF AwaitRun
<1>12. ASSUME NEW t \in Threads, Detach(t) PROVE LockInv'
  <2>1. CASE attached \ {arg[t]} # {}
    BY <1>12, <2>1 DEF Detach
  <2>2. CASE attached \ {arg[t]} = {}
    <3>1. /\ exitLock = 1 /\ exitLock' = 0 /\ shouldExit' = TRUE
          /\ pc' = [pc EXCEPT ![t] = "exitPost"] /\ attached' = {}
          /\ UNCHANGED <<q, worker, current, itemVars, arg>>
      BY <1>12, <2>2 DEF Detach
    <3>2. sem' \in Nat
      BY <1>12, <2>2 DEF Detach, Signalled
    <3>3. pc[t] = "detach" /\ worker # "dead"
      BY <1>12, <3>1 DEF Detach
    <3>4. \A u \in Threads : pc[u] # "exitPost"
      BY <3>1
    <3>5. ExitLockHeld'
      BY <3>1, <3>3, <3>4
    <3>6. CallsHaveItems'
      BY <3>1, <3>3
    <3>7. TypeOK'
      BY <3>1, <3>2
    <3> QED
      BY <3>5, <3>6, <3>7
  <2> QED
    BY <2>1, <2>2
<1>13. ASSUME NEW t \in Threads, ExitPost(t) PROVE LockInv'
  BY <1>13 DEF ExitPost
<1>14. ASSUME NEW t \in Threads, Free(t) PROVE LockInv'
  BY <1>14 DEF Free
<1>15. ASSUME NEW t \in Threads, request_stop(t) PROVE LockInv'
  BY <1>15 DEF request_stop, CanCall
<1>16. CASE WorkerCheck
  BY <1>16 DEF WorkerCheck
<1>17. CASE WorkerWait
  BY <1>17 DEF WorkerWait
<1>18. CASE WorkerProcess
  BY <1>18, TakenFacts DEF WorkerProcess, Marked
<1>19. CASE WorkerRan
  BY <1>19 DEF WorkerRan
<1>20. CASE WorkerLeave
  BY <1>20 DEF WorkerLeave
<1>21. CASE WorkerDestruct
  BY <1>21 DEF WorkerDestruct
<1>22. CASE UNCHANGED vars
  BY <1>22 DEF vars
<1> QED
  BY <1>1, <1>2, <1>3, <1>4, <1>5, <1>6, <1>7, <1>8, <1>9, <1>10, <1>11,
     <1>12, <1>13, <1>14, <1>15, <1>16, <1>17, <1>18, <1>19, <1>20, <1>21,
     <1>22
     DEF Next, WorkerNext, CallNext, StartNext

(* The lock invariant holds, with or without threads inside ScheduleNow(). *)
THEOREM LockInvariance == Spec => []LockInv
BY LockInit, LockStep, PTL DEF Spec

(* Every variable stays in its type, in particular _exit_lock is never     *)
(* released twice, with or without threads inside ScheduleNow().           *)
THEOREM QueueTypeCorrectness == Spec => []TypeOK
BY LockInvariance, PTL DEF LockInv

(* ~WorkQueue() does not return while a Detach() is about to post the exit *)
(* lock of the queue.                                                      *)
THEOREM QueueSurvivesDetach == Spec => []QueueOutlivesDetach
<1>1. LockInv => QueueOutlivesDetach
  BY DEF LockInv, ExitLockHeld, QueueOutlivesDetach
<1> QED
  BY <1>1, LockInvariance, PTL
-----------------------------------------------------------------------------
(* A thread that does not post leaves room for one wake-up.                *)
LEMMA PostingFacts ==
  /\ IsFiniteSet(Posting) /\ Cardinality(Posting) \in Nat
  /\ Cardinality(Threads) \in Nat
  /\ Cardinality(Posting) <= Cardinality(Threads)
  /\ \A t \in Threads : pc[t] # "semPost" => Cardinality(Posting) + 1 <= Cardinality(Threads)
<1>1. IsFiniteSet(Threads) /\ Cardinality(Threads) \in Nat
  BY WorkQueueConstants, FS_AddElement, FS_CardinalityType DEF Threads
<1>2. /\ IsFiniteSet(Posting) /\ Cardinality(Posting) \in Nat
      /\ Cardinality(Posting) <= Cardinality(Threads)
  BY <1>1, FS_Subset, FS_CardinalityType DEF Posting
<1>3. ASSUME NEW t \in Threads, pc[t] # "semPost"
      PROVE  Cardinality(Posting) + 1 <= Cardinality(Threads)
  <2>1. Posting \cup {t} \in SUBSET Threads /\ t \notin Posting
    BY <1>3 DEF Posting
  <2>2. Cardinality(Posting \cup {t}) <= Cardinality(Threads)
    BY <1>1, <2>1, FS_Subset
  <2>3. Cardinality(Posting \cup {t}) = Cardinality(Posting) + 1
    BY <1>2, <2>1, FS_AddElement
  <2> QED
    BY <2>2, <2>3
<1> QED
  BY <1>1, <1>2, <1>3

(* A step that makes nobody post and signals an empty semaphore at most.   *)
LEMMA SignalFits ==
  ASSUME TypeOK, WakeupsFew, Posting' = Posting, sem' = sem \/ sem' = Signalled,
         NEW t \in Threads, pc[t] # "semPost"
  PROVE  WakeupsFew'
  BY PostingFacts DEF TypeOK, WakeupsFew, Signalled

LEMMA WakeupStep ==
  ASSUME LockInv, WakeupsFew, [Next]_vars
  PROVE  WakeupsFew'
<1> USE DEF queueVars, itemVars, callVars, Goto
<1>1. TypeOK /\ sem \in Nat /\ pc \in [Threads -> CallStates]
  BY DEF LockInv, TypeOK
<1>2. ASSUME NEW t \in Threads, NEW s, pc[t] # "semPost", s # "semPost",
             pc' = [pc EXCEPT ![t] = s]
      PROVE  Posting' = Posting
  BY <1>1, <1>2 DEF Posting
<1>3. ASSUME UNCHANGED <<sem, pc>> PROVE WakeupsFew'
  BY <1>3 DEF WakeupsFew, Posting
<1>4. ASSUME NEW t \in Threads, StartNext(t) PROVE WakeupsFew'
  <2>1. pc[t] = "idle"
    BY <1>4 DEF StartNext, Construct, ScheduleNow, StartSchedule, ScheduleClear, Destroy,
                request_stop, CanCall
  <2>2. /\ sem' = sem \/ sem' = Signalled
        /\ pc' = pc \/ \E s \in CallStates \ {"semPost"} : pc' = [pc EXCEPT ![t] = s]
    BY <1>4 DEF StartNext, Construct, ScheduleNow, StartSchedule, ScheduleClear, Destroy,
                request_stop, CallStates
  <2>3. Posting' = Posting
    BY <1>2, <2>1, <2>2 DEF Posting
  <2> QED
    BY <1>1, <2>1, <2>2, <2>3, SignalFits
<1>5. ASSUME NEW t \in Threads, Detach(t) PROVE WakeupsFew'
  <2>1. pc[t] = "detach" /\ (sem' = sem \/ sem' = Signalled)
    BY <1>5 DEF Detach
  <2>2. \E s \in {"free", "exitPost"} : pc' = [pc EXCEPT ![t] = s]
    BY <1>5 DEF Detach
  <2>3. Posting' = Posting
    BY <1>2, <2>1, <2>2
  <2> QED
    BY <1>1, <2>1, <2>3, SignalFits
<1>6. ASSUME NEW t \in Threads, GetValue(t) PROVE WakeupsFew'
  <2>1. CASE sem <= 0
    <3>1. sem' = 0
      BY <1>1, <1>6, <2>1 DEF GetValue
    <3>2. (Cardinality(Posting) <= Cardinality(Threads))'
      <4>1. Posting' \in SUBSET Threads
        BY DEF Posting
      <4>2. IsFiniteSet(Threads)
        BY WorkQueueConstants, FS_AddElement DEF Threads
      <4> QED
        BY <4>1, <4>2, FS_Subset
    <3>3. Cardinality(Posting') \in Nat
      <4>1. Posting' \in SUBSET Threads
        BY DEF Posting
      <4>2. IsFiniteSet(Threads)
        BY WorkQueueConstants, FS_AddElement DEF Threads
      <4> QED
        BY <4>1, <4>2, FS_Subset, FS_CardinalityType
    <3> QED
      BY <3>1, <3>2, <3>3 DEF WakeupsFew
  <2>2. CASE ~(sem <= 0)
    <3>1. pc[t] = "getvalue" /\ pc' = [pc EXCEPT ![t] = "idle"] /\ sem' = sem
      BY <1>6, <2>2 DEF GetValue
    <3> QED
      BY <1>1, <1>2, <3>1, SignalFits
  <2> QED
    BY <2>1, <2>2
<1>7. ASSUME NEW t \in Threads, SemPost(t) PROVE WakeupsFew'
  <2>1. sem' = sem + 1 /\ t \in Posting
    BY <1>7 DEF SemPost, Posting
  <2>2. Posting' = Posting \ {t}
    BY <1>1, <1>7 DEF SemPost, Posting
  <2>3. Cardinality(Posting') = Cardinality(Posting) - 1
    BY <2>1, <2>2, PostingFacts, FS_RemoveElement
  <2> QED
    BY <1>1, <2>1, <2>3, PostingFacts DEF WakeupsFew
<1>8. ASSUME NEW t \in Threads,
             \/ Attach(t) \/ Push(t) \/ RemoveQueued(t) \/ AwaitRun(t) \/ ExitPost(t)
             \/ Free(t)
      PROVE  WakeupsFew'
  <2>1. pc[t] # "semPost" /\ sem' = sem
    BY <1>8 DEF Attach, Push, RemoveQueued, AwaitRun, ExitPost, Free
  <2>2. \E s \in CallStates \ {"semPost"} : pc' = [pc EXCEPT ![t] = s]
    BY <1>8 DEF Attach, Push, RemoveQueued, AwaitRun, ExitPost, Free, CallStates, AfterRemove
  <2>3. Posting' = Posting
    BY <1>2, <2>1, <2>2
  <2> QED
    BY <1>1, <2>1, <2>3, SignalFits
<1>9. CASE WorkerNext
  <2>1. pc' = pc /\ (sem' = sem \/ (sem' = sem - 1 /\ sem > 0))
    BY <1>9 DEF WorkerNext, WorkerCheck, WorkerWait, WorkerProcess, WorkerRan, WorkerLeave,
                WorkerDestruct
  <2>2. Posting' = Posting
    BY <2>1 DEF Posting
  <2> QED
    BY <1>1, <2>1, <2>2, PostingFacts DEF WakeupsFew
<1>10. CASE UNCHANGED vars
  BY <1>3, <1>10 DEF vars
<1> QED
  BY <1>4, <1>5, <1>6, <1>7, <1>8, <1>9, <1>10 DEF Next, CallNext

(* However many threads run SignalWorkerThread() between each other's      *)
(* check of the semaphore and post of it, with or without interrupts, the  *)
(* count never exceeds the number of threads.                              *)
THEOREM WakeupsAreBounded == Spec => []SemaphoreBounded
<1>1. Init => WakeupsFew
  <2> SUFFICES ASSUME Init PROVE WakeupsFew
    OBVIOUS
  <2>1. sem = 0
    BY DEF Init
  <2> QED
    BY <2>1, PostingFacts DEF WakeupsFew
<1>2. LockInv /\ WakeupsFew /\ [Next]_vars => WakeupsFew'
  BY WakeupStep
<1>3. LockInv /\ WakeupsFew => SemaphoreBounded
  BY PostingFacts DEF LockInv, TypeOK, WakeupsFew, SemaphoreBounded
<1> QED
  BY <1>1, <1>2, <1>3, LockInvariance, PTL DEF Spec
-----------------------------------------------------------------------------
(* The item invariant holds for the new queue.                             *)
LEMMA ItemInit == Init => ItemInv
<1> SUFFICES ASSUME Init PROVE ItemInv
  OBVIOUS
<1>1. q = <<>> /\ \A t \in Threads : pc[t] = "idle"
  BY DEF Init
<1>2. NoRepeats(q) /\ \A e : ~Contains(q, e)
  BY <1>1 DEF NoRepeats, Contains
<1>3. NobodyPushes /\ OwnersExclude
  BY <1>1 DEF NobodyPushes, OwnersExclude, OwnerStates
<1>4. ReachableIsAlive /\ RunningIsKept
  BY DEF Init, ReachableIsAlive, RunningIsKept
<1> QED
  BY <1>2, <1>3, <1>4 DEF ItemInv, QueueOK

(* Every action keeps the relation of queue, items and their owners.       *)
LEMMA ItemStep ==
  ASSUME AtomicSchedule, LockInv, ItemInv, [Next]_vars
  PROVE  ItemInv'
<1> USE DEF LockInv, TypeOK, CallsHaveItems, ItemInv, NobodyPushes, OwnersExclude,
            ReachableIsAlive, QueueOK, Leaving, RunningIsKept,
            CallStates, OwnerStates, queueVars, itemVars, callVars, Goto
<1>1. ASSUME NEW t \in Threads, NEW i \in Items, Construct(t, i) PROVE ItemInv'
  BY <1>1 DEF Construct, CanCall
<1>2. ASSUME NEW t \in Threads, NEW i \in Items, ScheduleNow(t, i) PROVE ItemInv'
  BY <1>2, PushedFacts DEF ScheduleNow, CanCall
<1>3. ASSUME NEW t \in Threads, NEW i \in Items, ScheduleClear(t, i) PROVE ItemInv'
  BY <1>3, DequeuedFacts DEF ScheduleClear, CanCall
<1>4. ASSUME NEW t \in Threads, NEW i \in Items, Destroy(t, i) PROVE ItemInv'
  BY <1>4 DEF Destroy, CanCall, Owned
<1>5. ASSUME NEW t \in Threads, Attach(t) PROVE ItemInv'
  BY <1>5 DEF Attach
<1>6. ASSUME NEW t \in Threads, GetValue(t) PROVE ItemInv'
  BY <1>6 DEF GetValue
<1>7. ASSUME NEW t \in Threads, SemPost(t) PROVE ItemInv'
  BY <1>7 DEF SemPost
<1>8. ASSUME NEW t \in Threads, RemoveQueued(t) PROVE ItemInv'
  BY <1>8, DequeuedFacts DEF RemoveQueued, AfterRemove
<1>9. ASSUME NEW t \in Threads, AwaitRun(t) PROVE ItemInv'
  BY <1>9 DEF AwaitRun
<1>10. ASSUME NEW t \in Threads, Detach(t) PROVE ItemInv'
  <2>1. /\ pc[t] = "detach"
        /\ UNCHANGED <<q, worker, current, inProgress, hasQueue, life, arg>>
    BY <1>10 DEF Detach
  <2>2. PICK s \in {"free", "exitPost"} : pc' = [pc EXCEPT ![t] = s]
    BY <1>10 DEF Detach
  <2>3. RunningIsKept'
    BY <2>1, <2>2
  <2>4. QueueOK'
    BY <2>1, <2>2
  <2>5. (NobodyPushes /\ OwnersExclude /\ ReachableIsAlive)'
    BY <2>1, <2>2
  <2> QED
    BY <2>3, <2>4, <2>5
<1>11. ASSUME NEW t \in Threads, ExitPost(t) PROVE ItemInv'
  BY <1>11 DEF ExitPost
<1>12. ASSUME NEW t \in Threads, Free(t) PROVE ItemInv'
  BY <1>12 DEF Free
<1>13. ASSUME NEW t \in Threads, request_stop(t) PROVE ItemInv'
  BY <1>13 DEF request_stop, CanCall
<1>14. CASE WorkerCheck
  BY <1>14 DEF WorkerCheck
<1>15. CASE WorkerWait
  BY <1>15 DEF WorkerWait
<1>16. CASE WorkerProcess
  <2>1. CASE q = <<>>
    BY <1>16, <2>1 DEF WorkerProcess
  <2>2. CASE q # <<>>
    <3>1. /\ current' = Head(q) /\ q' = Tail(q) /\ worker' = "run"
          /\ inProgress' = [inProgress EXCEPT ![Head(q)] = TRUE]
          /\ UNCHANGED <<hasQueue, life, pc, arg>>
      BY <1>16, <2>2 DEF WorkerProcess, Marked
    <3>2. /\ Head(q) \in Items /\ Contains(q, Head(q))
          /\ NoRepeats(Tail(q))
          /\ \A e : Contains(Tail(q), e) => Contains(q, e)
      BY <2>2, TakenFacts
    <3>3. RunningIsKept'
      <4>1. inProgress'[Head(q)] = TRUE
        BY <3>1, <3>2
      <4>2. hasQueue[Head(q)] \/ Leaving(Head(q))
        BY <3>2
      <4> QED
        BY <3>1, <3>2, <4>1, <4>2
    <3>4. QueueOK'
      BY <3>1, <3>2
    <3>5. (NobodyPushes /\ OwnersExclude /\ ReachableIsAlive)'
      BY <3>1
    <3> QED
      BY <3>3, <3>4, <3>5
  <2> QED
    BY <2>1, <2>2
<1>17. CASE WorkerRan
  BY <1>17 DEF WorkerRan
<1>18. CASE WorkerLeave
  BY <1>18 DEF WorkerLeave
<1>19. CASE WorkerDestruct
  BY <1>19 DEF WorkerDestruct
<1>20. CASE UNCHANGED vars
  BY <1>20 DEF vars
<1>21. ASSUME NEW t \in Threads, Push(t) PROVE FALSE
  BY <1>21 DEF Push
<1>22. ASSUME NEW t \in Threads, NEW i \in Items, StartSchedule(t, i) PROVE FALSE
  BY <1>22 DEF StartSchedule
<1> QED
  BY <1>1, <1>2, <1>3, <1>4, <1>5, <1>6, <1>7, <1>8, <1>9, <1>10, <1>11,
     <1>12, <1>13, <1>14, <1>15, <1>16, <1>17, <1>18, <1>19, <1>20, <1>21,
     <1>22
     DEF Next, WorkerNext, CallNext, StartNext

(* When ScheduleNow() is not interrupted, the invariant holds.             *)
THEOREM ItemInvariance == ASSUME AtomicSchedule PROVE Spec => []ItemInv
BY ItemInit, ItemStep, LockInvariance, PTL DEF Spec

(* When ScheduleNow() is not interrupted, Remove() in Deinit() is the last *)
(* the queue sees of an item: it never holds a destroyed one.              *)
THEOREM DestroyedLeavesQueue ==
  ASSUME AtomicSchedule PROVE Spec => []DestroyedIsNotQueued
<1>1. LockInv /\ ItemInv => DestroyedIsNotQueued
  BY DEF LockInv, TypeOK, CallsHaveItems, ItemInv, QueueOK, Leaving, OwnersExclude,
         ReachableIsAlive, OwnerStates, DestroyedIsNotQueued
<1> QED
  BY <1>1, LockInvariance, ItemInvariance, PTL

(* When ScheduleNow() is not interrupted, the memory of a running item is  *)
(* released only by its own Run(): Deinit() elsewhere waits.               *)
THEOREM DestroyWaits == ASSUME AtomicSchedule PROVE Spec => DestroyWaitsForRun
<1>1. ASSUME LockInv, ItemInv, [Next]_vars, NEW i \in Items, life'[i] # life[i],
             worker = "run", current = i
      PROVE  pc[Worker] = "free"
  <2> USE DEF LockInv, TypeOK, CallsHaveItems, ItemInv, OwnersExclude, ReachableIsAlive,
              RunningIsKept, OwnerStates, itemVars
  <2>1. \/ \E t \in Threads : Construct(t, i)
        \/ \E t \in Threads : Free(t) /\ arg[t] = i
    <3>1. \/ \E t \in Threads, e \in Items : Construct(t, e)
          \/ \E t \in Threads : Free(t)
          \/ life' = life
      BY <1>1 DEF Next, WorkerNext, CallNext, StartNext, ScheduleNow, StartSchedule,
         ScheduleClear, Destroy, Attach, Push, GetValue, SemPost, RemoveQueued,
         AwaitRun, Detach, ExitPost, request_stop, WorkerCheck, WorkerWait,
         WorkerProcess, WorkerRan, WorkerLeave, WorkerDestruct, vars
    <3> QED
      BY <1>1, <3>1 DEF Construct, Free
  <2>2. CASE \E t \in Threads : Construct(t, i)
    BY <1>1, <2>2 DEF Construct, Threads
  <2>3. CASE \E t \in Threads : Free(t) /\ arg[t] = i
    BY <1>1, <2>3 DEF Free, Threads
  <2> QED
    BY <2>1, <2>2, <2>3
<1>2. LockInv /\ ItemInv /\ [Next]_vars =>
        [\A i \in Items : life'[i] # life[i] /\ worker = "run" /\ current = i
                          => pc[Worker] = "free"]_vars
  BY <1>1
<1> QED
  BY <1>2, LockInvariance, ItemInvariance, PTL DEF Spec, DestroyWaitsForRun
=============================================================================
