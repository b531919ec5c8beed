# Verification of HIH_PX4_6X

HIH_PX4_6X is a PX4 fork for the *Palletrone*, a multicopter with tilting
thrusters that presses against surfaces. This directory holds TLA+ modules of
the parts of it whose correctness depends on order, time and concurrency, the
TLC configurations that check them on small instances, and proofs checked by
TLAPS for every instance.

Paths below are relative to the repository. Source names are kept where TLA+
allows it; `PROJECT.json` maps every definition to its lines.

## 1. Inventory

### The chain of a contact flight

| Component | State it keeps | Operations | Interaction |
|---|---|---|---|
| Admittance reference manager (`mc_pos_control/palletrone_admittance/`) | ownership state, latched base pose, offset, velocity, contact detector, times of the last command, wrench and sample | `update()` once per position-control cycle | called by the position-control loop; reads the command topic and the wrench topic |
| Position-control loop (`mc_pos_control/MulticopterPositionControl.cpp`) | setpoint members, among them `custom_command_velocity` | `Run()` on every local position | passes its setpoints to the manager by reference and gives the result to the controller |
| Momentum observer (`palletrone_mob/`) | the last odometry, thrust and servo inputs with their ages, two observers, warm-up, activity flag | `Run()` at 100 Hz | subscribes to three asynchronous inputs, publishes the wrench with its validity |

### The platform under it

| Component | State it keeps | Operations | Interaction |
|---|---|---|---|
| uORB topic instance (`platforms/common/uORB/`) | ring buffer, generation counter, advertised flag, callbacks; per subscription a generation | advertise, publish, unadvertise, subscribe, update, copy, register and unregister a callback | publishers and subscribers on any thread; a publication calls `ScheduleNow()` of subscribers' work items |
| Work queue (`platforms/common/px4_work_queue/`) | queue of items, attached items, two semaphores, stop flag; per item the queue pointer and the run mark | construct, schedule, clear, destroy an item; stop the queue; the worker's loop | every module's `Run()` is called by a worker thread; modules delete themselves from there |

### What decides on the flight

| Component | State it keeps | Operations | Interaction |
|---|---|---|---|
| Failsafe framework (`commander/failsafe/`) | table of active actions, selected action, take-over, delays, deferral | `update()` once per commander cycle, `deferFailsafes()`, `updateParams()` | the commander passes the arming state, the intended mode and the flags of every condition, and takes the action and the mode back |
| MAVLink mission protocol (`mavlink/mavlink_mission.cpp`) | per link: transfer state, count and storage; shared by all links: the active mission and the transfer flag | one handler per MISSION message, the time-out in `send()`, `check_active_mission()` | one receiver thread per link, the storages and the state record in dataman, the `mission` topic read by the navigator |
| Dataman (`dataman/`, `lib/dataman_client/`) | the stored records, the count of identifiers; per client its identifier, the call it waits for, the record read last | the task's loop; construct, `readSync()`, `writeSync()`, `clearSync()`, the asynchronous calls, `update()`, `abortCurrentOperation()` | clients on many threads, one task, two topics of one message each; carries the missions, geofences and rally points |

### Not modelled yet, or not at all

The work-queue manager, scheduled (timer) work items, module life cycle,
hysteresis, the land detector and the cache in front of dataman are discrete
and are planned (section 3). Rate control with its disturbance observer, EKF2, control
allocation and the control law of the position controller are numerical: their
correctness is about real numbers and stability, which a model checker does
not reach. The navigator and the rest of the commander depend on geometry and
dozens of health checks. Logger and drivers are I/O.

### What is hard here

* **Asynchronous inputs with time-outs.** The manager and the observer combine
  inputs that arrive, stop and recover independently. What was valid when a
  session began need not be valid now, and a stored input looks the same
  whether it is fresh or not.
* **State kept in two places.** `_state` and `_hold_latched` are written by six
  helpers; `custom_command_velocity` is both an input and an output of the
  manager; force and torque observer share one reset and one warm-up.
* **Zero as "unset", and times ahead of now.** Dwell and grace timers, sample
  times and `elapsed()` treat them specially.
* **Threads.** A work item is destroyed by one thread while another schedules
  it and a third runs it; the queue itself goes away with its last item.
* **Wrapping counters.** The uORB generation takes 49 days at 1 kHz to wrap,
  so no test gets there.
* **More failures than room.** The failsafe table is bounded, its entries are
  replaced, latched, deferred and cleared by different rules, and the action
  is selected after all that, for a mode that the same update may change.
* **Requests without a number.** Dataman's clients tell answers apart by
  client, kind and record only. A call that was repeated, given up or aborted
  leaves requests under way, and the topics between client and task lose
  whatever is overwritten before it is read.
* **An unreliable partner and a power switch.** Messages of a mission transfer
  are lost and repeated, either side may give up, links share static members,
  and the power may fail between memory, storage and topic.

`PROJECT.json` lists the hazards with their lines. Real but smaller ones that
no property covers: a time stamp ahead of the cycle's `now` in the manager
(`AdmittanceManager.hpp:157`), a rejected thrust sample that is stored anyway
(`PalletroneMob.cpp:298`), `copy()` between allocation and first write
(`uORBDeviceNode.hpp:241`), the worker's store into an item that its `Run()`
deleted (`WorkQueue.cpp:213`), and a download that mixes two missions
(`mavlink_mission.cpp:926`).

### What makes each component correct

* Manager: it owns the setpoint exactly in the states that say so; a wrench
  moves the vehicle only under current evidence; what it owns moves
  continuously; a fault stays; a request that goes away ends the session.
* Loop: a disarmed vehicle gets no velocity, unless the bench setting of
  PADM_ARM_ONLY asks for one, and upstream gets its velocity back.
* Observer: no estimate is called valid on stale inputs, after an
  interruption, or for another mass.
* uORB: a subscriber sees messages in order, without repetition, and misses
  only overwritten ones; a callback is not starved.
* Work queue: no wake-up is lost, a destroyed item is neither queued nor
  running, the queue is not destroyed under a caller, destruction returns.
* Failsafe: no failure is overlooked for long, a latched action stays until
  the user has acted, delays and deferrals end, and the vehicle is not left in
  a mode that cannot run.
* Mission protocol: the mission that is flown, the one that a restart loads
  and the one that is announced are intact and the same; an upload that ends
  with "accepted" is that mission, also after a power failure; the shared flag
  has an owner.
* Dataman: no two clients share an identifier or an answer; what a successful
  call reports happened during the call; a call ends.

## 2. Modules

| Module | Models | Kind |
|---|---|---|
| `Admittance` | `AdmittanceManager::update()` and `Admittance4D` | component |
| `McPosControl` | the part of `MulticopterPositionControl::Run()` around it | composition, extends `Admittance` |
| `ContactHistory` | how long every call has seen a pressing, or a released, wrench | history variables, extends `McPosControl` |
| `PalletroneMob` | `PalletroneMob::Run()` | component |
| `MobHistory` | how long nothing has interrupted the observers | history variables |
| `UorbNode` | one topic instance | component |
| `TopicLog` | what a topic promises | abstract specification |
| `UorbHistory` | the numbers behind the wrapping counters, and the refinement of `TopicLog` | history variables and refinement mapping |
| `WorkQueue` | one work queue, its worker and its items | component |
| `Failsafe` | `FailsafeBase::update()` and the mode fallback of `Failsafe` | component |
| `MissionTransfer` | `MavlinkMissionManager` on several links | component |
| `Dataman` | the dataman task and `DatamanClient` | component |
| `MC*` | instances for TLC | |
| `*_proofs` | theorems | |

### Admittance, McPosControl and ContactHistory

One action, `Update`, is one call of `update()`; its parameters are what the
call finds: the time since the last one, a command, a wrench, the validity
inputs, the trajectory flag, the upstream setpoint. The stages of the function
are operators on the ownership record `mgr`, in the order of the code: reset,
trajectory release, loss of request or validity (`Retract`), the way up
(`Advance`), one step of the core on a new sample (`MobStep`), the handover
(`HandoverStep`). Helpers have the code's names (`latchBase`, `resetAt`,
`severeFault`, `atomicRebase`, `releaseOwnership`, `updateContact`).

Abstractions: four axes are one integer axis, rotation is left out, NaN is a
model value; what the second-order core computes is any velocity, clamped as
the code clamps it. Time stamps are ages, frozen at `Forever`, past every
threshold, where the code can no longer tell them apart. `Ahead` is the time
stamp `latchBase()` takes after the cycle has read its own `now`, for which
`elapsed()` is infinite.

`McPosControl` adds arming and the companion computer's velocity, which share
a member of the class with the manager's output. PADM_ARM_ONLY is read in every
call and may have either value. With 0, the bench setting of
`ACTIVATION_AND_OWNERSHIP_CHANGE.md:195-209`, the manager takes a disarmed
vehicle through `BLEND_IN` to `ACTIVE` and gives it the admittance velocity;
`DisarmedStandsStill` excepts exactly these calls. Cycles without a new local
position return before the manager is called, so they only lengthen the time
between two calls. `ContactHistory` records, beside the detector's two time
stamps, since when every call has seen a valid wrench above N_ON, or below
N_OFF.

### PalletroneMob and MobHistory

One action, `Run`, is one cycle. Vectors are reduced to their validity, an
observer to what its momentum estimate was initialised from. The interval of
an odometry sample is good, a gap or backwards. `overflow` names the observers
whose arithmetic leaves the finite numbers in this cycle, for which
`MomentumObserver` returns without a step. `MobHistory` adds the age of
the last cycle in which no observer advanced and of the last change of mass
or inertia.

### UorbNode, UorbHistory and TopicLog

A message is the number of its publication. What the code does between
`ATOMIC_ENTER` and `ATOMIC_LEAVE` is one action; the checks before it are
another (`Publish`, `StartUpdate`, `StartCopy`), so that publishers can
allocate the buffer at the same time and messages can be overwritten between
a reader's check and its copy. Explicit `unadvertise()` is part of
`DestroyPublication`, because owners call it in their destructors. The
generation is a counter modulo `Modulus`; the queue length is a variable that
takes one of `QueueSizes` and never changes. A callback has interval 0, as
`SubscriptionCallbackWorkItem` sets it. Left out: `poll()`, the interval
gate, `ChangeInstance()`, the remote link.

`TopicLog` knows neither a ring nor a wrapping counter: messages are numbered,
every reader has a cursor, and reading returns the next message or the oldest
one kept. `UorbHistory` keeps that cursor as a history variable (`seen`) and
states that the node implements the log (`ImplementsLog`).

### WorkQueue

A section under `work_lock()` is one action; a thread's place between two
sections is its `pc`. The worker is a caller too while it executes `Run()`.
`AtomicSchedule` says how `ScheduleNow()` is called: in one piece, as from a
uORB callback or a timer on NuttX with interrupts off, or by a thread that can
be preempted between the check of `_wq`, the push and the two halves of
`SignalWorkerThread()`. `MayStop` lets `WorkQueueManagerStop()` ask the queue
to stop while items are attached. In `Detach()` the stop request signals and
then `SignalWorkerThread()` signals again; the second adds a wake-up only for
a worker that is already on its way out, and is left out. Left out too:
`ChangeWorkQueue()`, `Clear()`, which nothing calls, and lockstep.

### Failsafe

One `update()` is a sequence of steps: `Begin` (what arming, a mode change and
the passing of time clear), one `CheckFails`, `CheckClears` or `CheckSkips` per
condition in the order of the code, and `Finish` (mode fallback, removal of
entries nobody asked for, selection). `next` is the place in that sequence;
`deferFailsafes()` and `updateParams()` come between updates. An entry is what
`ActionOptions` holds. Which conditions fail is free, and so is which modes can
run; what a condition passes when it fails is the constant `Options`. The code
recognises a caller by an id; so does the model. Left out: the branch of the
mode fallback for the loss of Offboard, and the notification of the user.

The Palletrone has eight entries for about 25 callers. The table prefers the
more severe action and knows nothing else, which has consequences the model
shows and the properties have to respect: a failure that does not fit is
without an entry for one update, because stale entries are removed after the
checks (`MissedOnce` says that it is not missed again); a mode fallback, which
cannot be deferred, can be pushed out by a more severe entry that can
(`NavStateRuns` speaks of updates in which it has its entry).

### MissionTransfer

A mission stands for its content and is what each of its items carries; it has
`Length` items. The CRC covers the items received, so it tells a mission and a
number of its items apart (`SameCrc`). A handler runs at once up to a
blocking call of dataman: `update_active_mission()` is `StartUpdate` (statics,
under the mutex), `WriteState` (the record) and `Publish` (the topic, and what
the caller does after the return). `send()` and the handlers of a link share
one thread, so a link's time-out never hits in the middle of its own handler.
Lost messages are handlers that do not run. A MISSION_COUNT that comes again
before the first item (`handle_mission_count_again`) may announce another
mission, shorter or longer, while the count of the first is kept, as in lines
1076-1078. Repeated messages that the code answers without changing a member
are left out, and with them what the answers say: `UploadIsKept` speaks of the
step after which ACCEPTED is sent for an upload that ran to its last item.
`Reboot` is a power failure at any point, after which the first instance reads
the record.

`Faults` names what the code does not survive. With the empty set, the run
`mission` has losses, repetitions, aborts, changed announcements, two links and
power failures, and everything holds. What each fault breaks; "fails" is a
counterexample of `mission` with that fault in `Faults`, "holds" the same run
without one:

| Fault | Meaning | `ActiveIntact` | `CopiesAgree` | `UploadIsKept` | `TransferOwned` |
|---|---|---|---|---|---|
| `silent_download` | a download times out | fails | holds | fails | fails |
| `overlap` | a command on one link during the update of another | fails | fails | fails | proved |
| `count_race` | two links look at `_transfer_in_progress` (975) before either sets it (980) | fails | holds | fails | fails |
| `write_fails` | the record cannot be written | fails | fails | fails | proved |
| `read_fails` | the record cannot be read after a start (95-97); memory starts from defaults | fails | fails | fails | proved |

`overlap` is the widest of these: no guard of `update_active_mission()` keeps
two links apart (`Alone` in `StartUpdate` is the assumption that their
operators do not act within one update of each other), and the hazards at its
lines name it in their notes.

Left out: geofence and rally points, which use the same protocol with other
storages; several partners on one link; `resetMission()` of the navigator;
progress messages.

### Dataman

The two topics are variables that hold the last message and, per reader, whether
it was copied: publishing overwrites. The task is two steps, `Take` (copy the
request) and `Serve` (execute and answer), with every failure of a storage
operation, an interrupted write (`Torn`) and a clear that stops half-way. A
synchronous call is `CallSync` (drain old answers, send), then `Receive`,
`Repeat` or `GiveUp`; `Update` is the asynchronous side. A client object belongs
to one thread, but a synchronous call may be made while an asynchronous one is
under way, and both read the same subscription. Time is left out: a wait that
finds no answer may repeat or give up.

Messages carry no number in the code. The model adds, as history, which call a
message was sent for (`op`), what the store has held since a call began
(`since`) and which clients have requests under way that nobody waits for
(`tangled`); no guard reads them.

Left out: start and stop of the task, lengths and indexes out of range,
`DatamanCache`. Two clients are assumed not to take the same time stamp in one
microsecond. `Accepts` asks a DM_GET_ID answer to be one, where
`DatamanClient.cpp:130-131` compares only the first bytes of the data with the
time stamp: a stored record that begins with the very time stamp of a client
under construction is ruled out. And a record handed to an asynchronous write is left alone until
the call is over.

## 3. Plan

Done: the components above, their runs, the theorems of section 6.

Next, in this order:

1. `ScheduledWorkItem`: the timer trampoline of `ScheduleDelayed()` and
   `ScheduleOnInterval()` against `hrt_cancel()` in the destructor, composed
   with `WorkQueue`.
2. `ModuleBase`: start, stop and `exit_and_cleanup()` under the modules mutex,
   with the item that deletes itself; `WorkQueueManager`: finding, creating
   and stopping queues, where a pointer outlives the list's lock.
3. `ContactFlight`: observer and manager composed through a `UorbNode`, with
   the wrench's validity as the manager sees it one message late.
4. `DatamanCache` in front of a client, and the client's failures in place of
   `write_fails` of `MissionTransfer`.
5. `Hysteresis` and `LandDetector`: the order of the four landing states.
6. Proofs: with the components above, their invariants. Of the present ones
   every safety property of a passing run is a theorem (section 6).

## 4. Runs

| Run | Instance | Shows |
|---|---|---|
| `admittance` | `MCAdmittance.cfg` | the five invariants; the effective position is continuous while owned; a fault stays; without a request the setpoint is given back in time |
| `pos_control` | `MCMcPosControl.cfg` | no velocity while disarmed, but in a bench test with PADM_ARM_ONLY off; contact is earned and given up by the recorded wrench only |
| `mob_inputs` | `MCMob.cfg` | validity rests on live inputs, on an uninterrupted warm-up and on the model in force |
| `uorb_queue` | `MCUorb.cfg` | a queue of one and a ring of four implement the log across wraps, with two publishers allocating; `update()` returns only new messages; callbacks are not starved |
| `work_queue` | `WorkQueue.cfg` | life times of items and queue; no lost wake-up; `Deinit()` returns |
| `wq_stop` | `WorkQueueStop.cfg` | a stop request ends the queue; concurrent signals do not pile up |
| `failsafe` | `MCFailsafe.cfg` | no failure is missed twice, latched actions stay, the delayed Hold and the deferral end, the vehicle is in a mode that can run |
| `mission` | `MCMission.cfg` | two links under losses, repetitions and power failures: the mission is intact and the same everywhere, an upload that ends with ACCEPTED is what a power failure leaves |
| `dataman` | `MCDataman.cfg` | identifiers and answers are not shared, a success is about something that happened during the call, an asynchronous call ends, with lost, repeated and aborted requests |
| `reentry_fault` | `MCReentry.cfg` | *violation*: the second session of a nominal flight faults |
| `stale_velocity` | `MCStaleVelocity.cfg` | *violation*: the admittance velocity survives the release |
| `mission_shared` | `MCMissionShared.cfg` | *violation*: a download that times out lets a second upload overwrite the active mission |

The type invariants of the observer, the work queue, the failsafe framework and
the mission protocol are theorems (section 6) and not repeated in the runs.

### Bounds, and why they are enough

* Admittance: thresholds of one tick and `Forever` one above them give every
  comparison both outcomes and the boundary itself; two setpoints nine apart,
  so that a setpoint that leaks through while the manager owns the output is
  seen as a jump; NaN; both values of the reset counter; each way a wrench can
  be invalid, repeated or out of order. The loss of another validity input is
  exercised in `pos_control`. The trajectory flag stays off in the runs: its
  release asks for `DISABLED_HOLD` with the setpoint still owned, which
  `OwnershipMatchesState`, proved with the flag free, excludes.
* `pos_control`: dwell and grace are two ticks, so that a flicker in the
  middle is distinguishable from one at the start; all three force levels.
  Cycles are one tick apart; the theorems are for any distance. Arming is
  free in every call, and so is PADM_ARM_ONLY while disarmed, where it matters. The view leaves out what no guard and
  no property reads: ages past their time-out, the last velocity command, the
  position handed on.
* Observer: a warm-up of two ticks against time-outs of one; one sample for
  each thing that can be wrong with it. Messages are missing in
  any combination, but at most one of a parameter change, a change of the
  arming state, a bad thrust, a bad odometry sample and an overflow falls into
  one cycle (`MCNext`), to keep the number of inputs small; the view leaves out
  which of two models is in force, as only a change counts, and by how much an
  age is past the limit it is compared with.
* uORB: the counter wraps after 8 generations, twice a queue of 4 and eight
  times a queue of 1, and ten publications pass the wrap. `Wraps` in `MCUorb`
  asserts this. Two publishers, for the races on the buffer and the
  flag; one reader, because readers share nothing but the node. A reader falls
  at most `Modulus - 2` messages behind (`NobodyWraps`): further behind, the
  code cannot tell it from a newer one; for the real counter that is 49 days
  of sleep at 1 kHz. Publications are bounded, so the instance may stop and
  deadlock is not checked.
* Work queue: two threads and the worker, three items: one can run while the
  second is queued and the third is destroyed. Every item is constructed once,
  so the system ends and deadlock is not checked. `wq_stop` has one thread
  besides the worker and the finer `ScheduleNow()`.
* Failsafe: two entries for three callers and the mode fallback, so that the
  table overflows; the callers stand for the kinds of options the code passes
  (latched and deferrable, with a delay; latched, not deferrable; cleared with
  its condition). One period is as long as the time-out of the
  deferral, so that this runs out exactly at, and one update after, its limit;
  the delay is zero or half a period, so that it is full, half recovered or
  used up when the next failure starts. Ages are told apart up to two periods.
  Either every mode can run or only three manual ones, so that a fallback runs
  to the end of its chain.
* Mission: two links, which is what a shared flag needs, and three missions:
  of two items, so that there is a first and a last, of one, and of three, one
  more than the storage holds. The third is refused when it is announced first
  and truncated when it replaces another; the second, in place of the first,
  never completes. Links are interchangeable (`Symmetry`). The view hides the target and
  the count of a link that is idle, which it assigns before it reads them.
* Dataman: two clients, which is what answers can be confused between, with the
  calls that the mission manager (synchronous write and clear) and a part of
  the navigator (synchronous read, asynchronous read and write) make; one
  record, because answers about different records are told apart; two
  identifiers, so that repetitions use them up; four calls, two of which
  construct the clients, so that a client can be left with a request under way
  and ask again. Calls are bounded, so the instance may stop and deadlock is
  not checked.

### Fairness

* Dataman: weak fairness of the task's two steps, which loops without
  waiting for anyone; of `GiveUp`, because every synchronous wait has a
  deadline; and of `Update` with the interval elapsed, because the owner of an
  asynchronous call polls it in its cycle. Nothing is assumed about new calls.
* Work queue: weak fairness of the worker and of every call in progress:
  threads of the queue are `SCHED_FIFO` and each is eventually scheduled.
  Strong fairness of `WorkerRan`: `Run()` returns, whatever calls it makes on
  the way. Nothing is assumed about new calls. `StopEnds` excepts queues that
  are never empty: an item that requeues itself keeps the worker in its inner
  loop, which does not look at the stop flag.

The other properties are safety and need none.

## 5. Findings

Each of the three violations is a disagreement between the code and a
statement in the repository; `PROJECT.json` quotes it.

* **`reentry_fault`**: `_last_mob_sample` survives a session. The first step of
  the next one sees the whole pause as its sample interval, which exceeds what
  `Admittance4D` accepts, and the manager faults.
* **`stale_velocity`**: `applyEffective()` writes into
  `custom_command_velocity`. After the release that member still holds the
  admittance velocity and is fed forward until a message or disarming
  replaces it.
* **`mission_shared`**: the time-out in `send()` clears the static
  `_transfer_in_progress`, also when what timed out is a download, which does
  not own it. While link 1 uploads, a silent download on link 2 times out,
  link 2 may start an upload into the same inactive storage, and the one that
  finishes later overwrites the mission the other has activated.

Two more that the models show, for which no run is kept; each is seen by
changing one constant of a run:

* `ScheduleNow()` reads `_wq` without the lock (`WorkItem.hpp:69`). A thread
  preempted there pushes the item after `Deinit()` has removed it, though
  `WorkItem.cpp:92` clears `_wq` to "prevent additional insertions":
  `DestroyedIsNotQueued` fails in `work_queue` with `AtomicSchedule = FALSE`.
* With `NAV_RCL_ACT = 7` ("Hold without failsafe"), a vehicle in POSCTL that
  has neither manual control nor a position stays in POSCTL with no action:
  `checkModeFallback()` replaces the action of the fallback by none and then
  checks the mode it fell back to (`failsafe.cpp:799`), where the comment says
  "check can_run for intended mode". `NavStateRuns` fails in `failsafe` with
  `RclAction = 0`; the theorem assumes more than a warning.

Other behaviour met while modelling, present in the models, for which no run
is kept:

* `DatamanClient.cpp:266` drains the responses "so a response from an aborted
  or timed-out operation cannot be matched to the next request". An answer that
  is still under way at that moment can: `AnswerIsOwn` needs its exception for
  `tangled` clients. For a write it means that the success of an earlier write
  of the same record is taken for the one of this call, whose request may be
  overwritten on the topic and never executed. `SuccessIsCurrent` is what
  remains true.
* Each repetition of DM_GET_ID uses up one of 254 identifiers; when they are
  gone, a client takes another one's refusal for its own.
* With two clients that both wait asynchronously, `AsyncCompletes` fails under
  weak fairness: their repetitions can overwrite each other in step for ever.
* `_file_clear()` reports success when it meets a record it cannot read
  (`dataman.cpp:523`), with the records after it left as they were.
* A MISSION_COUNT that replaces another before the first item keeps the first
  one's count (`mavlink_mission.cpp:1076-1078`). A longer mission is then
  accepted with its tail cut off, also one that line 987 would have refused
  for its length.
* An item that arrives when the link is idle again, with the number before
  `_transfer_seq`, is answered ACCEPTED (`mavlink_mission.cpp:1162-1166`,
  "Assume this is a duplicate, where we already successfully got all mission
  items"). After an upload that was aborted or timed out, it is not such a
  duplicate. The answer changes no state and is not in the model.
* `latchBase()` stamps the state ahead of `now`, so a request made under
  contact reaches `ACTIVE` in the same call, without the blend of `PADM_IN_T`.
* The end of a handover and a severe fault go to the upstream setpoint;
  `IMPLEMENTATION_REPORT.md` describes them as keeping the effective pose.
* A cycle of the observer that finds no new odometry clears
  `_active_last_cycle`, so the warm-up restarts although nothing timed out.
* `resetObservers()` seeds the force observer with zero momentum when only the
  torque input is valid, and the estimate can later be published as valid.
* `unadvertise()` hides a topic from its subscribers while another publisher
  of the instance still publishes.
* With `set_required_updates(n)`, the first `call()` on a new topic does not
  schedule, contrary to the comment in `SubscriptionCallback.hpp`.
* An entry of the failsafe table keeps the take-over rule it was inserted with
  when `COM_FAIL_ACT_T` changes.
* `framework.cpp:127` means to execute a delayed action "even with a toggling
  state"; a condition that is on for single updates never gets there, because
  the start delay recovers in between.
* A `Run()` that deletes its own object returns to a worker that clears
  `_run_in_progress` in it.

## 6. Proofs

| Module | Theorems |
|---|---|
| `Admittance_proofs` | `TypeCorrectness`, `OwnershipCorrectness`, `QuietCorrectness`, `EvidenceCorrectness`, `HandoverCorrectness`, `ContinuityCorrectness`, `FaultCorrectness`, `ReleaseCorrectness` |
| `ContactHistory_proofs` | `LoopInvariance`, `DisarmedCorrectness`, `EarnedCorrectness`, `GraceCorrectness` |
| `MobHistory_proofs` | `MobTypeCorrectness`, `MobLiveInputs`, `MobUnbroken`, `MobFitsModel` |
| `UorbHistory_proofs` | `UorbTypeCorrectness`, `RingImplementsLog`, `UpdateReturnsNew`, `CallbackIsScheduled` |
| `WorkQueue_proofs` | `QueueTypeCorrectness`, `QueueSurvivesDetach`, `DestroyedLeavesQueue`, `DestroyWaits`, `WakeupsAreBounded` |
| `Failsafe_proofs` | `FailsafeTypeCorrectness`, `FailsafeOneEntry`, `FailsafeLatchedStays`, `FailsafeDeferralEnds`, `FailsafeNavStateRuns`, `FailsafeHoldDelay`, `FailsafeMissedOnce` |
| `MissionTransfer_proofs` | `MissionTypeCorrectness`, `MissionTransferOwned`, `MissionActiveIntact`, `MissionCopiesAgree`, `MissionUploadIsKept` |
| `Dataman_proofs` | `DatamanTypeCorrectness`, `DatamanIdsUnique`, `DatamanAnswerIsOwn`, `DatamanSuccessIsCurrent` |

They hold for every value of the time-outs, limits, input sets, threads and
items that satisfies the `ASSUME` of the component: thresholds are naturals
below `Forever`, model values are distinct from data, there are finitely many
threads, COM_FAIL_ACT_T and the time between two updates of the failsafe
framework have a greatest value, and the length of a topic's queue divides the
number of generations.

**Admittance.** The conjunction of the five invariants is inductive. `update()`
runs in stages, so the proof does too: `Good(m)` says of the ownership record
that it has its type, that flag and state agree and that nothing is left of
an earlier motion outside a session; each stage has a lemma that it keeps
`Good` and says which states it can end in. The evidence follows because only
`Decide` enters `BLEND_IN` or `ACTIVE` and it does so with the request, the
wrench and the contact of this very call. The same lemma shows that a step is a
chain of these stages with known inputs (`StagedCall`), from which the three
action properties follow. `ContinuityCorrectness` needs in addition that an
owned output is base plus offset (`Written`), that nothing on the way from one
owning state to another touches the base, and that one integration moves the
offset by at most `VMax * DtMax`, also when the position limit cuts it off.
`ReleaseCorrectness` uses `HandoverBounded`: an age that is at most `PADM_HO_T`
still grows. `DtMax > 0` is assumed: it is 50 ms, a cycle at most 40 ms.

**Position-control loop.** With PADM_ARM_ONLY, a disarmed call finds the "arm"
gate closed, so it cannot end in `BLEND_IN` or `ACTIVE`; without, these two
states are the exception that the property names. By the manager's invariant every other
owning state but the handover is at rest, and what upstream gets instead is
zeroed. `DisarmedStandsStill` is therefore inductive only together with that
invariant, which the loop preserves although it feeds the manager its own
output (`PInv`). For the contact, `HInv` relates each of the detector's timers
to the history, in the phase in which it counts only: while contact is off, a
running dwell timer is no older than the run of pressing calls (`DwellIsReal`);
while it is on, a running grace timer is no older than the run of released
calls (`GraceIsReal`). In the other phase the timers are stale:
`updateContact()` keeps the dwell timer during contact, and the grace timer
when the wrench turns invalid; each is cleared on the way to where it would
count.

**Observer.** `ValidIsUnbroken` speaks about the present cycle, its reason lies
in earlier ones: as long as an observer advances, the age of the warm-up is at
most the age of the last interruption and of the last change of the model
(`WarmupCovers`). With `ValidIsWarm`, that a valid estimate is published only
by a cycle that advanced after the warm-up, this is inductive.

**uORB.** For any publishers, readers and queue lengths and any width of the
counter. `Numbers`: the generation is the number of publications modulo the
width, and message `m` is in slot `(m - 1) % queue` as long as it is one of the
last `queue`. `Cursor`: a subscription's generation is the number of the last
message it saw, wrapped, and less than a wrap behind. From these, lemmas about
remainders show that `is_in_range()` and the unsigned differences of the code
decide what the log decides on plain numbers, and that the slot `copy()` reads
holds the message of that number (`CopyReads`); this is where the queue length
must divide the width, or slots would jump at the wrap. `RingImplementsLog` is
then the step simulation: `Write` is the log's publication; `Subscribe`, `Copy`
and `DestroySubscription` are its reader's steps; all else stutters.
`UpdateReturnsNew` needs that a call past its checks still has a message it has
not seen when it copies, which later publications cannot take away.
`CallbackIsScheduled` has its own invariant: the count gate has counted every
publication that did not schedule, but the first after a registration. All
three theorems about `HSpec` inherit its bound: no reader falls a whole wrap
behind.

**Work queue.** Three invariants. `LockInv`: `_exit_lock` is 0 while a `Detach()`
is about to post it, at most one is, and the destructor that takes it last
leaves it at 0; it holds for both kinds of `ScheduleNow()` and gives
`QueueSurvivesDetach`. `ItemInv` needs `AtomicSchedule` (it fails without,
section 5): an item is owned by at most one thread that constructs
or destroys it and exists then; an item others can schedule is not owned; the
queue has no repetitions and holds an item only while it can be scheduled or
its `Deinit()` has yet to call `Remove()`; and the running item is marked and,
if another thread destroys it, that thread has not passed the wait. Absence
of repetitions is needed because `remove()` takes out one occurrence.
`WakeupsAreBounded` counts: the semaphore and the threads that have seen it at
zero and are about to post are together no more than the threads
(`WakeupsFew`), since a thread only joins them while it is zero.

**Failsafe.** For any table size, callers and options. `TableInv`: ids are
unique; an activated entry belongs to a caller that this update has already
checked (`Passed`), which is why a condition that clears cannot remove an
entry its own failure has just activated; entries of the mode fallback cannot
be deferred (`FallbackStays`). `FailsafeLatchedStays` follows step by step; it
needs that the slot chosen in a full table is less severe, hence that a
maximum of a bounded set exists (`MaxFacts`, from the well-foundedness of `<`).
`FailsafeDeferralEnds` adds that a deferral that is still on during an update
has not timed out (`DeferralInTime`). For `FailsafeNavStateRuns` the five ways
out of `getSelectedAction()` are separated first (`SelectionWays`): each either
terminates, chooses a mode that can run, or keeps the mode, and then the mode
fallback has found nothing, since otherwise its entry would be among the
active ones, could not be deferred and would ask for more than a warning. It
assumes `RclAction > Warn`; section 5 says what happens without.
`FailsafeHoldDelay` bounds the sum of what was held and what is left of the
delay (`HoldInv`): a new failure starts its delay from what earlier ones left,
and the delay began one update before the first that is held.
`FailsafeMissedOnce` looks at a full table during an update (`MissedInv`): an
entry is activated by this update or less severe than every failure missed
before, so such a failure either takes the place of one that is not activated,
or all entries stand for failures at least as severe and stay to the end.

**Mission.** For any links, missions, lengths and greatest count. `OwnInv` ties
the shared flag to the one link that receives, and a link that clears the
mission to its update; it needs only the absence of `silent_download` and
`count_race`. The other theorems assume that none of the five faults happens
(`Benign`). `StoreInv` adds to the property that updates follow each other,
memory first, then dataman, then the topic (`Serial`), that an upload has
stored the items before its sequence number in a storage that no record of a
non-empty mission names (`UploadOK`), and that the record an upload is about to
write is the one of its transfer (`UpdateOK`). The second is what makes the
storage it activates intact and keeps it from touching the other; a changed
announcement does not break it, because it comes before the first item.
`MissionUploadIsKept` first finds the only two steps that end an upload with
its last item (`FinishingSteps`): `Publish` after the update, where `Serial`
and `UpdateOK` give the agreement of memory, dataman and topic, and the last
item of a mission that is active already, where nothing is written and
`CopiesAgree` has to carry it.

**Dataman.** For any clients, records, identifiers and calls. `IdInv`: an
identifier on its way in an answer is below the counter and held by no one but
the client the answer is for, which rests on the time stamp a DM_GET_ID answer
repeats. `LabelInv`: any other message bears the identifier of the client it is
from; with unique identifiers, an answer that matches is the client's own.
`FlightInv`: a client that is not tangled has no message under way that was
sent for a call other than the ones it waits for; it excepts DM_GET_ID, where
refusals are confused (section 5). `FreshInv`: an unread answer that a call in
progress would take was given since the call began, which holds after the
drain because nothing unread is left, and from then on because the task
records what it does for every call that its answer could end.

### Only model-checked

* Liveness (`QueuedIsTaken`, `DeinitReturns`, `StopEnds`, `AsyncCompletes`):
  fairness and ENABLED are out of the prover's reach.
* The three violations of section 5, which are counterexamples.
