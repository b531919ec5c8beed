----------------------------- MODULE Admittance -----------------------------
(***************************************************************************)
(* AdmittanceManager: the 4-DoF admittance reference manager of the        *)
(* Palletrone, called once per position-control cycle between the assembly *)
(* of the upstream setpoint and the position controller.  It decides who   *)
(* owns the effective setpoint (upstream or admittance) and drives the     *)
(* request / validity / contact / blend / handover / fault state machine.  *)
(*                                                                         *)
(* Abstractions.  The four axes are one integer axis, aligned with the     *)
(* body; a setpoint is an integer or NaN (isAllFinite() = FALSE).  What    *)
(* the second-order core computes from the wrench is any velocity (in the  *)
(* handover: any velocity of no larger magnitude, its input is zero and    *)
(* its damping positive).  Time stamps are kept as ages in ticks, frozen   *)
(* at Forever, which is past every threshold.  Status flags are left out.  *)
(***************************************************************************)
EXTENDS Integers

CONSTANTS
  NaN,        \* a setpoint with a non-finite component
  NoMsg,      \* a subscription has no update
  SpInputs,   \* the upstream setpoints that may arrive
  Resets,     \* values of palletrone_admittance_command.reset_counter
  MobInputs,  \* the wrench estimates that may arrive
  GateInputs, \* the combinations of validity inputs that may occur
  CoreInputs, \* whether the core may accept or reject its parameters
  TrajInputs, \* values of the trajectory flag that may occur
  Forever,    \* an age past every threshold; also elapsed() = INFINITY
  MaxGap,     \* longest time between two calls of update()
  CmdTo,      \* PADM_CMD_TO
  MobTo,      \* PADM_MOB_TO
  InT,        \* PADM_IN_T
  NOnT,       \* PADM_N_ON_T
  NOffT,      \* PADM_N_OFF_T
  HoT,        \* PADM_HO_T
  HoV,        \* PADM_HO_V
  DtMax,      \* longest sample interval Admittance4D::update() accepts
  VMax,       \* PADM_x_VMAX
  PMax        \* PADM_x_PMAX

ASSUME ConstantsAssumption ==
  /\ {CmdTo, MobTo, InT, NOnT, NOffT, HoT, HoV, DtMax, VMax, PMax} \subseteq Nat
  /\ MaxGap \in Nat \ {0}
  /\ DtMax > 0   \* 50 ms, and the interval between two calls is at most 40 ms
  /\ Forever \in Nat
  /\ \A t \in {CmdTo, MobTo, InT, NOnT, NOffT, HoT, DtMax} : t < Forever
  /\ SpInputs \subseteq Int \cup {NaN}
  /\ 0 \in Resets
  /\ NaN \notin Int

VARIABLES
  mgr,        \* ownership state: see MgrType
  cmd,        \* _last_command
  cmdAge,     \* age of _last_command_rx (Forever: never received)
  lastReset,  \* _last_reset_counter
  resetSeen,  \* _reset_seen
  mob,        \* _mob
  mobAge,     \* age of _last_mob_rx
  sample,     \* age of _last_mob_sample (Unset: 0)
  ctc,        \* contact detector: see ContactType
  lastTraj,   \* _last_trajectory_flag
  posOut,     \* position_yaw_sp after the call
  velOut      \* velocity_yawrate_sp after the call

vars == <<mgr, cmd, cmdAge, lastReset, resetSeen, mob, mobAge, sample, ctc,
          lastTraj, posOut, velOut>>

States == {"DISABLED_HOLD", "WAIT_VALID", "WAIT_CONTACT", "BLEND_IN",
           "ACTIVE", "HANDOVER_DECEL", "FAULT_HOLD"}

Unset == -1     \* a time stamp that is 0 in the code
Ahead == -1     \* a time stamp taken after the cycle's own `now'

Ages == 0..Forever

(***************************************************************************)
(* The validity inputs of basic_valid that are neither the request nor the *)
(* wrench: PADM_EN, position mode, attitude, (!PADM_ARM_ONLY || armed) and *)
(* validateParams().                                                       *)
(***************************************************************************)
Gates == {"master", "position_mode", "attitude", "arm", "dynamics"}

Commands == [enable : BOOLEAN, reset : Resets]

(***************************************************************************)
(* A wrench estimate: ok is frame, warmup_complete, force_valid and finite *)
(* force together, yaw the validity of the yaw torque (or a disabled yaw   *)
(* axis), level the normal force against the two contact thresholds:       *)
(* 0 is at most N_OFF, 2 at least N_ON, 1 between.  stamp compares its     *)
(* timestamp_sample with the last one used.                                *)
(***************************************************************************)
MobMsgs == [ok : BOOLEAN, yaw : BOOLEAN, level : 0..2,
            stamp : {"same", "new", "back"}]

(* What the manager keeps of one; the time it used is sample.              *)
Wrench == [ok : BOOLEAN, yaw : BOOLEAN, level : 0..2]
WrenchOf(msg) == [ok |-> msg.ok, yaw |-> msg.yaw, level |-> msg.level]

MgrType == [state  : States,
            hold   : BOOLEAN,                   \* _hold_latched
            base   : Int,                       \* _base
            offset : -PMax .. PMax,             \* _offset
            vel    : -VMax .. VMax,             \* _effective_velocity, core dq
            since  : Ages \cup {Ahead}]         \* age of _state_since

ContactType == [on   : BOOLEAN,                 \* _contact
                cand : Ages \cup {Unset},       \* _contact_candidate_since
                off  : Ages \cup {Unset}]       \* _contact_off_since

(***************************************************************************)
(* Time and arithmetic.                                                    *)
(***************************************************************************)
Older(age, d) == IF age + d < Forever THEN age + d ELSE Forever
OlderIfSet(age, d) == IF age = Unset THEN Unset ELSE Older(age, d)

(* elapsed(): INFINITY for a time stamp that lies ahead of now.            *)
Elapsed(age) == IF age = Ahead THEN Forever ELSE age

(* A time stamp ahead of this cycle's now is d old in the next cycle.      *)
OlderSince(age, d) == IF age = Ahead THEN Older(0, d) ELSE Older(age, d)

Clamp(x, lim) == IF x > lim THEN lim ELSE IF x < -lim THEN -lim ELSE x
Abs(x) == IF x < 0 THEN -x ELSE x
-----------------------------------------------------------------------------
(***************************************************************************)
(* The manager's helpers, as functions of the ownership record.            *)
(***************************************************************************)
Finite(sp) == sp # NaN
BaseFrom(m, sp) == IF Finite(sp) THEN sp ELSE m.base

(* Mutant: the velocity survives the release. *)
releaseOwnership_KeepsVelocity(m) == [m EXCEPT !.offset = 0, !.hold = FALSE]

releaseOwnership(m) ==
  [m EXCEPT !.offset = 0, !.vel = 0, !.hold = FALSE]

(* Mutant: a reset forgets to give the setpoint back. *)
resetAt_KeepsHold(m, sp) ==
  [m EXCEPT !.base = BaseFrom(m, sp), !.offset = 0, !.vel = 0,
            !.state = "DISABLED_HOLD"]

resetAt(m, sp) ==
  [m EXCEPT !.base = BaseFrom(m, sp), !.offset = 0, !.vel = 0,
            !.hold = FALSE, !.state = "DISABLED_HOLD"]

severeFault(m, sp) ==
  [m EXCEPT !.base = BaseFrom(m, sp), !.offset = 0, !.vel = 0,
            !.hold = TRUE, !.state = "FAULT_HOLD"]

(* latchBase() stamps the state with a clock read after the cycle's now.   *)
latchBase(m, sp) ==
  [m EXCEPT !.base = sp, !.offset = 0, !.vel = 0, !.hold = TRUE,
            !.since = Ahead]

startHandover(m) == [m EXCEPT !.state = "HANDOVER_DECEL", !.since = 0]

atomicRebase(m) ==
  [releaseOwnership([m EXCEPT !.base = @ + m.offset])
     EXCEPT !.state = "DISABLED_HOLD"]

(* Mutant: the position limit is missing. *)
integrate_NoPositionLimit(m, dq, dt) ==
  [m EXCEPT !.offset = @ + Clamp(dq, VMax) * dt, !.vel = Clamp(dq, VMax)]

(* Mutant: the velocity limit is missing. *)
integrate_NoVelocityLimit(m, dq, dt) ==
  [m EXCEPT !.offset = Clamp(@ + dq * dt, PMax), !.vel = dq]

(* stepCore() and integrate(): the core yields velocity dq, the offset     *)
(* moves by it within PMax and outward velocity is dropped at the limit.   *)
integrate(m, dq, dt) ==
  LET v    == Clamp(dq, VMax)
      next == m.offset + v * dt
      c    == Clamp(next, PMax)
      outward == (c >= PMax /\ v > 0) \/ (c <= -PMax /\ v < 0)
  IN  [m EXCEPT !.offset = c, !.vel = IF c # next /\ outward THEN 0 ELSE v]

(* Mutant: an invalid wrench leaves the dwell timer running. *)
updateContact_DwellSurvives(c, valid, level) ==
  LET cand == IF c.cand = Unset THEN 0 ELSE c.cand
  IN  IF ~valid THEN [c EXCEPT !.on = FALSE]
      ELSE IF level < 2 THEN [c EXCEPT !.on = c.on /\ level > 0, !.cand = Unset]
      ELSE [c EXCEPT !.on = c.on \/ cand >= NOnT, !.cand = cand]

(* Mutant: a flicker above N_OFF does not restart the grace time. *)
updateContact_GraceAccumulates(c, valid, level) ==
  LET off == IF c.off = Unset THEN 0 ELSE c.off
  IN  IF ~valid THEN [c EXCEPT !.on = FALSE]
      ELSE IF ~c.on THEN [c EXCEPT !.on = level = 2]
      ELSE IF level > 0 THEN c
      ELSE [c EXCEPT !.on = off < NOffT, !.off = off]

updateContact(c, valid, level) ==
  LET candidate == IF c.on THEN level > 0 ELSE level = 2
      cand == IF c.cand = Unset THEN 0 ELSE c.cand
      off  == IF c.off = Unset THEN 0 ELSE c.off
  IN  CASE ~valid -> [c EXCEPT !.on = FALSE, !.cand = Unset]
        [] valid /\ candidate /\ c.on -> [c EXCEPT !.off = Unset]
        [] valid /\ candidate /\ ~c.on ->
             [on |-> cand >= NOnT, cand |-> cand, off |-> Unset]
        [] valid /\ ~candidate /\ c.on ->
             [on |-> off < NOffT, cand |-> Unset, off |-> off]
        [] valid /\ ~candidate /\ ~c.on -> [c EXCEPT !.cand = Unset]

applyEffectiveVel(m) ==
  IF m.state \in {"WAIT_CONTACT", "DISABLED_HOLD", "FAULT_HOLD"}
  THEN 0 ELSE m.vel
-----------------------------------------------------------------------------
(***************************************************************************)
(* The stages of update(), in the order of the code.                       *)
(***************************************************************************)
(* A changed reset counter is refused in ACTIVE and HANDOVER_DECEL.        *)
Reset(m, edge, sp) ==
  IF edge /\ m.state \notin {"ACTIVE", "HANDOVER_DECEL"}
  THEN resetAt(m, sp) ELSE m

(* The legacy release on a rising trajectory flag.                         *)
TrajectoryRelease(m, rising, request) ==
  IF m.hold /\ rising /\ m.state = "DISABLED_HOLD" /\ ~request
  THEN releaseOwnership(m) ELSE m

(* Mutant: validity is not watched while blending in. *)
Retract_NotInBlend(m, request, basic, contact) ==
  IF ~request /\ m.state \in {"WAIT_VALID", "WAIT_CONTACT"}
  THEN [releaseOwnership(m) EXCEPT !.state = "DISABLED_HOLD"]
  ELSE IF m.state = "ACTIVE" /\ (~basic \/ ~contact)
  THEN startHandover(m)
  ELSE m

(* Mutant: switching the request off also clears a fault. *)
Retract_ClearsFault(m, request, basic, contact) ==
  IF ~request /\ m.state \in {"WAIT_VALID", "WAIT_CONTACT", "FAULT_HOLD"}
  THEN [releaseOwnership(m) EXCEPT !.state = "DISABLED_HOLD"]
  ELSE IF m.state \in {"ACTIVE", "BLEND_IN"} /\ (~basic \/ ~contact)
  THEN startHandover(m)
  ELSE m

(* Mutant: a deceleration is begun anew as long as the request is off. *)
Retract_Restarts(m, request, basic, contact) ==
  IF ~request /\ m.state \in {"WAIT_VALID", "WAIT_CONTACT"}
  THEN [releaseOwnership(m) EXCEPT !.state = "DISABLED_HOLD"]
  ELSE IF m.state \in {"ACTIVE", "BLEND_IN", "HANDOVER_DECEL"} /\ (~basic \/ ~contact)
  THEN startHandover(m)
  ELSE m

(* Request off, or validity or contact lost.                               *)
Retract(m, request, basic, contact) ==
  IF ~request /\ m.state \in {"WAIT_VALID", "WAIT_CONTACT"}
  THEN [releaseOwnership(m) EXCEPT !.state = "DISABLED_HOLD"]
  ELSE IF m.state \in {"ACTIVE", "BLEND_IN"} /\ (~basic \/ ~contact)
  THEN startHandover(m)
  ELSE m

Entered(contact) == IF contact THEN "BLEND_IN" ELSE "WAIT_CONTACT"

Advance(m, request, basic, contact, sp) ==
  CASE m.state = "DISABLED_HOLD" /\ request /\ ~basic ->
         [m EXCEPT !.state = "WAIT_VALID"]
    [] m.state = "DISABLED_HOLD" /\ request /\ basic ->
         IF Finite(sp) THEN [latchBase(m, sp) EXCEPT !.state = Entered(contact)]
         ELSE severeFault(m, sp)
    [] m.state = "WAIT_VALID" /\ basic ->
         IF Finite(sp) THEN [latchBase(m, sp) EXCEPT !.state = Entered(contact),
                                                     !.since = 0]
         ELSE severeFault(m, sp)
    [] m.state = "WAIT_CONTACT" /\ ~basic ->
         [releaseOwnership(m) EXCEPT !.state = "WAIT_VALID"]
    [] m.state = "WAIT_CONTACT" /\ basic /\ contact ->
         [m EXCEPT !.state = "BLEND_IN", !.since = 0]
    [] OTHER -> m

(* Everything update() decides before it moves the setpoint.               *)
Decide(m, edge, rising, request, basic, contact, sp) ==
  LET m1 == Reset(m, edge, sp)
      m2 == TrajectoryRelease(m1, rising, request)
      m3 == Retract(m2, request, basic, contact)
  IN  Advance(m3, request, basic, contact, sp)

(* The admittance step, on an unused wrench sample only.                   *)
StepsOnSample(m, fresh) == m.state \in {"BLEND_IN", "ACTIVE"} /\ fresh

Blended(m) == InT = 0 \/ Elapsed(m.since) >= InT

MobStep(m, fresh, dt, coreOk, dq, sp) ==
  LET blend == [m EXCEPT !.state = IF Blended(m) THEN "ACTIVE" ELSE @]
  IN  IF ~StepsOnSample(m, fresh) THEN m
      ELSE IF ~coreOk \/ dt > DtMax THEN severeFault(blend, sp)
      ELSE integrate(blend, dq, dt)

(* Mutant: the handover has no timeout. *)
HandoverStep_NoTimeout(m, coreOk, dq, sp) ==
  LET next == integrate(m, dq, 1)
  IN  IF m.state # "HANDOVER_DECEL" THEN m
      ELSE IF ~coreOk THEN severeFault(m, sp)
      ELSE IF Abs(next.vel) < HoV THEN atomicRebase(next)
      ELSE next

(* The deceleration step; loop_dt is clamped by the caller to one tick.    *)
HandoverStep(m, coreOk, dq, sp) ==
  LET next == integrate(m, dq, 1)
  IN  IF m.state # "HANDOVER_DECEL" THEN m
      ELSE IF ~coreOk THEN severeFault(m, sp)
      ELSE IF Abs(next.vel) < HoV \/ Elapsed(m.since) > HoT
      THEN atomicRebase(next)
      ELSE next
-----------------------------------------------------------------------------
ASSUME InputsAssumption == /\ MobInputs \subseteq MobMsgs
                           /\ GateInputs \subseteq SUBSET Gates
                           /\ TrajInputs \subseteq BOOLEAN
                           /\ CoreInputs \subseteq BOOLEAN
                           /\ NoMsg \notin Commands \cup MobMsgs

(* What the core may return: whether it accepts its input, and a velocity. *)
CoreOutcomes(m, steps) ==
  CASE steps -> CoreInputs \X (-(VMax + 1) .. VMax + 1)
    [] m.state = "HANDOVER_DECEL" -> CoreInputs \X (-Abs(m.vel) .. Abs(m.vel))
    [] OTHER -> {<<TRUE, 0>>}

Init ==
  /\ mgr = [state |-> "DISABLED_HOLD", hold |-> FALSE, base |-> 0,
            offset |-> 0, vel |-> 0, since |-> Forever]
  /\ cmd = [enable |-> FALSE, reset |-> 0]
  /\ cmdAge = Forever
  /\ lastReset = 0
  /\ resetSeen = FALSE
  /\ mob = [ok |-> FALSE, yaw |-> FALSE, level |-> 0]
  /\ mobAge = Forever
  /\ sample = Unset
  /\ ctc = [on |-> FALSE, cand |-> Unset, off |-> Unset]
  /\ lastTraj = FALSE
  /\ posOut = 0
  /\ velOut = 0

(***************************************************************************)
(* One call of update(), d ticks after the previous one: cmdIn and mobIn   *)
(* are what the two subscriptions return, gates the validity inputs, traj  *)
(* the trajectory flag, sp and vel the upstream setpoints.                 *)
(***************************************************************************)
Update(d, cmdIn, mobIn, gates, traj, sp, vel) ==
  LET newCmd == cmdIn # NoMsg
      newMob == mobIn # NoMsg
      edge   == newCmd /\ resetSeen /\ cmdIn.reset # lastReset
      fresh  == newMob /\ mobIn.stamp # "same"
      dt     == IF sample = Unset THEN 1
                ELSE IF mobIn.stamp = "back" THEN Forever ELSE Older(sample, d)
      cmd1   == IF newCmd THEN cmdIn ELSE cmd
      mob1   == IF newMob THEN WrenchOf(mobIn) ELSE mob
      cmdAge1 == IF newCmd THEN 0 ELSE Older(cmdAge, d)
      mobAge1 == IF newMob THEN 0 ELSE Older(mobAge, d)
      request    == cmd1.enable /\ cmdAge1 <= CmdTo
      forceValid == mob1.ok /\ mobAge1 <= MobTo
      yawValid   == mob1.yaw /\ mobAge1 <= MobTo
      basic      == request /\ gates = Gates /\ forceValid /\ yawValid
      ctc1 == updateContact([ctc EXCEPT !.cand = OlderIfSet(@, d),
                                        !.off = OlderIfSet(@, d)],
                            forceValid, mob1.level)
      m0 == [mgr EXCEPT !.since = OlderSince(@, d)]
      m1 == Decide(m0, edge, traj /\ ~lastTraj, request, basic, ctc1.on, sp)
      steps == StepsOnSample(m1, fresh)
  IN  /\ cmd' = cmd1
      /\ cmdAge' = cmdAge1
      /\ lastReset' = IF newCmd THEN cmdIn.reset ELSE lastReset
      /\ resetSeen' = (resetSeen \/ newCmd)
      /\ mob' = mob1
      /\ mobAge' = mobAge1
      /\ ctc' = ctc1
      /\ lastTraj' = traj
      /\ \E core \in CoreOutcomes(m1, steps) :
           LET m2 == MobStep(m1, fresh, dt, core[1], core[2], sp)
           IN  mgr' = HandoverStep(m2, core[1], core[2], sp)
      /\ sample' = IF steps THEN (IF mobIn.stamp = "back" THEN Forever ELSE 0)
                   ELSE OlderIfSet(sample, d)
      /\ posOut' = IF mgr'.hold THEN mgr'.base + mgr'.offset ELSE sp
      /\ velOut' = IF mgr'.hold THEN applyEffectiveVel(mgr') ELSE vel

Next ==
  \E d \in 1..MaxGap, cmdIn \in Commands \cup {NoMsg},
     mobIn \in MobInputs \cup {NoMsg}, gates \in GateInputs,
     traj \in TrajInputs, sp \in SpInputs :
       Update(d, cmdIn, mobIn, gates, traj, sp, 0)

Spec == Init /\ [][Next]_vars
-----------------------------------------------------------------------------
(***************************************************************************)
(* Properties.                                                             *)
(***************************************************************************)
(* Every variable stays in its type; in particular the offset and the      *)
(* velocity stay within PADM_x_PMAX and PADM_x_VMAX.                       *)
TypeOK ==
  /\ mgr \in MgrType
  /\ cmd \in Commands /\ cmdAge \in Ages
  /\ lastReset \in Resets /\ resetSeen \in BOOLEAN
  /\ mob \in Wrench /\ mobAge \in Ages
  /\ sample \in Ages \cup {Unset}
  /\ ctc \in ContactType
  /\ lastTraj \in BOOLEAN
  /\ posOut \in Int \cup {NaN}
  /\ velOut \in Int

Owning  == {"WAIT_CONTACT", "BLEND_IN", "ACTIVE", "HANDOVER_DECEL", "FAULT_HOLD"}
Driving == {"BLEND_IN", "ACTIVE"}

(* _hold_latched is kept apart from _state and set and cleared by six      *)
(* helpers, yet the upstream setpoint is overwritten exactly in the states *)
(* that own it.                                                            *)
OwnershipMatchesState == mgr.hold <=> mgr.state \in Owning

(* Outside BLEND_IN, ACTIVE and HANDOVER_DECEL nothing is left of an       *)
(* earlier admittance motion, so no session starts from a stale offset or  *)
(* velocity.                                                               *)
QuietUnlessEngaged ==
  mgr.state \notin Driving \cup {"HANDOVER_DECEL"} => mgr.offset = 0 /\ mgr.vel = 0

(* After every call, a wrench drives the setpoint only under a fresh       *)
(* enable request, a fresh valid wrench with its yaw part and an           *)
(* established contact, whatever was lost since the session began.         *)
DrivingNeedsEvidence ==
  mgr.state \in Driving =>
    /\ cmd.enable /\ cmdAge <= CmdTo
    /\ mob.ok /\ mob.yaw /\ mobAge <= MobTo
    /\ ctc.on

(* A deceleration has ended at the first call later than PADM_HO_T after   *)
(* it began.                                                               *)
HandoverBounded == mgr.state = "HANDOVER_DECEL" => mgr.since <= HoT

(* A call during which the manager keeps ownership moves the effective     *)
(* position by at most one velocity-limited step, through contact loss,    *)
(* handover and mode changes, unless it is reset or faults.                *)
OwnedOutputContinuous ==
  [][ mgr.hold /\ mgr'.hold /\ mgr'.state # "FAULT_HOLD" /\ lastReset' = lastReset
      => Abs(posOut' - posOut) <= VMax * DtMax ]_vars

(* FAULT_HOLD keeps the latched pose until the operator changes the reset  *)
(* counter: no recovery of the inputs resumes motion.                      *)
FaultIsLatched ==
  [][ mgr.state = "FAULT_HOLD" /\ lastReset' = lastReset
      => mgr'.state = "FAULT_HOLD" /\ posOut' = mgr.base ]_vars

(* A call that finds the enable request off, or the link lost, leaves the  *)
(* manager without the setpoint, with a fault, or in a deceleration that   *)
(* is not begun anew.  With HandoverBounded, the setpoint is returned      *)
(* within PADM_HO_T of the loss of the request.                            *)
ReleasesOnTime ==
  [][ ~(cmd.enable /\ cmdAge <= CmdTo)' =>
        \/ ~mgr'.hold \/ mgr'.state = "FAULT_HOLD"
        \/ /\ mgr'.state = "HANDOVER_DECEL"
           /\ mgr.state = "HANDOVER_DECEL" => mgr'.since > mgr.since ]_vars
=============================================================================
