---------------------------- MODULE PalletroneMob ----------------------------
(***************************************************************************)
(* PalletroneMob::Run(): the 100 Hz cycle of the momentum observer.  It    *)
(* collects its asynchronous inputs, decides whether the force and the     *)
(* torque observer may advance, re-initialises them, and publishes when    *)
(* their estimates may be used.                                            *)
(*                                                                         *)
(* Abstractions.  Vectors are reduced to their validity; an observer to    *)
(* what its momentum estimate was initialised from; the sample interval of *)
(* an odometry message to "ok" (0.5 .. 50 ms), "gap" (longer or shorter)   *)
(* or "back" (not increasing).  Times are ages in ticks, frozen at         *)
(* Forever.                                                                *)
(***************************************************************************)
EXTENDS Integers

CONSTANTS
  NoMsg,       \* a subscription has no update
  Forever,     \* an age past every threshold
  MaxGap,      \* longest time between two cycles
  OdomTo,      \* PMOB_ODOM_TO
  ActTo,       \* PMOB_ACT_TO
  ServoTo,     \* PMOB_SERVO_TO
  Warmup,      \* PMOB_WARMUP
  ArmOnly,     \* PMOB_ARM_ONLY
  OdomInputs,  \* odometry messages that may arrive
  ParInputs,   \* parameter sets that may be configured
  ThrustInputs,
  ServoInputs,
  OverflowInputs   \* sets of observers whose arithmetic may overflow at once

VARIABLES
  par,       \* parameters after the last updateParams()
  armed,     \* _armed
  thrust,    \* _motor_thrust_n
  servo,     \* _servo_angle_rad
  odom,      \* _odometry
  actAge,    \* age of _actuator_received
  servoAge,  \* age of _servo_received
  odomAge,   \* age of _odometry_received
  seen,      \* _last_timestamp_sample # 0
  force,     \* _force_observer
  torque,    \* _torque_observer
  active,    \* _active_last_cycle
  warm,      \* age of _warmup_started
  out        \* the status published last

vars == <<par, armed, thrust, servo, odom, actAge, servoAge, odomAge, seen,
          force, torque, active, warm, out>>

Unset == -1     \* a time stamp that is 0 in the code
Ages  == 0..Forever

(* model stands for mass and inertia, "bad" for what modelParametersValid  *)
(* rejects; the other fields are the gain and bias checks.                 *)
Params == [enabled : BOOLEAN, model : {"a", "b", "bad"},
           forceGains : BOOLEAN, torqueGains : BOOLEAN, bias : BOOLEAN]

Thrusts == {"good", "negative", "nonfinite"}
Servos  == {"good", "nonfinite"}

(* Validity of attitude, velocity and angular velocity.                    *)
Odometry == [att : BOOLEAN, vel : BOOLEAN, ang : BOOLEAN]
OdomMsgs == [att : BOOLEAN, vel : BOOLEAN, ang : BOOLEAN,
             stamp : {"ok", "gap", "back"}, reset : BOOLEAN]
OdometryOf(msg) == [att |-> msg.att, vel |-> msg.vel, ang |-> msg.ang]

(* What p_hat was initialised from: nothing, the measured momentum, the    *)
(* zero vector that stands in for an invalid velocity, or a NaN.           *)
Observers == {"none", "measured", "zero", "nan"}

ASSUME MobConstants ==
  /\ {OdomTo, ActTo, ServoTo, Warmup, Forever} \subseteq Nat
  /\ \A t \in {OdomTo, ActTo, ServoTo, Warmup} : t < Forever
  /\ MaxGap \in Nat \ {0}
  /\ ArmOnly \in BOOLEAN
  /\ OdomInputs \subseteq OdomMsgs
  /\ ParInputs \subseteq Params
  /\ ThrustInputs \subseteq Thrusts
  /\ ServoInputs \subseteq Servos
  /\ OverflowInputs \subseteq SUBSET {"force", "torque"}
  /\ NoMsg \notin OdomMsgs \cup Params \cup Thrusts \cup Servos

Older(age, d) == IF age + d < Forever THEN age + d ELSE Forever

(* The age of a reception time after a cycle.                              *)
Received(age, d, accepted) == IF accepted THEN 0 ELSE Older(age, d)
-----------------------------------------------------------------------------
(* A thrust sample is stored even when it is rejected; only an accepted    *)
(* one refreshes the reception time.                                       *)
Accepted(msg) == msg = "good"

ActuatorsFinite(th, sv) == th # "nonfinite" /\ sv # "nonfinite"

(* Mutant: the servo timeout is not checked. *)
CommonValid_NoServoTimeout(p, isArmed, o, oAge, aAge, sAge) ==
  /\ p.enabled /\ p.model # "bad" /\ p.bias
  /\ oAge <= OdomTo /\ o.att
  /\ aAge <= ActTo
  /\ ArmOnly => isArmed

CommonValid(p, isArmed, o, oAge, aAge, sAge) ==
  /\ p.enabled /\ p.model # "bad" /\ p.bias
  /\ oAge <= OdomTo /\ o.att
  /\ aAge <= ActTo
  /\ sAge <= ServoTo
  /\ ArmOnly => isArmed

(* resetObservers() seeds both observers with what is measured now.        *)
ForceSeed(o)  == IF o.att /\ o.vel THEN "measured" ELSE "zero"
TorqueSeed(o) == IF o.ang THEN "measured" ELSE "nan"

(* MomentumObserver::update() refuses an observer that is not initialised, *)
(* or whose state, inputs or results are not finite, and leaves it as it   *)
(* is.                                                                     *)
Advances(seed, inputValid, finite) ==
  inputValid /\ finite /\ seed \in {"measured", "zero"}

(* Mutant: a changed mass or inertia does not interrupt the observers. *)
StaysActive_IgnoresModel(p) ==
  active /\ ~(~p.enabled /\ (force # "none" \/ torque # "none"))

(* _active_last_cycle after the parameters were read: a changed mass or    *)
(* inertia and disabling initialised observers clear it.                   *)
StaysActive(p) ==
  /\ active
  /\ p.model = par.model
  /\ ~(~p.enabled /\ (force # "none" \/ torque # "none"))

(* Mutant: an interrupted observer resumes without a reset. *)
Restart_NotOnResume(trouble, new, some, finiteAng, advance, keep) ==
  trouble /\ new /\ some /\ finiteAng

(* Whether resetObservers() is called: by the branch that handles trouble, *)
(* or by the one that advances, when the last cycle did not advance.       *)
Restart(trouble, new, some, finiteAng, advance, keep) ==
  \/ trouble /\ new /\ some /\ finiteAng
  \/ advance /\ ~(keep /\ ~trouble)

Init ==
  /\ par \in ParInputs
  /\ armed = FALSE
  /\ thrust = "good" /\ servo = "good"
  /\ odom = [att |-> FALSE, vel |-> FALSE, ang |-> TRUE]
  /\ actAge = Forever /\ servoAge = Forever /\ odomAge = Forever
  /\ seen = FALSE
  /\ force = "none" /\ torque = "none"
  /\ active = FALSE
  /\ warm = Unset
  /\ out = [force |-> FALSE, torque |-> FALSE, warmup |-> FALSE]

(***************************************************************************)
(* One cycle, d ticks after the previous one.  parIn, thrustIn, servoIn    *)
(* and odomIn are what the subscriptions return, isArmed the arming state  *)
(* after vehicle_status, overflow the observers whose next state would not *)
(* be finite.                                                              *)
(***************************************************************************)
Run(d, parIn, isArmed, thrustIn, servoIn, odomIn, overflow) ==
  LET p  == IF parIn = NoMsg THEN par ELSE parIn
      th == IF thrustIn = NoMsg THEN thrust ELSE thrustIn
      sv == IF servoIn = NoMsg THEN servo ELSE servoIn
      new == odomIn # NoMsg
      o  == IF new THEN OdometryOf(odomIn) ELSE odom
      oAge == Received(odomAge, d, new)
      aAge == Received(actAge, d, Accepted(thrustIn))
      sAge == Received(servoAge, d, Accepted(servoIn))
      f0 == IF p.enabled THEN force ELSE "none"
      t0 == IF p.enabled THEN torque ELSE "none"
      keep == StaysActive(p)
      common == CommonValid(p, isArmed, o, oAge, aAge, sAge)
      forceIn  == common /\ p.forceGains /\ o.vel
      torqueIn == common /\ p.torqueGains /\ o.ang
      some     == forceIn \/ torqueIn
      dtValid  == new /\ seen /\ odomIn.stamp = "ok"
      upset    == new /\ seen /\ (odomIn.reset \/ odomIn.stamp = "back")
      trouble  == ~some \/ upset \/ ~dtValid
      advance  == dtValid /\ some
      restart  == Restart(trouble, new, some, o.ang, advance, keep)
      f1 == IF restart THEN ForceSeed(o) ELSE f0
      t1 == IF restart THEN TorqueSeed(o) ELSE t0
      finite  == ActuatorsFinite(th, sv) /\ o.ang
      forceUp == advance /\ Advances(f1, forceIn, finite /\ "force" \notin overflow)
      torqueUp == advance /\ Advances(t1, torqueIn, finite /\ "torque" \notin overflow)
      warm1 == IF restart THEN 0 ELSE IF warm = Unset THEN Unset ELSE Older(warm, d)
      complete == warm1 # Unset /\ warm1 >= Warmup
  IN  /\ par' = p /\ armed' = isArmed
      /\ thrust' = th /\ servo' = sv /\ odom' = o
      /\ odomAge' = oAge /\ actAge' = aAge /\ servoAge' = sAge
      /\ seen' = (seen \/ new)
      /\ force' = f1 /\ torque' = t1
      /\ active' = IF advance THEN forceUp \/ torqueUp ELSE keep /\ ~trouble
      /\ warm' = warm1
      /\ out' = [force |-> forceUp /\ complete, torque |-> torqueUp /\ complete,
                 warmup |-> complete]

Next ==
  \E d \in 1..MaxGap, parIn \in ParInputs \cup {NoMsg}, isArmed \in BOOLEAN,
     thrustIn \in ThrustInputs \cup {NoMsg}, servoIn \in ServoInputs \cup {NoMsg},
     odomIn \in OdomInputs \cup {NoMsg}, overflow \in OverflowInputs :
       Run(d, parIn, isArmed, thrustIn, servoIn, odomIn, overflow)

Spec == Init /\ [][Next]_vars
-----------------------------------------------------------------------------
(* Every variable stays in its type.                                       *)
TypeOK ==
  /\ par \in Params /\ armed \in BOOLEAN
  /\ thrust \in Thrusts /\ servo \in Servos /\ odom \in Odometry
  /\ {actAge, servoAge, odomAge} \subseteq Ages
  /\ seen \in BOOLEAN
  /\ force \in Observers /\ torque \in Observers
  /\ active \in BOOLEAN
  /\ warm \in Ages \cup {Unset}
  /\ out \in [force : BOOLEAN, torque : BOOLEAN, warmup : BOOLEAN]

(* A published estimate is usable only while every input it rests on is    *)
(* fresh, the observer is enabled with a valid model and, if so            *)
(* configured, the vehicle is armed.                                       *)
ValidNeedsLiveInputs ==
  out.force \/ out.torque =>
    /\ odomAge <= OdomTo /\ actAge <= ActTo /\ servoAge <= ServoTo
    /\ par.enabled /\ par.model # "bad"
    /\ ArmOnly => armed
=============================================================================
