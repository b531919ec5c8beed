----------------------------- MODULE MobHistory -----------------------------
(***************************************************************************)
(* PalletroneMob with a record of what interrupted its observers.          *)
(***************************************************************************)
EXTENDS PalletroneMob

VARIABLES
  idle,     \* age of the last cycle in which no observer advanced
  modelAge  \* age of the last change of mass or inertia

hvars == <<vars, idle, modelAge>>

HInit == Init /\ idle = 0 /\ modelAge = Forever

HRun(d, parIn, isArmed, thrustIn, servoIn, odomIn, overflow) ==
  /\ Run(d, parIn, isArmed, thrustIn, servoIn, odomIn, overflow)
  /\ idle' = IF active' THEN Older(idle, d) ELSE 0
  /\ modelAge' = IF par'.model # par.model THEN 0 ELSE Older(modelAge, d)

HNext ==
  \E d \in 1..MaxGap, parIn \in ParInputs \cup {NoMsg}, isArmed \in BOOLEAN,
     thrustIn \in ThrustInputs \cup {NoMsg}, servoIn \in ServoInputs \cup {NoMsg},
     odomIn \in OdomInputs \cup {NoMsg}, overflow \in OverflowInputs :
       HRun(d, parIn, isArmed, thrustIn, servoIn, odomIn, overflow)

HSpec == HInit /\ [][HNext]_hvars

(* No estimate is published as valid unless some observer advanced in      *)
(* every cycle of the last PMOB_WARMUP: whatever interrupted them, an      *)
(* input, arming, a sample time or a parameter, restarts the warm-up.      *)
ValidIsUnbroken == out.force \/ out.torque => idle >= Warmup

(* Nor within PMOB_WARMUP of a change of mass or inertia.                  *)
ValidFitsModel == out.force \/ out.torque => modelAge >= Warmup
=============================================================================
