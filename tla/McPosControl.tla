---------------------------- MODULE McPosControl ----------------------------
(***************************************************************************)
(* MulticopterPositionControl::Run(), the caller of the admittance         *)
(* manager: it assembles the upstream position and velocity setpoints,     *)
(* lets the manager replace them in place, and hands them to the position  *)
(* controller.  posOut is what setInputSetpoint() receives.  velOut is the *)
(* member custom_command_velocity, passed by reference: what the manager   *)
(* writes into it is still there in the next cycle.                        *)
(***************************************************************************)
EXTENDS Admittance

CONSTANT VelInputs     \* velocities the companion computer may command

ASSUME VelInputsAssumption == VelInputs \subseteq Int /\ NoMsg \notin VelInputs

VARIABLES
  armed,   \* _vehicle_control_mode.flag_armed
  armOnly, \* PADM_ARM_ONLY, as the last cycle read it
  ros      \* the velocity last received on custom_command_velocity_mode

pvars == <<vars, armed, armOnly, ros>>

PInit == Init /\ armed = FALSE /\ armOnly = TRUE /\ ros = 0

(* Mutant: the member is not zeroed while disarmed. *)
Feedforward_IgnoresArming(isArmed, velIn) ==
  IF velIn # NoMsg THEN velIn ELSE velOut

(* The velocity handed to the manager: a new message overwrites the member *)
(* and a disarmed vehicle zeroes it.                                       *)
Feedforward(isArmed, velIn) ==
  IF ~isArmed THEN 0 ELSE IF velIn # NoMsg THEN velIn ELSE velOut

(***************************************************************************)
(* A cycle with a new local position, d ticks after the last such cycle.   *)
(* Cycles without one return early and never call the manager: they only   *)
(* lengthen d.  update() loads the parameters in every call: arming is a   *)
(* gate only while PADM_ARM_ONLY (isArmOnly), which may change in flight,  *)
(* says so.                                                                *)
(***************************************************************************)
Run(d, isArmed, isArmOnly, velIn, cmdIn, mobIn, gates, traj, sp) ==
  /\ "arm" \in gates <=> ~isArmOnly \/ isArmed
  /\ armed' = isArmed /\ armOnly' = isArmOnly
  /\ ros' = IF velIn = NoMsg THEN ros ELSE velIn
  /\ Update(d, cmdIn, mobIn, gates, traj, sp, Feedforward(isArmed, velIn))

PNext ==
  \E d \in 1..MaxGap, isArmed \in BOOLEAN, isArmOnly \in BOOLEAN,
     velIn \in VelInputs \cup {NoMsg}, cmdIn \in Commands \cup {NoMsg},
     mobIn \in MobInputs \cup {NoMsg},
     gates \in GateInputs, traj \in TrajInputs, sp \in SpInputs :
       Run(d, isArmed, isArmOnly, velIn, cmdIn, mobIn, gates, traj, sp)

PSpec == PInit /\ [][PNext]_pvars
-----------------------------------------------------------------------------
(* With the motors disarmed no velocity reaches the position controller,   *)
(* except the one that decelerates an admittance motion that disarming     *)
(* interrupted, and that one ends within the handover time; and except on  *)
(* the bench, where PADM_ARM_ONLY = 0 lets a disarmed vehicle blend in and *)
(* drive.  A velocity of the bench session does not outlive that setting.  *)
DisarmedStandsStill ==
  ~armed /\ velOut # 0 =>
    \/ mgr.state = "HANDOVER_DECEL"
    \/ ~armOnly /\ mgr.state \in Driving

(* While upstream owns the setpoint, the velocity fed forward is the one   *)
(* the companion computer commanded last, or zero.                         *)
UpstreamVelocityRestored == ~mgr.hold => velOut \in {0, ros}
=============================================================================
