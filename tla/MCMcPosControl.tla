--------------------------- MODULE MCMcPosControl ---------------------------
(***************************************************************************)
(* Instance of McPosControl and ContactHistory for TLC.                    *)
(***************************************************************************)
EXTENDS ContactHistory

(* Every level of a valid wrench, and an invalid one.                      *)
MCMob == {[ok |-> ok, yaw |-> TRUE, level |-> l, stamp |-> "new"] :
             ok \in {TRUE}, l \in 0..2}
         \cup {[ok |-> FALSE, yaw |-> TRUE, level |-> 2, stamp |-> "new"]}

(* For the run that shows a counterexample.                                *)
MCPressOrRelease == {m \in MCMob : m.ok /\ m.level # 1}

MCGates == {Gates, Gates \ {"arm"}}

(* Two states are explored as one when they differ only in what no guard   *)
(* and no property of the run reads: the age of a message that has timed   *)
(* out or is too old for a step, the last velocity command, the position   *)
(* handed on, and PADM_ARM_ONLY while the vehicle is armed.                *)
Past(age, limit) == IF age > limit THEN Forever ELSE age

MCView == <<mgr, cmd, Past(cmdAge, CmdTo), lastReset, resetSeen, mob,
            Past(mobAge, MobTo), Past(sample, DtMax - 1), ctc, lastTraj, velOut,
            armed, armed \/ armOnly, pressed, released>>

(* PADM_ARM_ONLY makes a difference only to a disarmed vehicle.            *)
MCNext ==
  \E isArmed \in BOOLEAN, isArmOnly \in BOOLEAN, velIn \in VelInputs \cup {NoMsg},
     cmdIn \in Commands \cup {NoMsg}, mobIn \in MobInputs \cup {NoMsg},
     gates \in GateInputs, traj \in TrajInputs, sp \in SpInputs :
       /\ isArmed => isArmOnly
       /\ HRun(1, isArmed, isArmOnly, velIn, cmdIn, mobIn, gates, traj, sp)

MCSpec == HInit /\ [][MCNext]_hvars
=============================================================================
