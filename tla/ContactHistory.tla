--------------------------- MODULE ContactHistory ---------------------------
(***************************************************************************)
(* McPosControl with the history of the wrench that the contact detector   *)
(* sees.  The detector itself keeps two time stamps, _contact_candidate_   *)
(* since and _contact_off_since, which it sets and clears on different     *)
(* paths; the history says what they ought to mean.                        *)
(***************************************************************************)
EXTENDS McPosControl

VARIABLES
  pressed,   \* time since the first of the latest calls that all saw a valid
             \* wrench of at least N_ON (Unset: the last call did not)
  released   \* the same for a valid wrench of at most N_OFF

hvars == <<pvars, pressed, released>>

Valid == mob.ok /\ mobAge <= MobTo

(* A run of calls that is continued, d ticks later, by one that `holds'.   *)
RunLength(r, d, holds) ==
  IF ~holds THEN Unset ELSE IF r = Unset THEN 0 ELSE Older(r, d)

HInit == PInit /\ pressed = Unset /\ released = Unset

HRun(d, isArmed, isArmOnly, velIn, cmdIn, mobIn, gates, traj, sp) ==
  /\ Run(d, isArmed, isArmOnly, velIn, cmdIn, mobIn, gates, traj, sp)
  /\ pressed' = RunLength(pressed, d, Valid' /\ mob'.level = 2)
  /\ released' = RunLength(released, d, Valid' /\ mob'.level = 0)

HNext ==
  \E d \in 1..MaxGap, isArmed \in BOOLEAN, isArmOnly \in BOOLEAN,
     velIn \in VelInputs \cup {NoMsg}, cmdIn \in Commands \cup {NoMsg},
     mobIn \in MobInputs \cup {NoMsg},
     gates \in GateInputs, traj \in TrajInputs, sp \in SpInputs :
       HRun(d, isArmed, isArmOnly, velIn, cmdIn, mobIn, gates, traj, sp)

HSpec == HInit /\ [][HNext]_hvars
-----------------------------------------------------------------------------
(* Contact is established only by a wrench that stayed at N_ON or above    *)
(* for PADM_N_ON_T without a dip or an invalid sample.                     *)
ContactIsEarned ==
  [][~ctc.on /\ ctc'.on => pressed' >= NOnT]_hvars

(* Contact is given up under a valid wrench only after the full grace time *)
(* PADM_N_OFF_T spent at N_OFF or below, flicker in between restarting it, *)
(* and at once when the wrench is invalid.                                 *)
ContactGrace ==
  [][ctc.on => /\ ~Valid' => ~ctc'.on
               /\ Valid' /\ ~ctc'.on => released' >= NOffT]_hvars
=============================================================================
