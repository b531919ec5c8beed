----------------------------- MODULE MCFailsafe -----------------------------
(***************************************************************************)
(* Instance of Failsafe for TLC.  There are more callers than entries, so  *)
(* the table fills up.  The callers stand for the kinds of conditions that *)
(* checkStateAndMode() passes.  The sticks bring the vehicle to POSCTL.    *)
(***************************************************************************)
EXTENDS Failsafe

Opt(a, clear, take, can) ==
  [action |-> a, clear |-> clear, takeover |-> take, deferrable |-> can]

MCOptions == <<
  \* manual_control_signal_lost: NAV_RCL_ACT is Land
  {Opt(Land, "OnModeChangeOrDisarm", AutoTakeover, TRUE)},
  \* wind_limit_exceeded: COM_WIND_MAX_ACT is Hold
  {Opt(Hold, "OnModeChangeOrDisarm", AlwaysModeSwitchOnly, FALSE)},
  \* flight_time_limit_exceeded
  {Opt(RTL, "WhenConditionClears", AutoTakeover, FALSE)} >>

MCRunSets == {Modes, {"MANUAL", "ALTCTL", "STAB"}}

ASSUME TableFills == NumActions < NumCallers
=============================================================================
