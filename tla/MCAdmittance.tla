---------------------------- MODULE MCAdmittance ----------------------------
(***************************************************************************)
(* Instance of Admittance for TLC.                                         *)
(***************************************************************************)
EXTENDS Admittance

M(ok, yaw, level, stamp) ==
  [ok |-> ok, yaw |-> yaw, level |-> level, stamp |-> stamp]

(* A pressed and a released surface, each reason for a wrench to be        *)
(* invalid, a repeated and a reversed sample time.                         *)
MCMobInputs ==
  {M(TRUE, TRUE, 0, "new"), M(TRUE, TRUE, 2, "new"),
   M(TRUE, TRUE, 2, "same"), M(TRUE, TRUE, 2, "back"),
   M(FALSE, TRUE, 2, "new"), M(TRUE, FALSE, 2, "new")}

MCAllGates == {Gates}

(***************************************************************************)
(* A nominal bench session: a new valid wrench sample reaches every cycle, *)
(* the setpoint is finite, the core accepts its parameters; the operator   *)
(* toggles the request and the surface is pressed or released.             *)
(***************************************************************************)
NominalNext ==
  \E cmdIn \in Commands \cup {NoMsg}, mobIn \in MobInputs, sp \in SpInputs :
    Update(1, cmdIn, mobIn, Gates, FALSE, sp, 0)
NominalSpec == Init /\ [][NominalNext]_vars

MCNominalMob == {M(TRUE, TRUE, 0, "new"), M(TRUE, TRUE, 2, "new")}

(* "Request ON again ... starts a new response from 0": no session of a    *)
(* nominal environment ends in a fault.                                    *)
EverySessionStarts == mgr.state # "FAULT_HOLD"
=============================================================================
