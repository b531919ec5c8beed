------------------------------ MODULE MCMission ------------------------------
(***************************************************************************)
(* Instance of MissionTransfer for TLC.                                    *)
(***************************************************************************)
EXTENDS MissionTransfer, TLC

CONSTANTS a, b, c

(* A mission may be announced in place of a shorter or a longer one; c has *)
(* more items than there is room for.                                      *)
MCLength == (a :> 2) @@ (b :> 1) @@ (c :> 3)

Symmetry == Permutations(Instances)

(* The members of a transfer count only until it ends: when idle, they are *)
(* assigned before they are read again.                                    *)
LiveState ==
  <<sharedVars, updateVars, state,
    [i \in Instances |-> IF state[i] = "getlist" THEN <<target[i], crc[i]>> ELSE <<>>],
    [i \in Instances |-> IF state[i] \in {"getlist", "sendlist"}
                         THEN <<seq[i], total[i]>> ELSE <<>>]>>
=============================================================================
