----------------------------- MODULE MCDataman -----------------------------
(***************************************************************************)
(* Instance of Dataman for TLC.  One client stands for the mission manager *)
(* of a MAVLink link, the other one for a part of Navigator, such as the   *)
(* geofence.                                                               *)
(***************************************************************************)
EXTENDS Dataman

CONSTANTS c1, c2

MCSyncTypes  == [c \in Clients |-> IF c = c1 THEN {"write", "clear"} ELSE {"read"}]
MCAsyncTypes == [c \in Clients |-> IF c = c1 THEN {} ELSE {"read", "write"}]
=============================================================================
