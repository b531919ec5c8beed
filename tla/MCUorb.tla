------------------------------- MODULE MCUorb -------------------------------
(***************************************************************************)
(* Instance of UorbNode, with its history, for TLC.  A generation counter  *)
(* of few values wraps several times within the bound on publications.     *)
(***************************************************************************)
EXTENDS UorbHistory

(* The queue is full and the counter wraps before publications end.        *)
ASSUME Wraps == Modulus < MaxPubs /\ \A n \in QueueSizes : n < MaxPubs
=============================================================================
