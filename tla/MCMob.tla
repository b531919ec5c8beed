-------------------------------- MODULE MCMob --------------------------------
(***************************************************************************)
(* Instance of PalletroneMob, with its history, for TLC.                   *)
(***************************************************************************)
EXTENDS MobHistory

Good == [att |-> TRUE, vel |-> TRUE, ang |-> TRUE, stamp |-> "ok",
         reset |-> FALSE]

(* A good sample and one sample for each thing that can be wrong with it.  *)
MCOdom == {Good, [Good EXCEPT !.att = FALSE], [Good EXCEPT !.vel = FALSE],
           [Good EXCEPT !.ang = FALSE], [Good EXCEPT !.stamp = "gap"],
           [Good EXCEPT !.stamp = "back"], [Good EXCEPT !.reset = TRUE]}

On == [enabled |-> TRUE, model |-> "a", forceGains |-> TRUE,
       torqueGains |-> TRUE, bias |-> TRUE]
MCPar == {On, [On EXCEPT !.model = "b"], [On EXCEPT !.enabled = FALSE]}

(* Missing messages combine freely; of a parameter change, a change of the *)
(* arming state, a bad thrust, a bad odometry sample and an overflow at    *)
(* most one falls into a cycle.  They may follow each other in any order.  *)
(* An observer steps, and may overflow, only on a new sample.              *)
MCNext ==
  \E servoIn \in ServoInputs \cup {NoMsg} :
    \/ \E thrustIn \in {"good", NoMsg}, odomIn \in {Good, NoMsg} :
         \/ \E parIn \in (ParInputs \ {par}) \cup {NoMsg} :
              HRun(1, parIn, armed, thrustIn, servoIn, odomIn, {})
         \/ HRun(1, NoMsg, ~armed, thrustIn, servoIn, odomIn, {})
    \/ \E thrustIn \in ThrustInputs \ {"good"}, odomIn \in {Good, NoMsg} :
         HRun(1, NoMsg, armed, thrustIn, servoIn, odomIn, {})
    \/ \E thrustIn \in {"good", NoMsg} :
         \/ \E odomIn \in OdomInputs \ {Good} :
              HRun(1, NoMsg, armed, thrustIn, servoIn, odomIn, {})
         \/ \E overflow \in OverflowInputs \ {{}} :
              HRun(1, NoMsg, armed, thrustIn, servoIn, Good, overflow)

MCSpec == HInit /\ [][MCNext]_hvars

(* Only whether the model has changed counts, not which of the two it is;  *)
(* and an age past the limit it is compared with stays there until reset.  *)
Past(age, limit) == IF age > limit THEN Forever ELSE age
Reached(age, limit) == IF age >= limit THEN Forever ELSE age

MCView ==
  <<[par EXCEPT !.model = "a"], armed, thrust, servo, odom, Past(actAge, ActTo),
    Past(servoAge, ServoTo), Past(odomAge, OdomTo), seen, force, torque, active,
    Reached(warm, Warmup), out, Reached(idle, Warmup), Reached(modelAge, Warmup)>>
=============================================================================
