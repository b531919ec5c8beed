-------------------------- MODULE MobHistory_proofs --------------------------
(***************************************************************************)
(* For every timeout, warm-up time and set of inputs, the momentum         *)
(* observer publishes no estimate as valid that was interrupted or that    *)
(* belongs to another mass or inertia.                                     *)
(***************************************************************************)
EXTENDS MobHistory, TLAPS

(* The history variables are ages.                                         *)
HistoryTypeOK == idle \in Ages /\ modelAge \in Ages

(* While an observer advances, the warm-up runs and is no older than       *)
(* whatever would have to restart it.                                      *)
WarmupCovers ==
  active => warm \in Ages /\ warm <= idle /\ warm <= modelAge

(* An estimate is valid only in a cycle that advanced, after the warm-up.  *)
ValidIsWarm ==
  out.force \/ out.torque => active /\ warm \in Ages /\ warm >= Warmup

HInv ==
  TypeOK /\ HistoryTypeOK /\ WarmupCovers /\ ValidIsWarm /\ ValidNeedsLiveInputs

(* The bounds are naturals below Forever.                                  *)
LEMMA Bounds ==
  /\ Forever \in Nat /\ OdomTo \in Nat /\ ActTo \in Nat /\ ServoTo \in Nat
  /\ Warmup \in Nat /\ Warmup < Forever
<1>1. {OdomTo, ActTo, ServoTo, Warmup, Forever} \subseteq Nat
  BY MobConstants
<1>2. Warmup < Forever
  BY MobConstants
<1> QED
  BY <1>1, <1>2

(* Growing ages stay ages and keep their order.                            *)
LEMMA OlderGood ==
  ASSUME NEW a \in Ages, NEW d \in Nat
  PROVE  /\ Older(a, d) \in Ages
         /\ a <= Older(a, d)
         /\ \A b \in Ages : a <= b => Older(a, d) <= Older(b, d)
BY Bounds DEF Older, Ages

(* The reception time of an input is an age after every cycle.             *)
LEMMA ReceivedGood ==
  ASSUME NEW a \in Ages, NEW d \in Nat, NEW c \in BOOLEAN
  PROVE  Received(a, d, c) \in Ages
BY OlderGood, Bounds DEF Received, Ages

LEMMA InitHInv == HInit => HInv
<1> SUFFICES ASSUME HInit PROVE HInv
  OBVIOUS
<1>1. TypeOK
  <2>1. par \in Params
    BY MobConstants DEF HInit, Init
  <2>2. /\ thrust \in Thrusts /\ servo \in Servos /\ odom \in Odometry
        /\ force \in Observers /\ torque \in Observers
    BY DEF HInit, Init, Odometry, Thrusts, Servos, Observers
  <2>3. /\ actAge \in Ages /\ servoAge \in Ages /\ odomAge \in Ages
        /\ warm \in Ages \cup {Unset}
    BY Bounds DEF HInit, Init, Ages
  <2>4. armed \in BOOLEAN /\ seen \in BOOLEAN /\ active \in BOOLEAN
    BY DEF HInit, Init
  <2>5. out \in [force : BOOLEAN, torque : BOOLEAN, warmup : BOOLEAN]
    BY DEF HInit, Init
  <2> QED
    BY <2>1, <2>2, <2>3, <2>4, <2>5 DEF TypeOK
<1>2. HistoryTypeOK
  BY Bounds DEF HInit, HistoryTypeOK, Ages
<1>3. WarmupCovers /\ ValidIsWarm /\ ValidNeedsLiveInputs
  BY DEF HInit, Init, WarmupCovers, ValidIsWarm, ValidNeedsLiveInputs
<1> QED
  BY <1>1, <1>2, <1>3 DEF HInv

(* One cycle, whatever the subscriptions return.                           *)
LEMMA RunHInv ==
  ASSUME HInv,
         NEW d \in 1..MaxGap, NEW parIn \in ParInputs \cup {NoMsg},
         NEW isArmed \in BOOLEAN, NEW thrustIn \in ThrustInputs \cup {NoMsg},
         NEW servoIn \in ServoInputs \cup {NoMsg},
         NEW odomIn \in OdomInputs \cup {NoMsg}, NEW overflow \in OverflowInputs,
         HRun(d, parIn, isArmed, thrustIn, servoIn, odomIn, overflow)
  PROVE  HInv'
<1> DEFINE
      p    == IF parIn = NoMsg THEN par ELSE parIn
      th   == IF thrustIn = NoMsg THEN thrust ELSE thrustIn
      sv   == IF servoIn = NoMsg THEN servo ELSE servoIn
      new  == odomIn # NoMsg
      o    == IF new THEN OdometryOf(odomIn) ELSE odom
      oAge == Received(odomAge, d, new)
      aAge == Received(actAge, d, Accepted(thrustIn))
      sAge == Received(servoAge, d, Accepted(servoIn))
      f0   == IF p.enabled THEN force ELSE "none"
      t0   == IF p.enabled THEN torque ELSE "none"
      keep == StaysActive(p)
      common   == CommonValid(p, isArmed, o, oAge, aAge, sAge)
      forceIn  == common /\ p.forceGains /\ o.vel
      torqueIn == common /\ p.torqueGains /\ o.ang
      some     == forceIn \/ torqueIn
      dtValid  == new /\ seen /\ odomIn.stamp = "ok"
      upset    == new /\ seen /\ (odomIn.reset \/ odomIn.stamp = "back")
      trouble  == ~some \/ upset \/ ~dtValid
      advance  == dtValid /\ some
      restart  == Restart(trouble, new, some, o.ang, advance, keep)
      f1 == IF restart THEN ForceSeed(o) ELSE f0
      t1 == IF restart THEN TorqueSeed(o) ELSE t0
      finite   == ActuatorsFinite(th, sv) /\ o.ang
      forceUp  == advance /\ Advances(f1, forceIn, finite /\ "force" \notin overflow)
      torqueUp == advance /\ Advances(t1, torqueIn, finite /\ "torque" \notin overflow)
      warm1 == IF restart THEN 0
               ELSE IF warm = Unset THEN Unset ELSE Older(warm, d)
      complete == warm1 # Unset /\ warm1 >= Warmup
<1>0. d \in Nat /\ Forever \in Nat
  BY Bounds, MobConstants
<1>1. /\ par' = p /\ armed' = isArmed
      /\ thrust' = th /\ servo' = sv /\ odom' = o
      /\ odomAge' = oAge /\ actAge' = aAge /\ servoAge' = sAge
      /\ seen' = (seen \/ new)
      /\ force' = f1 /\ torque' = t1
      /\ active' = IF advance THEN forceUp \/ torqueUp ELSE keep /\ ~trouble
      /\ warm' = warm1
      /\ out' = [force |-> forceUp /\ complete, torque |-> torqueUp /\ complete,
                 warmup |-> complete]
  BY DEF HRun, Run
<1>2. /\ idle' = IF active' THEN Older(idle, d) ELSE 0
      /\ modelAge' = IF par'.model # par.model THEN 0 ELSE Older(modelAge, d)
  BY DEF HRun
<1>3. /\ par \in Params /\ odom \in Odometry
      /\ actAge \in Ages /\ servoAge \in Ages /\ odomAge \in Ages
      /\ warm \in Ages \cup {Unset} /\ idle \in Ages /\ modelAge \in Ages
      /\ active \in BOOLEAN /\ seen \in BOOLEAN
      /\ force \in Observers /\ torque \in Observers
      /\ thrust \in Thrusts /\ servo \in Servos
  BY DEF HInv, TypeOK, HistoryTypeOK
<1>4. p \in Params /\ th \in Thrusts /\ sv \in Servos
  BY <1>3, MobConstants
<1>5. o \in Odometry
  BY <1>3, MobConstants DEF OdometryOf, Odometry, OdomMsgs
<1>6. oAge \in Ages /\ aAge \in Ages /\ sAge \in Ages
  BY <1>0, <1>3, ReceivedGood DEF Accepted
<1>7. f1 \in Observers /\ t1 \in Observers
  BY <1>3 DEF ForceSeed, TorqueSeed, Observers
<1>8. warm1 \in Ages \cup {Unset}
  BY <1>0, <1>3, OlderGood DEF Ages
<1>9. /\ advance \in BOOLEAN /\ forceUp \in BOOLEAN /\ torqueUp \in BOOLEAN
      /\ keep \in BOOLEAN /\ trouble \in BOOLEAN /\ complete \in BOOLEAN
  BY Zenon DEF StaysActive, Advances
<1>10. /\ advance => some
       /\ keep => active /\ p.model = par.model
       /\ advance /\ ~restart => keep
       /\ ~advance => ~(keep /\ ~trouble)
       /\ some => common
  BY DEF StaysActive, Restart
<1>11. active' => advance /\ (forceUp \/ torqueUp)
  BY <1>1, <1>10
<1>12. advance => /\ warm1 \in Ages /\ warm1 <= Older(idle, d)
                  /\ warm1 <= modelAge'
  <2>1. CASE restart
    <3>1. warm1 = 0 /\ 0 \in Ages
      BY <2>1, <1>0 DEF Ages
    <3>2. Older(idle, d) \in Ages /\ Older(modelAge, d) \in Ages
      BY <1>0, <1>3, OlderGood
    <3>3. modelAge' \in Ages
      BY <1>2, <3>1, <3>2
    <3> HIDE DEF warm1, advance, restart
    <3> QED
      BY <3>1, <3>2, <3>3, <1>0 DEF Ages
  <2>2. CASE ~restart
    <3> SUFFICES ASSUME advance
                 PROVE  warm1 \in Ages /\ warm1 <= Older(idle, d) /\ warm1 <= modelAge'
      OBVIOUS
    <3>1. keep /\ active /\ p.model = par.model
      BY <2>2, <1>10
    <3>2. warm \in Ages /\ warm <= idle /\ warm <= modelAge
      BY <3>1 DEF HInv, WarmupCovers
    <3>3. warm1 = Older(warm, d)
      BY <2>2, <3>2 DEF Ages, Unset
    <3>4. modelAge' = Older(modelAge, d)
      BY <3>1, <1>1, <1>2
    <3> HIDE DEF p, restart, advance, warm1, keep
    <3> QED
      BY <3>2, <3>3, <3>4, <1>0, <1>3, OlderGood
  <2> QED
    BY <2>1, <2>2
<1>13. common => /\ oAge <= OdomTo /\ aAge <= ActTo /\ sAge <= ServoTo
                 /\ p.enabled /\ p.model # "bad" /\ (ArmOnly => isArmed)
  BY DEF CommonValid
<1> HIDE DEF p, th, sv, new, o, oAge, aAge, sAge, f0, t0, keep, common,
             some, dtValid, upset, trouble, advance, restart, f1, t1, finite,
             forceUp, torqueUp, warm1, complete
<1>14. out'.force \/ out'.torque => (forceUp \/ torqueUp) /\ complete
  BY <1>1
<1>15. out'.force \/ out'.torque => advance /\ common
  BY <1>14, <1>10 DEF forceUp, torqueUp
<1>16. TypeOK'
  <2>1. /\ par' \in Params /\ armed' \in BOOLEAN
        /\ thrust' \in Thrusts /\ servo' \in Servos /\ odom' \in Odometry
    BY <1>1, <1>4, <1>5
  <2>2. {actAge', servoAge', odomAge'} \subseteq Ages
    BY <1>1, <1>6
  <2>3. seen' \in BOOLEAN /\ active' \in BOOLEAN
    BY <1>1, <1>3, <1>9, Zenon DEF new
  <2>4. /\ force' \in Observers /\ torque' \in Observers
        /\ warm' \in Ages \cup {Unset}
    BY <1>1, <1>7, <1>8
  <2>5. out' \in [force : BOOLEAN, torque : BOOLEAN, warmup : BOOLEAN]
    BY <1>1, <1>9
  <2> QED
    BY <2>1, <2>2, <2>3, <2>4, <2>5 DEF TypeOK
<1>17. HistoryTypeOK'
  BY <1>0, <1>2, <1>3, OlderGood DEF HistoryTypeOK, Ages
<1>18. WarmupCovers'
  BY <1>1, <1>2, <1>11, <1>12 DEF WarmupCovers
<1>19. ValidIsWarm'
  <2>1. complete => warm1 >= Warmup
    BY DEF complete
  <2> QED
    BY <2>1, <1>1, <1>12, <1>14, <1>15 DEF ValidIsWarm
<1>20. ValidNeedsLiveInputs'
  BY <1>1, <1>13, <1>15 DEF ValidNeedsLiveInputs
<1> QED
  BY <1>16, <1>17, <1>18, <1>19, <1>20 DEF HInv

LEMMA StepHInv == HInv /\ [HNext]_hvars => HInv'
<1>1. ASSUME HInv, HNext PROVE HInv'
  BY <1>1, RunHInv DEF HNext
<1>2. ASSUME HInv, UNCHANGED hvars PROVE HInv'
  BY <1>2 DEF HInv, hvars, vars, TypeOK, HistoryTypeOK, WarmupCovers,
     ValidIsWarm, ValidNeedsLiveInputs
<1> QED
  BY <1>1, <1>2

(* The inductive invariant holds in every state of the observer.           *)
THEOREM MobInvariance == HSpec => []HInv
BY InitHInv, StepHInv, PTL DEF HSpec

(* Types are kept.                                                         *)
THEOREM MobTypeCorrectness == HSpec => []TypeOK
<1>1. HInv => TypeOK
  BY DEF HInv
<1> QED
  BY <1>1, MobInvariance, PTL

(* Run() publishes a valid estimate only on live, armed, enabled inputs.   *)
THEOREM MobLiveInputs == HSpec => []ValidNeedsLiveInputs
<1>1. HInv => ValidNeedsLiveInputs
  BY DEF HInv
<1> QED
  BY <1>1, MobInvariance, PTL

(* Whatever interrupts the observers, Run() starts the warm-up anew.       *)
THEOREM MobUnbroken == HSpec => []ValidIsUnbroken
<1>1. HInv => ValidIsUnbroken
  BY Bounds DEF HInv, ValidIsWarm, WarmupCovers, HistoryTypeOK,
     ValidIsUnbroken, Ages
<1> QED
  BY <1>1, MobInvariance, PTL

(* A change of mass or inertia invalidates the estimates for a warm-up.    *)
THEOREM MobFitsModel == HSpec => []ValidFitsModel
<1>1. HInv => ValidFitsModel
  BY Bounds DEF HInv, ValidIsWarm, WarmupCovers, HistoryTypeOK,
     ValidFitsModel, Ages
<1> QED
  BY <1>1, MobInvariance, PTL
=============================================================================
