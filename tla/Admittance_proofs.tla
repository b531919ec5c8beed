-------------------------- MODULE Admittance_proofs --------------------------
(***************************************************************************)
(* The safety invariants of Admittance, for every value of the time-outs,  *)
(* the limits and the inputs.                                              *)
(***************************************************************************)
EXTENDS Admittance, TLAPS

(***************************************************************************)
(* What every stage of update() preserves about the ownership record.      *)
(***************************************************************************)
Good(m) ==
  /\ m \in MgrType
  /\ m.hold <=> m.state \in Owning
  /\ m.state \notin Driving \cup {"HANDOVER_DECEL"} => m.offset = 0 /\ m.vel = 0

(* Ages stay ages as time passes.                                          *)
LEMMA AgesGrow ==
  ASSUME NEW d \in Nat
  PROVE  /\ \A a \in Ages : Older(a, d) \in Ages
         /\ \A a \in Ages \cup {Unset} : OlderIfSet(a, d) \in Ages \cup {Unset}
         /\ \A a \in Ages \cup {Ahead} : OlderSince(a, d) \in Ages
  BY ConstantsAssumption DEF Ages, Older, OlderIfSet, OlderSince, Unset, Ahead

(* Clamp() ends in the limits it is given.                                 *)
LEMMA ClampInLimits ==
  ASSUME NEW x \in Int, NEW lim \in Nat
  PROVE  Clamp(x, lim) \in -lim .. lim
  BY DEF Clamp

(* The helpers that hand the setpoint over keep the record good.           *)
LEMMA HelpersGood ==
  ASSUME NEW m \in MgrType, NEW sp \in Int \cup {NaN}
  PROVE  /\ Good(resetAt(m, sp))
         /\ Good(severeFault(m, sp))
         /\ severeFault(m, sp).state = "FAULT_HOLD"
         /\ Good([releaseOwnership(m) EXCEPT !.state = "DISABLED_HOLD"])
         /\ Good([releaseOwnership(m) EXCEPT !.state = "WAIT_VALID"])
         /\ Good(atomicRebase(m))
         /\ atomicRebase(m).state = "DISABLED_HOLD"
<1>1. BaseFrom(m, sp) \in Int /\ m.base + m.offset \in Int
  BY ConstantsAssumption DEF MgrType, BaseFrom, Finite
<1>2. 0 \in -PMax .. PMax /\ 0 \in -VMax .. VMax
  BY ConstantsAssumption
<1>3. Good(resetAt(m, sp))
  BY <1>1, <1>2 DEF Good, MgrType, resetAt, Owning, Driving, States
<1>4. Good(severeFault(m, sp)) /\ severeFault(m, sp).state = "FAULT_HOLD"
  BY <1>1, <1>2 DEF Good, MgrType, severeFault, Owning, Driving, States
<1>5. Good([releaseOwnership(m) EXCEPT !.state = "DISABLED_HOLD"])
  BY <1>2 DEF Good, MgrType, releaseOwnership, Owning, Driving, States
<1>6. Good([releaseOwnership(m) EXCEPT !.state = "WAIT_VALID"])
  BY <1>2 DEF Good, MgrType, releaseOwnership, Owning, Driving, States
<1>7. Good(atomicRebase(m)) /\ atomicRebase(m).state = "DISABLED_HOLD"
  BY <1>1, <1>2
  DEF Good, MgrType, atomicRebase, releaseOwnership, Owning, Driving, States
<1> QED
  BY <1>3, <1>4, <1>5, <1>6, <1>7

(* A step of the core stays in the limits and keeps state and ownership.   *)
LEMMA IntegrateType ==
  ASSUME NEW m \in MgrType, NEW dq \in Int, NEW dt \in Nat
  PROVE  /\ integrate(m, dq, dt) \in MgrType
         /\ integrate(m, dq, dt).state = m.state
         /\ integrate(m, dq, dt).hold = m.hold
         /\ integrate(m, dq, dt).since = m.since
<1> DEFINE v == Clamp(dq, VMax)
           next == m.offset + v * dt
           c == Clamp(next, PMax)
<1>1. v \in -VMax .. VMax
  BY ClampInLimits, ConstantsAssumption
<1>2. next \in Int
  BY <1>1, ConstantsAssumption DEF MgrType
<1>3. c \in -PMax .. PMax
  BY <1>2, ClampInLimits, ConstantsAssumption
<1>4. 0 \in -VMax .. VMax
  BY ConstantsAssumption
<1> HIDE DEF v, next, c
<1> DEFINE w == IF c # next /\ ((c >= PMax /\ v > 0) \/ (c <= -PMax /\ v < 0))
                THEN 0 ELSE v
<1>5. w \in -VMax .. VMax
  BY <1>1, <1>4
<1> HIDE DEF w
<1>6. integrate(m, dq, dt) = [m EXCEPT !.offset = c, !.vel = w]
  BY DEF integrate, v, next, c, w
<1> QED
  BY <1>3, <1>5, <1>6 DEF MgrType

(* The decisions keep the record good, and leave BLEND_IN or ACTIVE only   *)
(* where the validity inputs and the contact hold.                         *)
LEMMA DecideGood ==
  ASSUME NEW m, Good(m), NEW sp \in Int \cup {NaN},
         NEW edge \in BOOLEAN, NEW rising \in BOOLEAN, NEW request \in BOOLEAN,
         NEW basic \in BOOLEAN, NEW contact \in BOOLEAN
  PROVE  LET r == Decide(m, edge, rising, request, basic, contact, sp)
         IN  Good(r) /\ (r.state \in Driving => basic /\ contact)
<1> DEFINE m1 == Reset(m, edge, sp)
           m2 == TrajectoryRelease(m1, rising, request)
           m3 == Retract(m2, request, basic, contact)
           m4 == Advance(m3, request, basic, contact, sp)
<1>1. Good(m1)
  BY HelpersGood DEF Reset, Good
<1> HIDE DEF m1
<1>2. Good(m2)
  <2>1. ~(m1.hold /\ m1.state = "DISABLED_HOLD")
    BY <1>1 DEF Good, Owning
  <2> QED BY <1>1, <2>1 DEF TrajectoryRelease
<1> HIDE DEF m2
<1>3. Good(m3) /\ (m3.state \in Driving => basic /\ contact)
  <2>1. CASE ~request /\ m2.state \in {"WAIT_VALID", "WAIT_CONTACT"}
    <3>1. m3 = [releaseOwnership(m2) EXCEPT !.state = "DISABLED_HOLD"]
      BY <2>1 DEF Retract
    <3> HIDE DEF m3
    <3>0. m2 \in MgrType
      BY <1>2 DEF Good
    <3>2. Good(m3)
      BY <3>0, <3>1, HelpersGood
    <3>3. m3.state = "DISABLED_HOLD"
      BY <1>2, <3>1 DEF releaseOwnership, Good, MgrType
    <3> QED BY <3>2, <3>3 DEF Driving
  <2>2. CASE /\ ~(~request /\ m2.state \in {"WAIT_VALID", "WAIT_CONTACT"})
             /\ m2.state \in {"ACTIVE", "BLEND_IN"} /\ (~basic \/ ~contact)
    <3>1. m3 = startHandover(m2)
      BY <2>2 DEF Retract
    <3> HIDE DEF m3
    <3>2. 0 \in Ages
      BY ConstantsAssumption DEF Ages
    <3>3. m3 = [m2 EXCEPT !.state = "HANDOVER_DECEL", !.since = 0]
      BY <3>1 DEF startHandover
    <3>4. m2.hold = TRUE
      BY <1>2, <2>2 DEF Good, Owning, MgrType
    <3> QED
      BY <1>2, <3>2, <3>3, <3>4 DEF Good, MgrType, Owning, Driving, States
  <2>3. CASE /\ ~(~request /\ m2.state \in {"WAIT_VALID", "WAIT_CONTACT"})
             /\ ~(m2.state \in {"ACTIVE", "BLEND_IN"} /\ (~basic \/ ~contact))
    <3>1. m3 = m2
      BY <2>3 DEF Retract
    <3> QED BY <1>2, <2>3, <3>1 DEF Driving
  <2> QED BY <2>1, <2>2, <2>3
<1> HIDE DEF m3
<1>4. Good(m4) /\ (m4.state \in Driving => basic /\ contact)
  <2> DEFINE L == [latchBase(m3, sp) EXCEPT !.state = Entered(contact)]
             L0 == [latchBase(m3, sp) EXCEPT !.state = Entered(contact),
                                             !.since = 0]
  <2>0. 0 \in -PMax .. PMax /\ 0 \in -VMax .. VMax /\ 0 \in Ages
    BY ConstantsAssumption DEF Ages
  <2>1. ASSUME Finite(sp), basic
        PROVE  /\ Good(L) /\ (L.state \in Driving => basic /\ contact)
               /\ Good(L0) /\ (L0.state \in Driving => basic /\ contact)
    <3>1. sp \in Int
      BY <2>1, ConstantsAssumption DEF Finite
    <3>2. Entered(contact) \in {"BLEND_IN", "WAIT_CONTACT"}
          /\ (Entered(contact) = "BLEND_IN" => contact)
      BY DEF Entered
    <3> QED
      BY <1>3, <2>0, <2>1, <3>1, <3>2
      DEF latchBase, Good, MgrType, Owning, Driving, States
  <2>2. Good(severeFault(m3, sp)) /\ severeFault(m3, sp).state \notin Driving
    BY <1>3, HelpersGood DEF Good, Driving
  <2>3. CASE m3.state = "DISABLED_HOLD" /\ request /\ ~basic
    <3>1. m4 = [m3 EXCEPT !.state = "WAIT_VALID"]
      BY <2>3 DEF Advance
    <3> QED
      BY <1>3, <2>3, <3>1 DEF Good, MgrType, Owning, Driving, States
  <2>4. CASE m3.state = "DISABLED_HOLD" /\ request /\ basic
    <3>1. m4 = IF Finite(sp) THEN L ELSE severeFault(m3, sp)
      BY <2>4 DEF Advance
    <3> HIDE DEF L, m4
    <3> QED BY <2>1, <2>2, <2>4, <3>1
  <2>5. CASE m3.state = "WAIT_VALID" /\ basic
    <3>1. m4 = IF Finite(sp) THEN L0 ELSE severeFault(m3, sp)
      BY <2>5 DEF Advance
    <3> HIDE DEF L0, m4
    <3> QED BY <2>1, <2>2, <2>5, <3>1
  <2>6. CASE m3.state = "WAIT_CONTACT" /\ ~basic
    <3>1. m4 = [releaseOwnership(m3) EXCEPT !.state = "WAIT_VALID"]
      BY <2>6 DEF Advance
    <3> HIDE DEF m4
    <3>0. m3 \in MgrType
      BY <1>3 DEF Good
    <3>2. Good(m4)
      BY <3>0, <3>1, HelpersGood
    <3>3. m4.state = "WAIT_VALID"
      BY <1>3, <3>1 DEF releaseOwnership, Good, MgrType
    <3> QED BY <3>2, <3>3 DEF Driving
  <2>7. CASE m3.state = "WAIT_CONTACT" /\ basic /\ contact
    <3>1. m4 = [m3 EXCEPT !.state = "BLEND_IN", !.since = 0]
      BY <2>7 DEF Advance
    <3> QED
      BY <1>3, <2>0, <2>7, <3>1 DEF Good, MgrType, Owning, Driving, States
  <2>8. CASE /\ ~(m3.state = "DISABLED_HOLD" /\ request)
             /\ ~(m3.state = "WAIT_VALID" /\ basic)
             /\ ~(m3.state = "WAIT_CONTACT" /\ (~basic \/ contact))
    <3>1. m4 = m3
      BY <2>8 DEF Advance
    <3> QED BY <1>3, <3>1
  <2> QED BY <2>3, <2>4, <2>5, <2>6, <2>7, <2>8
<1> HIDE DEF m4
<1>5. Decide(m, edge, rising, request, basic, contact, sp) = m4
  BY DEF Decide, m1, m2, m3, m4
<1> QED BY <1>4, <1>5

(* A step on a wrench sample keeps the record good and enters neither      *)
(* BLEND_IN nor ACTIVE from elsewhere.                                     *)
LEMMA MobStepGood ==
  ASSUME NEW m, Good(m), NEW sp \in Int \cup {NaN}, NEW fresh \in BOOLEAN,
         NEW dt \in Nat, NEW coreOk \in BOOLEAN, NEW dq \in Int
  PROVE  LET r == MobStep(m, fresh, dt, coreOk, dq, sp)
         IN  Good(r) /\ (r.state \in Driving => m.state \in Driving)
<1> DEFINE r == MobStep(m, fresh, dt, coreOk, dq, sp)
           blend == [m EXCEPT !.state = IF Blended(m) THEN "ACTIVE" ELSE @]
<1> SUFFICES Good(r) /\ (r.state \in Driving => m.state \in Driving)
  OBVIOUS
<1>1. CASE ~StepsOnSample(m, fresh)
  <2>1. r = m
    BY <1>1 DEF MobStep
  <2> QED BY <2>1
<1>2. CASE StepsOnSample(m, fresh)
  <2>1. m \in MgrType /\ m.hold = TRUE /\ m.state \in Driving
    BY <1>2 DEF StepsOnSample, Good, Owning, Driving, MgrType
  <2>2. blend \in MgrType /\ blend.hold = TRUE /\ blend.state \in Driving
    BY <2>1 DEF MgrType, Driving, States
  <2> HIDE DEF blend
  <2>3. r = IF ~coreOk \/ dt > DtMax THEN severeFault(blend, sp)
            ELSE integrate(blend, dq, dt)
    BY <1>2 DEF MobStep, blend
  <2> HIDE DEF r
  <2>4. CASE ~coreOk \/ dt > DtMax
    BY <2>1, <2>2, <2>3, <2>4, HelpersGood
  <2>5. CASE ~(~coreOk \/ dt > DtMax)
    <3>1. r \in MgrType /\ r.hold = TRUE /\ r.state \in Driving
      BY <2>2, <2>3, <2>5, IntegrateType
    <3> QED BY <2>1, <3>1 DEF Good, Owning, Driving
  <2> QED BY <2>4, <2>5
<1> QED BY <1>1, <1>2

(* A deceleration step keeps the record good, does not resume the motion   *)
(* and ends the handover once its time is up.                              *)
LEMMA HandoverStepGood ==
  ASSUME NEW m, Good(m), NEW sp \in Int \cup {NaN},
         NEW coreOk \in BOOLEAN, NEW dq \in Int
  PROVE  LET r == HandoverStep(m, coreOk, dq, sp)
         IN  /\ Good(r)
             /\ r.state \in Driving => m.state \in Driving
             /\ r.state = "HANDOVER_DECEL" => r.since <= HoT
<1> DEFINE r == HandoverStep(m, coreOk, dq, sp)
           next == integrate(m, dq, 1)
<1> SUFFICES /\ Good(r)
             /\ r.state \in Driving => m.state \in Driving
             /\ r.state = "HANDOVER_DECEL" => r.since <= HoT
  OBVIOUS
<1>1. CASE m.state # "HANDOVER_DECEL"
  <2>1. r = m
    BY <1>1 DEF HandoverStep
  <2> QED BY <1>1, <2>1
<1>2. CASE m.state = "HANDOVER_DECEL"
  <2>1. m \in MgrType /\ m.hold = TRUE
    BY <1>2 DEF Good, Owning, MgrType
  <2>2. /\ next \in MgrType /\ next.hold = TRUE
        /\ next.state = "HANDOVER_DECEL" /\ next.since = m.since
    BY <1>2, <2>1, IntegrateType
  <2> HIDE DEF next
  <2>3. r = IF ~coreOk THEN severeFault(m, sp)
            ELSE IF Abs(next.vel) < HoV \/ Elapsed(m.since) > HoT
            THEN atomicRebase(next) ELSE next
    BY <1>2 DEF HandoverStep, next
  <2> HIDE DEF r
  <2>4. CASE ~coreOk
    BY <2>1, <2>3, <2>4, HelpersGood DEF Driving
  <2>5. CASE coreOk /\ (Abs(next.vel) < HoV \/ Elapsed(m.since) > HoT)
    BY <2>2, <2>3, <2>5, HelpersGood DEF Driving
  <2>6. CASE coreOk /\ ~(Abs(next.vel) < HoV \/ Elapsed(m.since) > HoT)
    <3>1. r = next
      BY <2>3, <2>6
    <3>2. m.since <= HoT
      BY <2>1, <2>6, ConstantsAssumption DEF Elapsed, MgrType, Ages, Ahead
    <3> QED BY <2>2, <3>1, <3>2 DEF Good, Owning, Driving
  <2> QED BY <2>4, <2>5, <2>6
<1> QED BY <1>1, <1>2

(* The contact detector stays in its type.                                 *)
LEMMA ContactTyped ==
  ASSUME NEW c \in ContactType, NEW valid \in BOOLEAN, NEW level \in 0..2
  PROVE  updateContact(c, valid, level) \in ContactType
<1>1. 0 \in Ages
  BY ConstantsAssumption DEF Ages
<1>2. \A a \in Ages, t \in Nat : (a >= t) \in BOOLEAN /\ (a < t) \in BOOLEAN
  BY DEF Ages
<1> QED
  BY <1>1, <1>2, ConstantsAssumption DEF updateContact, ContactType
-----------------------------------------------------------------------------
(***************************************************************************)
(* The inductive invariant.  Ownership is inductive only together with the *)
(* types and with the absence of a left-over motion: atomicRebase() adds   *)
(* the offset to the base, and a release is also taken from states that    *)
(* must already be quiet.                                                  *)
(***************************************************************************)
IInv == /\ TypeOK
        /\ OwnershipMatchesState
        /\ QuietUnlessEngaged
        /\ DrivingNeedsEvidence
        /\ HandoverBounded

LEMMA InitIInv == Init => IInv
<1> SUFFICES ASSUME Init PROVE IInv
  OBVIOUS
<1>1. /\ 0 \in -PMax .. PMax /\ 0 \in -VMax .. VMax
      /\ 0 \in Ages /\ Forever \in Ages
  BY ConstantsAssumption DEF Ages
<1>2. TypeOK
  <2>1. mgr \in MgrType
    BY <1>1 DEF Init, MgrType, States
  <2>2. cmd \in Commands /\ lastReset \in Resets /\ mob \in Wrench
    BY ConstantsAssumption DEF Init, Commands, Wrench
  <2>3. ctc \in ContactType
    BY DEF Init, ContactType
  <2>4. /\ cmdAge \in Ages /\ mobAge \in Ages /\ sample \in Ages \cup {Unset}
        /\ posOut \in Int \cup {NaN} /\ velOut \in Int
    BY <1>1 DEF Init
  <2>5. resetSeen \in BOOLEAN /\ lastTraj \in BOOLEAN
    BY DEF Init
  <2> QED BY <2>1, <2>2, <2>3, <2>4, <2>5 DEF TypeOK
<1> QED
  BY <1>2
  DEF Init, IInv, OwnershipMatchesState, QuietUnlessEngaged,
      DrivingNeedsEvidence, HandoverBounded, Owning, Driving

(* A call as the sequence of its stages, d ticks after the last one.       *)
Staged(d, sp, edge, rising, basic, fresh, dt, coreOk, dq) ==
  LET request == cmd'.enable /\ cmdAge' <= CmdTo
      m0 == [mgr EXCEPT !.since = OlderSince(@, d)]
      m1 == Decide(m0, edge, rising, request, basic, ctc'.on, sp)
      m2 == MobStep(m1, fresh, dt, coreOk, dq, sp)
  IN  /\ mgr' = HandoverStep(m2, coreOk, dq, sp)
      /\ basic => request
      /\ edge => lastReset' # lastReset
      /\ mgr'.hold => posOut' = mgr'.base + mgr'.offset
      /\ Good(m0) /\ Good(m1) /\ Good(m2) /\ ctc'.on \in BOOLEAN

StagedCall(d, sp) ==
  \E e, r, b, f \in BOOLEAN, t \in Nat, ok \in BOOLEAN, dq \in Int :
    Staged(d, sp, e, r, b, f, t, ok, dq)

(* One call of update() preserves the invariant, whatever the caller       *)
(* passes, and ends in BLEND_IN or ACTIVE only with every gate open.       *)
LEMMA UpdateIInv ==
  ASSUME IInv, NEW d \in Nat, NEW cmdIn \in Commands \cup {NoMsg},
         NEW mobIn \in MobMsgs \cup {NoMsg}, NEW gates,
         NEW traj \in BOOLEAN, NEW sp \in Int \cup {NaN}, NEW vel \in Int,
         Update(d, cmdIn, mobIn, gates, traj, sp, vel)
  PROVE  /\ IInv' /\ StagedCall(d, sp)
         /\ mgr'.state \in Driving => gates = Gates
<1> DEFINE
      newCmd == cmdIn # NoMsg
      newMob == mobIn # NoMsg
      edge   == newCmd /\ resetSeen /\ cmdIn.reset # lastReset
      fresh  == newMob /\ mobIn.stamp # "same"
      dt     == IF sample = Unset THEN 1
                ELSE IF mobIn.stamp = "back" THEN Forever ELSE Older(sample, d)
      request    == cmd'.enable /\ cmdAge' <= CmdTo
      forceValid == mob'.ok /\ mobAge' <= MobTo
      yawValid   == mob'.yaw /\ mobAge' <= MobTo
      basic      == request /\ gates = Gates /\ forceValid /\ yawValid
      rising == traj /\ ~lastTraj
      aged == [ctc EXCEPT !.cand = OlderIfSet(@, d), !.off = OlderIfSet(@, d)]
      m0 == [mgr EXCEPT !.since = OlderSince(@, d)]
      m1 == Decide(m0, edge, rising, request, basic, ctc'.on, sp)
      steps == StepsOnSample(m1, fresh)
<1>1. /\ cmd' = IF newCmd THEN cmdIn ELSE cmd
      /\ cmdAge' = IF newCmd THEN 0 ELSE Older(cmdAge, d)
      /\ lastReset' = IF newCmd THEN cmdIn.reset ELSE lastReset
      /\ resetSeen' = (resetSeen \/ newCmd)
      /\ mob' = IF newMob THEN WrenchOf(mobIn) ELSE mob
      /\ mobAge' = IF newMob THEN 0 ELSE Older(mobAge, d)
      /\ lastTraj' = traj
  BY DEF Update
<1>2. ctc' = updateContact(aged, forceValid, mob'.level)
  BY DEF Update
<1>3. /\ \E core \in CoreOutcomes(m1, steps) :
           mgr' = HandoverStep(MobStep(m1, fresh, dt, core[1], core[2], sp),
                               core[1], core[2], sp)
      /\ sample' = IF steps THEN (IF mobIn.stamp = "back" THEN Forever ELSE 0)
                   ELSE OlderIfSet(sample, d)
      /\ posOut' = IF mgr'.hold THEN mgr'.base + mgr'.offset ELSE sp
      /\ velOut' = IF mgr'.hold THEN applyEffectiveVel(mgr') ELSE vel
  BY DEF Update
<1>4. TypeOK /\ Good(mgr)
  BY DEF IInv, Good, TypeOK, OwnershipMatchesState, QuietUnlessEngaged
<1>5. 0 \in Ages /\ Forever \in Ages /\ 0 \in Nat /\ Forever \in Nat
  BY ConstantsAssumption DEF Ages
<1>6. /\ cmd' \in Commands /\ cmdAge' \in Ages
      /\ lastReset' \in Resets /\ resetSeen' \in BOOLEAN
      /\ mob' \in Wrench /\ mobAge' \in Ages /\ lastTraj' \in BOOLEAN
  BY <1>1, <1>4, <1>5, AgesGrow
  DEF TypeOK, Commands, Wrench, WrenchOf, MobMsgs
<1>7. /\ edge \in BOOLEAN /\ fresh \in BOOLEAN /\ rising \in BOOLEAN
      /\ request \in BOOLEAN /\ forceValid \in BOOLEAN /\ basic \in BOOLEAN
  OBVIOUS
<1>8. dt \in Nat
  BY <1>4, <1>5, AgesGrow DEF TypeOK, Ages
<1>9. ctc' \in ContactType
  <2>1. aged \in ContactType
    BY <1>4, AgesGrow DEF TypeOK, ContactType
  <2>2. mob'.level \in 0..2
    BY <1>6 DEF Wrench
  <2> HIDE DEF aged, forceValid
  <2> QED BY <1>2, <1>7, <2>1, <2>2, ContactTyped
<1>10. Good(m0)
  <2>1. OlderSince(mgr.since, d) \in Ages
    BY <1>4, AgesGrow DEF TypeOK, MgrType
  <2> QED BY <1>4, <2>1 DEF Good, MgrType
<1>11. ctc'.on \in BOOLEAN
  BY <1>9 DEF ContactType
<1> HIDE DEF edge, fresh, rising, request, basic, m0, dt, newCmd, newMob, forceValid,
             yawValid, aged
<1>12. Good(m1) /\ (m1.state \in Driving => basic /\ ctc'.on)
  BY <1>7, <1>10, <1>11, DecideGood, ZenonT(60)
<1> HIDE DEF m1
<1>13. PICK core \in CoreOutcomes(m1, steps) :
         mgr' = HandoverStep(MobStep(m1, fresh, dt, core[1], core[2], sp),
                             core[1], core[2], sp)
  BY <1>3
<1>14. core[1] \in BOOLEAN /\ core[2] \in Int
  <2>1. m1.vel \in Int /\ Abs(m1.vel) \in Int
    BY <1>12, ConstantsAssumption DEF Good, MgrType, Abs
  <2>2. \/ core \in CoreInputs \X (-(VMax + 1) .. VMax + 1)
        \/ core \in CoreInputs \X (-Abs(m1.vel) .. Abs(m1.vel))
        \/ core = <<TRUE, 0>>
    BY <1>13 DEF CoreOutcomes
  <2>3. CASE core \in CoreInputs \X (-(VMax + 1) .. VMax + 1)
    <3>1. VMax + 1 \in Int /\ CoreInputs \subseteq BOOLEAN
      BY ConstantsAssumption, InputsAssumption
    <3> QED BY <2>3, <3>1
  <2>4. CASE core \in CoreInputs \X (-Abs(m1.vel) .. Abs(m1.vel))
    <3>1. CoreInputs \subseteq BOOLEAN
      BY InputsAssumption
    <3> QED BY <2>1, <2>4, <3>1
  <2>5. CASE core = <<TRUE, 0>>
    BY <2>5
  <2> QED BY <2>2, <2>3, <2>4, <2>5
<1> DEFINE m2 == MobStep(m1, fresh, dt, core[1], core[2], sp)
<1>15. Good(m2) /\ (m2.state \in Driving => m1.state \in Driving)
  BY <1>7, <1>8, <1>12, <1>14, MobStepGood
<1>16. mgr' = HandoverStep(m2, core[1], core[2], sp)
  BY <1>13
<1> HIDE DEF m2
<1>17. /\ Good(mgr')
       /\ mgr'.state \in Driving => m2.state \in Driving
       /\ mgr'.state = "HANDOVER_DECEL" => mgr'.since <= HoT
  BY <1>14, <1>15, <1>16, HandoverStepGood
<1>18. TypeOK'
  <2>1. sample' \in Ages \cup {Unset}
    BY <1>3, <1>4, <1>5, AgesGrow DEF TypeOK
  <2>2. mgr' \in MgrType /\ mgr'.base + mgr'.offset \in Int /\ mgr'.vel \in Int
    BY <1>17, ConstantsAssumption DEF Good, MgrType
  <2>3. posOut' \in Int \cup {NaN} /\ velOut' \in Int
    BY <1>3, <2>2 DEF applyEffectiveVel
  <2> QED BY <1>6, <1>9, <2>1, <2>2, <2>3 DEF TypeOK
<1>19. OwnershipMatchesState' /\ QuietUnlessEngaged' /\ HandoverBounded'
  BY <1>17 DEF Good, OwnershipMatchesState, QuietUnlessEngaged, HandoverBounded
<1>20. DrivingNeedsEvidence'
  <2> SUFFICES ASSUME mgr'.state \in Driving
               PROVE  /\ cmd'.enable /\ cmdAge' <= CmdTo
                      /\ mob'.ok /\ mob'.yaw /\ mobAge' <= MobTo /\ ctc'.on
    BY DEF DrivingNeedsEvidence
  <2>1. basic /\ ctc'.on
    BY <1>12, <1>15, <1>17
  <2> QED BY <2>1 DEF basic, request, forceValid, yawValid
<1>21. Staged(d, sp, edge, rising, basic, fresh, dt, core[1], core[2])
  <2>1. m1 = Decide([mgr EXCEPT !.since = OlderSince(@, d)], edge, rising,
                    cmd'.enable /\ cmdAge' <= CmdTo, basic, ctc'.on, sp)
    BY DEF m1, m0, request
  <2>2. basic => cmd'.enable /\ cmdAge' <= CmdTo
    BY DEF basic, request
  <2>3. edge => lastReset' # lastReset
    BY <1>1 DEF edge
  <2>4. Good([mgr EXCEPT !.since = OlderSince(@, d)])
    BY <1>10 DEF m0
  <2>5. m2 = MobStep(m1, fresh, dt, core[1], core[2], sp)
    BY DEF m2
  <2> QED
    BY <1>3, <1>11, <1>12, <1>15, <1>16, <2>1, <2>2, <2>3, <2>4, <2>5 DEF Staged
<1>22. IInv'
  BY <1>18, <1>19, <1>20 DEF IInv
<1>23. \E e, r, b, f \in BOOLEAN, t \in Nat, ok \in BOOLEAN, dq \in Int :
         Staged(d, sp, e, r, b, f, t, ok, dq)
  <2> USE <1>7, <1>8, <1>14
  <2> WITNESS edge \in BOOLEAN, rising \in BOOLEAN, basic \in BOOLEAN,
              fresh \in BOOLEAN, dt \in Nat, core[1] \in BOOLEAN, core[2] \in Int
  <2> QED
    BY <1>21
<1>24. mgr'.state \in Driving => gates = Gates
  BY <1>12, <1>15, <1>17 DEF basic
<1> QED
  BY <1>22, <1>23, <1>24 DEF StagedCall

(* The invariant of every behaviour of the manager.                        *)
THEOREM Invariance == Spec => []IInv
<1>1. Init => IInv
  BY InitIInv
<1>2. IInv /\ [Next]_vars => IInv'
  <2> SUFFICES ASSUME IInv, [Next]_vars PROVE IInv'
    OBVIOUS
  <2>1. CASE Next
    <3>1. PICK d \in 1..MaxGap, cmdIn \in Commands \cup {NoMsg},
               mobIn \in MobInputs \cup {NoMsg}, gates \in GateInputs,
               traj \in TrajInputs, sp \in SpInputs :
                 Update(d, cmdIn, mobIn, gates, traj, sp, 0)
      BY <2>1 DEF Next
    <3>2. /\ d \in Nat /\ mobIn \in MobMsgs \cup {NoMsg}
          /\ traj \in BOOLEAN /\ sp \in Int \cup {NaN} /\ 0 \in Int
      BY ConstantsAssumption, InputsAssumption
    <3> QED BY <3>1, <3>2, UpdateIInv
  <2>2. CASE UNCHANGED vars
    BY <2>2
    DEF vars, IInv, TypeOK, OwnershipMatchesState, QuietUnlessEngaged,
        DrivingNeedsEvidence, HandoverBounded
  <2> QED BY <2>1, <2>2
<1> QED BY <1>1, <1>2, PTL DEF Spec

(* Every variable of the manager stays in its type; offset and velocity    *)
(* stay within their limits.                                               *)
THEOREM TypeCorrectness == Spec => []TypeOK
  BY Invariance, PTL DEF IInv

(* The upstream setpoint is overwritten exactly in the owning states.      *)
THEOREM OwnershipCorrectness == Spec => []OwnershipMatchesState
  BY Invariance, PTL DEF IInv

(* No offset and no velocity survive a session.                            *)
THEOREM QuietCorrectness == Spec => []QuietUnlessEngaged
  BY Invariance, PTL DEF IInv

(* The wrench drives the setpoint only under fresh, complete evidence.     *)
THEOREM EvidenceCorrectness == Spec => []DrivingNeedsEvidence
  BY Invariance, PTL DEF IInv

(* The deceleration is bounded by PADM_HO_T.                               *)
THEOREM HandoverCorrectness == Spec => []HandoverBounded
  BY Invariance, PTL DEF IInv
-----------------------------------------------------------------------------
(***************************************************************************)
(* What a single call may not do.                                          *)
(***************************************************************************)
(* Every step is a call.                                                   *)
LEMMA NextStaged ==
  ASSUME IInv, Next
  PROVE  IInv' /\ \E d \in 1..MaxGap, sp \in Int \cup {NaN} : StagedCall(d, sp)
<1>1. PICK d \in 1..MaxGap, cmdIn \in Commands \cup {NoMsg},
           mobIn \in MobInputs \cup {NoMsg}, gates \in GateInputs,
           traj \in TrajInputs, sp \in SpInputs :
             Update(d, cmdIn, mobIn, gates, traj, sp, 0)
  BY DEF Next
<1>2. /\ d \in Nat /\ mobIn \in MobMsgs \cup {NoMsg}
      /\ traj \in BOOLEAN /\ sp \in Int \cup {NaN} /\ 0 \in Int
  BY ConstantsAssumption, InputsAssumption
<1>3. IInv' /\ StagedCall(d, sp)
  BY <1>1, <1>2, UpdateIInv
<1> QED
  BY <1>2, <1>3

(* A fault lasts, and holds the pose, until the reset counter changes.     *)
THEOREM FaultCorrectness == Spec => FaultIsLatched
<1>1. IInv /\ [Next]_vars =>
        [mgr.state = "FAULT_HOLD" /\ lastReset' = lastReset
           => mgr'.state = "FAULT_HOLD" /\ posOut' = mgr.base]_vars
  <2> SUFFICES ASSUME IInv, Next, mgr.state = "FAULT_HOLD", lastReset' = lastReset
               PROVE  mgr'.state = "FAULT_HOLD" /\ posOut' = mgr.base
    OBVIOUS
  <2>0. PICK d \in 1..MaxGap, sp \in Int \cup {NaN} : StagedCall(d, sp)
    BY NextStaged
  <2>1. PICK e, r, b, f \in BOOLEAN, t \in Nat, ok \in BOOLEAN, dq \in Int :
          Staged(d, sp, e, r, b, f, t, ok, dq)
    BY <2>0 DEF StagedCall
  <2> DEFINE m0 == [mgr EXCEPT !.since = OlderSince(@, d)]
             request == cmd'.enable /\ cmdAge' <= CmdTo
             m1 == Decide(m0, e, r, request, b, ctc'.on, sp)
             m2 == MobStep(m1, f, t, ok, dq, sp)
  <2>2. /\ mgr' = HandoverStep(m2, ok, dq, sp) /\ e = FALSE
        /\ mgr'.hold => posOut' = mgr'.base + mgr'.offset
    BY <2>1 DEF Staged
  <2>3. mgr \in MgrType /\ mgr.hold /\ mgr.offset = 0
    BY DEF IInv, TypeOK, OwnershipMatchesState, QuietUnlessEngaged, Owning, Driving
  <2>4. m0.state = "FAULT_HOLD" /\ m0.base = mgr.base /\ m0.hold /\ m0.offset = 0
    BY <2>3 DEF MgrType
  <2> HIDE DEF m0, request
  <2>5. m1 = m0
    <3>1. Reset(m0, e, sp) = m0 /\ TrajectoryRelease(m0, r, request) = m0
      BY <2>2, <2>4 DEF Reset, TrajectoryRelease
    <3>2. Retract(m0, request, b, ctc'.on) = m0
      BY <2>4 DEF Retract
    <3>3. Advance(m0, request, b, ctc'.on, sp) = m0
      BY <2>4 DEF Advance
    <3> QED
      BY <3>1, <3>2, <3>3 DEF Decide
  <2> HIDE DEF m1
  <2>6. m2 = m1
    BY <2>4, <2>5 DEF MobStep, StepsOnSample
  <2> HIDE DEF m2
  <2>7. mgr' = m0
    BY <2>2, <2>4, <2>5, <2>6 DEF HandoverStep
  <2>8. mgr.base \in Int
    BY <2>3 DEF MgrType
  <2> QED
    BY <2>2, <2>4, <2>7, <2>8
<1> QED
  BY <1>1, Invariance, PTL DEF Spec, FaultIsLatched

(* Ages that can still grow do.                                            *)
LEMMA SinceGrows ==
  ASSUME NEW a \in Ages \cup {Ahead}, a <= HoT, NEW d \in 1..MaxGap
  PROVE  OlderSince(a, d) > a
  BY ConstantsAssumption DEF OlderSince, Older, Ages, Ahead

(* The deceleration step does not begin it anew.                           *)
LEMMA StepsKeepSince ==
  ASSUME NEW m, Good(m), NEW sp \in Int \cup {NaN},
         NEW coreOk \in BOOLEAN, NEW dq \in Int,
         m.state \in {"DISABLED_HOLD", "HANDOVER_DECEL", "FAULT_HOLD"}
  PROVE  LET r == HandoverStep(m, coreOk, dq, sp)
         IN  /\ r.state \in {"DISABLED_HOLD", "HANDOVER_DECEL", "FAULT_HOLD"}
             /\ r.state = "HANDOVER_DECEL" =>
                  m.state = "HANDOVER_DECEL" /\ r.since = m.since
<1> DEFINE r == HandoverStep(m, coreOk, dq, sp)
           next == integrate(m, dq, 1)
<1>2. next \in MgrType /\ next.state = m.state /\ next.since = m.since
  BY IntegrateType DEF Good
<1>3. atomicRebase(next).state = "DISABLED_HOLD"
  BY <1>2, HelpersGood
<1>4. severeFault(m, sp).state = "FAULT_HOLD"
  BY HelpersGood DEF Good
<1>5. r = m \/ r = severeFault(m, sp) \/ r = atomicRebase(next) \/ r = next
  BY DEF HandoverStep
<1>6. m.state # "HANDOVER_DECEL" => r = m
  BY DEF HandoverStep
<1> HIDE DEF r, next
<1>7. /\ r.state \in {"DISABLED_HOLD", "HANDOVER_DECEL", "FAULT_HOLD"}
      /\ r.state = "HANDOVER_DECEL" => m.state = "HANDOVER_DECEL" /\ r.since = m.since
  BY <1>2, <1>3, <1>4, <1>5, <1>6
<1> QED
  BY <1>7 DEF r

(* Off, the manager lets go at once or decelerates, and never begins anew. *)
THEOREM ReleaseCorrectness == Spec => ReleasesOnTime
<1>1. IInv /\ [Next]_vars =>
        [~(cmd.enable /\ cmdAge <= CmdTo)' =>
           \/ ~mgr'.hold \/ mgr'.state = "FAULT_HOLD"
           \/ /\ mgr'.state = "HANDOVER_DECEL"
              /\ mgr.state = "HANDOVER_DECEL" => mgr'.since > mgr.since]_vars
  <2> SUFFICES ASSUME IInv, Next, ~(cmd'.enable /\ cmdAge' <= CmdTo)
               PROVE  \/ ~mgr'.hold \/ mgr'.state = "FAULT_HOLD"
                      \/ /\ mgr'.state = "HANDOVER_DECEL"
                         /\ mgr.state = "HANDOVER_DECEL" => mgr'.since > mgr.since
    OBVIOUS
  <2>0. PICK d \in 1..MaxGap, sp \in Int \cup {NaN} : StagedCall(d, sp)
    BY NextStaged
  <2>1. PICK e, r, b, f \in BOOLEAN, t \in Nat, ok \in BOOLEAN, dq \in Int :
          Staged(d, sp, e, r, b, f, t, ok, dq)
    BY <2>0 DEF StagedCall
  <2> DEFINE m0 == [mgr EXCEPT !.since = OlderSince(@, d)]
             request == cmd'.enable /\ cmdAge' <= CmdTo
             on == ctc'.on
             m1 == Decide(m0, e, r, request, b, on, sp)
             m2 == MobStep(m1, f, t, ok, dq, sp)
  <2>2. /\ mgr' = HandoverStep(m2, ok, dq, sp) /\ (b => request)
        /\ Good(m0) /\ Good(m1) /\ on \in BOOLEAN
    BY <2>1 DEF Staged
  <2>3. /\ m0.state = mgr.state /\ m0.since = OlderSince(mgr.since, d)
        /\ mgr.since \in Ages \cup {Ahead} /\ mgr.hold \in BOOLEAN
    BY DEF IInv, TypeOK, MgrType
  <2>4. mgr.state = "HANDOVER_DECEL" => m0.since > mgr.since
    BY <2>3, SinceGrows DEF IInv, HandoverBounded
  <2>5. request \in BOOLEAN /\ ~request /\ ~b
    BY <2>2
  <2> HIDE DEF m0, request, on
  <2>6. /\ m1.state \in {"DISABLED_HOLD", "HANDOVER_DECEL", "FAULT_HOLD"}
        /\ m0.state = "HANDOVER_DECEL" => m1 = m0
    <3> DEFINE s1 == Reset(m0, e, sp)
               s2 == TrajectoryRelease(s1, r, request)
               s3 == Retract(s2, request, b, on)
    <3>1. Good(s1) /\ (m0.state = "HANDOVER_DECEL" => s1 = m0)
      BY <2>2, HelpersGood DEF Reset, Good
    <3> HIDE DEF s1
    <3>2. s2 = s1
      <4>1. ~(s1.hold /\ s1.state = "DISABLED_HOLD")
        BY <3>1 DEF Good, Owning
      <4> QED
        BY <4>1 DEF TrajectoryRelease
    <3>3. s2.state \in States /\ s2 \in MgrType
      BY <3>1, <3>2 DEF Good, MgrType
    <3> HIDE DEF s2
    <3>4. /\ s3.state \in {"DISABLED_HOLD", "HANDOVER_DECEL", "FAULT_HOLD"}
          /\ s2.state = "HANDOVER_DECEL" => s3 = s2
      <4>1. CASE s2.state \in {"WAIT_VALID", "WAIT_CONTACT"}
        BY <2>5, <3>3, <4>1 DEF Retract, releaseOwnership, MgrType
      <4>2. CASE s2.state \in {"ACTIVE", "BLEND_IN"}
        BY <2>5, <3>3, <4>2 DEF Retract, startHandover, MgrType
      <4>3. CASE s2.state \in {"DISABLED_HOLD", "HANDOVER_DECEL", "FAULT_HOLD"}
        BY <4>3 DEF Retract
      <4> QED
        BY <3>3, <4>1, <4>2, <4>3 DEF States
    <3> HIDE DEF s3
    <3>5. Advance(s3, request, b, on, sp) = s3
      BY <2>5, <3>4 DEF Advance
    <3>6. m1 = s3
      BY <3>5 DEF Decide, s1, s2, s3
    <3> HIDE DEF m1
    <3> QED
      BY <3>1, <3>2, <3>4, <3>6
  <2> HIDE DEF m1
  <2>7. /\ m2 = m1
        /\ mgr'.state \in {"DISABLED_HOLD", "HANDOVER_DECEL", "FAULT_HOLD"}
        /\ mgr'.state = "HANDOVER_DECEL" =>
             m1.state = "HANDOVER_DECEL" /\ mgr'.since = m1.since
    <3>1. Good(m1) /\ mgr' = HandoverStep(m2, ok, dq, sp)
      BY <2>2
    <3>2. m2 = m1
      BY <2>6 DEF MobStep, StepsOnSample
    <3> HIDE DEF m2
    <3> QED
      BY <2>6, <3>1, <3>2, StepsKeepSince
  <2>8. mgr'.state = "DISABLED_HOLD" => ~mgr'.hold
    BY NextStaged DEF IInv, OwnershipMatchesState, Owning
  <2> QED
    BY <2>3, <2>4, <2>6, <2>7, <2>8
<1> QED
  BY <1>1, Invariance, PTL DEF Spec, ReleasesOnTime

(* A product of a clamped velocity and a bounded step is bounded.          *)
LEMMA BoundedProduct ==
  ASSUME NEW V \in Nat, NEW D \in Nat, NEW v \in -V .. V, NEW dt \in 0 .. D
  PROVE  v * dt \in Int /\ v * dt <= V * D /\ -(V * D) <= v * dt
<1>1. v \in Int /\ v <= V /\ -V <= v /\ dt \in Int /\ 0 <= dt /\ dt <= D
  OBVIOUS
<1>2. V * dt <= V * D
  <2>1. V * (D - dt) >= 0
    BY <1>1
  <2>2. V * (D - dt) = V * D - V * dt
    BY <1>1
  <2>3. V * dt \in Int /\ V * D \in Int
    BY <1>1
  <2> QED
    BY <2>1, <2>2, <2>3
<1>3. v * dt <= V * dt
  <2>1. (V - v) * dt >= 0
    BY <1>1
  <2>2. (V - v) * dt = V * dt - v * dt
    BY <1>1
  <2>3. V * dt \in Int /\ v * dt \in Int
    BY <1>1
  <2> QED
    BY <2>1, <2>2, <2>3
<1>4. -(V * dt) <= v * dt
  <2>1. (V + v) * dt >= 0
    BY <1>1
  <2>2. (V + v) * dt = V * dt + v * dt
    BY <1>1
  <2>3. V * dt \in Int /\ v * dt \in Int
    BY <1>1
  <2> QED
    BY <2>1, <2>2, <2>3
<1>5. V * dt \in Int /\ V * D \in Int /\ v * dt \in Int
  BY <1>1
<1> QED
  BY <1>2, <1>3, <1>4, <1>5

(* One integration moves the offset by at most a velocity-limited step and *)
(* leaves the base alone.                                                  *)
LEMMA IntegrateMoves ==
  ASSUME NEW m \in MgrType, NEW dq \in Int, NEW dt \in 0..DtMax
  PROVE  LET r == integrate(m, dq, dt)
         IN  /\ r.base = m.base
             /\ r.offset \in m.offset - VMax * DtMax .. m.offset + VMax * DtMax
<1> DEFINE v == Clamp(dq, VMax)
           step == VMax * DtMax
           next == m.offset + v * dt
           c == Clamp(next, PMax)
<1>1. /\ VMax \in Nat /\ DtMax \in Nat /\ PMax \in Nat /\ m.offset \in -PMax .. PMax
  BY ConstantsAssumption DEF MgrType
<1>2. v \in -VMax .. VMax
  BY <1>1, ClampInLimits
<1> HIDE DEF v
<1>3. v * dt \in Int /\ v * dt <= step /\ -step <= v * dt /\ step \in Nat
  BY <1>1, <1>2, BoundedProduct
<1> HIDE DEF step
<1>4. next \in Int /\ next <= m.offset + step /\ m.offset - step <= next
  BY <1>1, <1>3
<1> HIDE DEF next
<1>5. c \in m.offset - step .. m.offset + step
  BY <1>1, <1>3, <1>4 DEF Clamp
<1>6. integrate(m, dq, dt).base = m.base /\ integrate(m, dq, dt).offset = c
  BY DEF integrate, MgrType, v, next
<1> QED
  BY <1>5, <1>6 DEF step

(* While the manager owns the setpoint it writes base plus offset.         *)
Written == mgr.hold => posOut = mgr.base + mgr.offset

LEMMA WritesOwned == Spec => []Written
<1>1. Init => Written
  BY DEF Init, Written
<1>2. IInv /\ Written /\ [Next]_vars => Written'
  <2> SUFFICES ASSUME IInv, Written, [Next]_vars PROVE Written'
    OBVIOUS
  <2>1. CASE Next
    <3>1. PICK d \in 1..MaxGap, sp \in Int \cup {NaN} : StagedCall(d, sp)
      BY <2>1, NextStaged
    <3> QED
      BY <3>1 DEF StagedCall, Staged, Written
  <2>2. CASE UNCHANGED vars
    BY <2>2 DEF vars, Written
  <2> QED BY <2>1, <2>2
<1> QED
  BY <1>1, <1>2, Invariance, PTL DEF Spec

(* From a good record each integration step either gives the setpoint up,  *)
(* faults, or moves it by at most a velocity-limited step.                 *)
LEMMA StepsContinuous ==
  ASSUME NEW m, Good(m), NEW sp \in Int \cup {NaN}, NEW fresh \in BOOLEAN,
         NEW dt \in Nat, NEW coreOk \in BOOLEAN, NEW dq \in Int
  PROVE  LET n == MobStep(m, fresh, dt, coreOk, dq, sp)
             r == HandoverStep(n, coreOk, dq, sp)
         IN  \/ r.state = "FAULT_HOLD" \/ ~r.hold
             \/ /\ r.base = m.base
                /\ r.offset \in m.offset - VMax * DtMax .. m.offset + VMax * DtMax
<1> DEFINE n == MobStep(m, fresh, dt, coreOk, dq, sp)
           r == HandoverStep(n, coreOk, dq, sp)
           step == VMax * DtMax
           blend == [m EXCEPT !.state = IF Blended(m) THEN "ACTIVE" ELSE @]
           decel == integrate(m, dq, 1)
<1>1. m \in MgrType /\ m.offset \in Int /\ step \in Nat /\ 1 \in 0..DtMax
  BY ConstantsAssumption DEF Good, MgrType
<1>2. CASE m.state \in Driving
  <2>1. /\ blend \in MgrType /\ blend.base = m.base /\ blend.offset = m.offset
        /\ blend.state \in Driving
    BY <1>1, <1>2 DEF MgrType, States, Driving
  <2>2. \/ n = m
        \/ n = severeFault(blend, sp)
        \/ dt \in 0..DtMax /\ n = integrate(blend, dq, dt)
    BY ConstantsAssumption DEF MobStep
  <2> HIDE DEF blend
  <2>3. severeFault(blend, sp).state = "FAULT_HOLD"
    BY <2>1, HelpersGood
  <2>4. integrate(blend, dq, dt).state \in Driving
    BY <2>1, IntegrateType
  <2>5. n.state # "HANDOVER_DECEL"
    BY <1>2, <2>2, <2>3, <2>4 DEF Driving
  <2>6. r = n
    BY <2>5 DEF HandoverStep
  <2>7. dt \in 0..DtMax => /\ integrate(blend, dq, dt).base = m.base
                           /\ integrate(blend, dq, dt).offset \in m.offset - step .. m.offset + step
    BY <2>1, IntegrateMoves
  <2> HIDE DEF n, r, step
  <2>8. \/ r.state = "FAULT_HOLD"
        \/ r.base = m.base /\ r.offset \in m.offset - step .. m.offset + step
    BY <1>1, <2>2, <2>3, <2>6, <2>7
  <2> QED
    BY <2>8 DEF n, r, step
<1>3. CASE m.state \notin Driving
  <2>1. n = m
    BY <1>3 DEF MobStep, StepsOnSample, Driving
  <2> HIDE DEF n
  <2>2. r = m \/ r = severeFault(m, sp) \/ r = atomicRebase(decel) \/ r = decel
    BY <2>1 DEF HandoverStep
  <2>3. decel \in MgrType
    BY <1>1, IntegrateType
  <2>4. decel.base = m.base /\ decel.offset \in m.offset - step .. m.offset + step
    BY <1>1, IntegrateMoves
  <2> HIDE DEF decel, step
  <2>5. ~atomicRebase(decel).hold
    BY <2>3 DEF atomicRebase, releaseOwnership, MgrType
  <2>6. severeFault(m, sp).state = "FAULT_HOLD"
    BY <1>1, HelpersGood
  <2> HIDE DEF r
  <2>7. \/ r.state = "FAULT_HOLD" \/ ~r.hold
        \/ r.base = m.base /\ r.offset \in m.offset - step .. m.offset + step
    BY <1>1, <2>2, <2>4, <2>5, <2>6
  <2> QED
    BY <2>7 DEF n, r, step
<1> QED
  BY <1>2, <1>3

(* The effective position is continuous while the manager owns it.         *)
THEOREM ContinuityCorrectness == Spec => OwnedOutputContinuous
<1>1. IInv /\ Written /\ Written' /\ [Next]_vars =>
        [mgr.hold /\ mgr'.hold /\ mgr'.state # "FAULT_HOLD" /\ lastReset' = lastReset
           => Abs(posOut' - posOut) <= VMax * DtMax]_vars
  <2> SUFFICES ASSUME IInv, Written, Written', Next, mgr.hold, mgr'.hold,
                      mgr'.state # "FAULT_HOLD", lastReset' = lastReset
               PROVE  Abs(posOut' - posOut) <= VMax * DtMax
    OBVIOUS
  <2>0. PICK d \in 1..MaxGap, sp \in Int \cup {NaN} : StagedCall(d, sp)
    BY NextStaged
  <2>1. PICK e, r, b, f \in BOOLEAN, t \in Nat, ok \in BOOLEAN, dq \in Int :
          Staged(d, sp, e, r, b, f, t, ok, dq)
    BY <2>0 DEF StagedCall
  <2> DEFINE m0 == [mgr EXCEPT !.since = OlderSince(@, d)]
             request == cmd'.enable /\ cmdAge' <= CmdTo
             on == ctc'.on
             m1 == Decide(m0, e, r, request, b, on, sp)
             m2 == MobStep(m1, f, t, ok, dq, sp)
             step == VMax * DtMax
  <2>2. /\ mgr' = HandoverStep(m2, ok, dq, sp) /\ e = FALSE /\ (b => request)
        /\ Good(m0) /\ Good(m1)
    BY <2>1 DEF Staged
  <2>3. /\ m0.base = mgr.base /\ m0.offset = mgr.offset /\ m0.hold
        /\ m0 \in MgrType /\ m0.state \in Owning
        /\ mgr.base \in Int /\ mgr.offset \in Int
    BY <2>2, ConstantsAssumption DEF IInv, TypeOK, MgrType, Good
  <2> HIDE DEF m0, request, on
  <2>4. ~m1.hold \/ (m1.base = m0.base /\ m1.offset = m0.offset)
    <3> DEFINE s3 == Retract(m0, request, b, on)
    <3>1. Reset(m0, e, sp) = m0
      BY <2>2 DEF Reset
    <3>2. TrajectoryRelease(m0, r, request) = m0
      BY <2>3 DEF TrajectoryRelease, Owning
    <3>3. m1 = Advance(s3, request, b, on, sp)
      BY <3>1, <3>2 DEF Decide
    <3>4. CASE m0.state = "WAIT_CONTACT"
      <4>1. CASE ~request
        <5>1. s3.state = "DISABLED_HOLD" /\ ~s3.hold
          BY <2>3, <3>4, <4>1 DEF Retract, releaseOwnership, MgrType
        <5> HIDE DEF s3
        <5>2. m1 = s3
          BY <3>3, <4>1, <5>1 DEF Advance
        <5> QED
          BY <5>1, <5>2
      <4>2. CASE request
        <5>1. s3 = m0
          BY <3>4, <4>2 DEF Retract
        <5> HIDE DEF s3, m1
        <5>2. \/ m1 = [releaseOwnership(m0) EXCEPT !.state = "WAIT_VALID"]
              \/ m1 = [m0 EXCEPT !.state = "BLEND_IN", !.since = 0]
              \/ m1 = m0
          BY <3>3, <3>4, <5>1 DEF Advance
        <5> QED
          BY <2>3, <5>2 DEF releaseOwnership, MgrType
      <4> QED
        BY <4>1, <4>2
    <3>5. CASE m0.state \in Owning \ {"WAIT_CONTACT"}
      <4>1. s3 = m0 \/ s3 = startHandover(m0)
        BY <3>5 DEF Retract, Owning
      <4>2. /\ s3.state \in Owning \ {"WAIT_CONTACT"}
            /\ s3.base = m0.base /\ s3.offset = m0.offset
        BY <2>3, <3>5, <4>1 DEF startHandover, MgrType, Owning
      <4> HIDE DEF s3
      <4>3. m1 = s3
        BY <3>3, <4>2 DEF Advance, Owning
      <4> QED
        BY <4>2, <4>3
    <3> QED
      BY <2>3, <3>4, <3>5
  <2>5. m1.hold
    <3> HIDE DEF m1
    <3>1. SUFFICES ASSUME ~m1.hold PROVE FALSE
      OBVIOUS
    <3>2. m1.state \notin Owning
      BY <2>2, <3>1 DEF Good
    <3>3. m2 = m1
      BY <3>2 DEF MobStep, StepsOnSample, Owning
    <3> HIDE DEF m2
    <3>4. mgr' = m1
      BY <2>2, <3>2, <3>3 DEF HandoverStep, Owning
    <3> QED
      BY <3>1, <3>4
  <2> HIDE DEF m1
  <2>6. mgr'.base = m1.base /\ mgr'.offset \in m1.offset - step .. m1.offset + step
    BY <2>2, StepsContinuous
  <2>7. step \in Nat
    BY ConstantsAssumption
  <2> HIDE DEF step
  <2>8. posOut' = mgr.base + mgr'.offset /\ posOut = mgr.base + mgr.offset
    BY <2>3, <2>4, <2>5, <2>6 DEF Written
  <2>9. mgr'.offset \in mgr.offset - step .. mgr.offset + step
    BY <2>3, <2>4, <2>5, <2>6
  <2>10. Abs(posOut' - posOut) <= step
    BY <2>3, <2>7, <2>8, <2>9 DEF Abs
  <2> QED
    BY <2>10 DEF step
<1> QED
  BY <1>1, Invariance, WritesOwned, PTL DEF Spec, OwnedOutputContinuous
==============================================================================
