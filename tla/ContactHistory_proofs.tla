------------------------ MODULE ContactHistory_proofs ------------------------
(***************************************************************************)
(* The position-control loop around the admittance manager, for every      *)
(* value of the parameters and every time between two cycles.              *)
(***************************************************************************)
EXTENDS ContactHistory, Admittance_proofs

(***************************************************************************)
(* DisarmedStandsStill is not inductive by itself: that a disarmed call    *)
(* leaves no velocity behind rests on the manager's own invariant, by      *)
(* which every owning state other than BLEND_IN, ACTIVE and                *)
(* HANDOVER_DECEL is at rest.                                              *)
(***************************************************************************)
PInv == IInv /\ DisarmedStandsStill

LEMMA RunPInv ==
  ASSUME PInv,
         NEW d \in 1..MaxGap, NEW isArmed \in BOOLEAN,
         NEW isArmOnly \in BOOLEAN,
         NEW velIn \in VelInputs \cup {NoMsg},
         NEW cmdIn \in Commands \cup {NoMsg},
         NEW mobIn \in MobInputs \cup {NoMsg}, NEW gates \in GateInputs,
         NEW traj \in TrajInputs, NEW sp \in SpInputs,
         Run(d, isArmed, isArmOnly, velIn, cmdIn, mobIn, gates, traj, sp)
  PROVE  PInv'
<1> DEFINE vel == Feedforward(isArmed, velIn)
<1>0. TypeOK /\ IInv
  BY DEF PInv, IInv
<1>a. vel \in Int /\ (~isArmed => vel = 0)
  BY <1>0, VelInputsAssumption DEF Feedforward, TypeOK
<1>b. ~isArmed /\ isArmOnly => gates # Gates
  BY DEF Run, Gates
<1>c. /\ d \in Nat /\ mobIn \in MobMsgs \cup {NoMsg} /\ traj \in BOOLEAN
      /\ sp \in Int \cup {NaN}
  BY ConstantsAssumption, InputsAssumption
<1>1. Update(d, cmdIn, mobIn, gates, traj, sp, vel)
  BY DEF Run
<1> HIDE DEF vel
<1>2. IInv' /\ (mgr'.state \in Driving => gates = Gates)
  BY <1>0, <1>1, <1>a, <1>c, UpdateIInv
<1>3. armed' = isArmed /\ armOnly' = isArmOnly
  BY DEF Run
<1>4. velOut' = IF mgr'.hold THEN applyEffectiveVel(mgr') ELSE vel
  BY <1>1 DEF Update
<1>5. ASSUME ~isArmed, mgr'.state # "HANDOVER_DECEL",
             isArmOnly \/ mgr'.state \notin Driving
      PROVE  velOut' = 0
  <2>1. mgr'.state \notin Driving
    BY <1>b, <1>2, <1>5
  <2>2. mgr'.vel = 0
    BY <1>2, <1>5, <2>1 DEF IInv, QuietUnlessEngaged
  <2>3. applyEffectiveVel(mgr') = 0
    BY <2>2 DEF applyEffectiveVel
  <2> QED BY <1>a, <1>4, <1>5, <2>3
<1> QED BY <1>2, <1>3, <1>5 DEF PInv, DisarmedStandsStill

(* What the manager guarantees (types, ownership, evidence, rest, bounded  *)
(* handover) also holds when the loop feeds it velocities of its own       *)
(* output, and a disarmed vehicle is at rest, in a handover, or driven on  *)
(* the bench with PADM_ARM_ONLY = 0.                                       *)
THEOREM LoopInvariance == PSpec => []PInv
<1>1. PInit => PInv
  BY InitIInv DEF PInit, PInv, DisarmedStandsStill, Init
<1>2. PInv /\ [PNext]_pvars => PInv'
  <2> SUFFICES ASSUME PInv, [PNext]_pvars PROVE PInv'
    OBVIOUS
  <2>1. CASE PNext
    <3>1. PICK d \in 1..MaxGap, isArmed \in BOOLEAN,
               isArmOnly \in BOOLEAN,
               velIn \in VelInputs \cup {NoMsg},
               cmdIn \in Commands \cup {NoMsg},
               mobIn \in MobInputs \cup {NoMsg},
               gates \in GateInputs, traj \in TrajInputs, sp \in SpInputs :
                 Run(d, isArmed, isArmOnly, velIn, cmdIn, mobIn, gates, traj, sp)
      BY <2>1 DEF PNext
    <3> QED BY <3>1, RunPInv
  <2>2. CASE UNCHANGED pvars
    BY <2>2
    DEF pvars, vars, PInv, DisarmedStandsStill, IInv, TypeOK,
        OwnershipMatchesState, QuietUnlessEngaged, DrivingNeedsEvidence,
        HandoverBounded
  <2> QED BY <2>1, <2>2
<1> QED BY <1>1, <1>2, PTL DEF PSpec

(* For every value of the parameters and every change of PADM_ARM_ONLY: a  *)
(* disarmed vehicle is fed no velocity, except the one of a handover,      *)
(* which HandoverBounded ends, and that of a session which PADM_ARM_ONLY = *)
(* 0 allows in the same cycle.  The member custom_command_velocity cannot  *)
(* carry the admittance velocity past disarming, nor past the bench        *)
(* setting.                                                                *)
THEOREM DisarmedCorrectness == PSpec => []DisarmedStandsStill
  BY LoopInvariance, PTL DEF PInv
-----------------------------------------------------------------------------
(***************************************************************************)
(* The contact detector against the history of the wrench.  While contact  *)
(* is off, a running dwell timer is no older than the run of calls that    *)
(* saw the pressing wrench; while it is on, a running grace timer is no    *)
(* older than the run of calls that saw the released one.  A timer of the  *)
(* other phase may be stale: updateContact() leaves the dwell timer alone  *)
(* while contact lasts, and the grace timer when the wrench turns invalid. *)
(***************************************************************************)
DwellIsReal(c, p) == ~c.on /\ c.cand # Unset => p # Unset /\ c.cand <= p

GraceIsReal(c, r) == c.on /\ c.off # Unset => r # Unset /\ c.off <= r

HInv == /\ PInv
        /\ pressed \in Ages \cup {Unset} /\ released \in Ages \cup {Unset}
        /\ DwellIsReal(ctc, pressed)
        /\ GraceIsReal(ctc, released)

(* Ageing keeps the order of two ages.                                     *)
LEMMA OlderMonotone ==
  ASSUME NEW a \in Ages, NEW b \in Ages, a <= b, NEW d \in Nat
  PROVE  Older(a, d) <= Older(b, d)
  BY ConstantsAssumption DEF Ages, Older

(* A run of calls is an age, or Unset as soon as a call breaks it.         *)
LEMMA RunLengthType ==
  ASSUME NEW r \in Ages \cup {Unset}, NEW d \in Nat, NEW holds \in BOOLEAN
  PROVE  /\ RunLength(r, d, holds) \in Ages \cup {Unset}
         /\ holds => RunLength(r, d, holds) \in Ages
<1>1. 0 \in Ages
  BY ConstantsAssumption DEF Ages
<1> QED BY <1>1, AgesGrow DEF RunLength

(* A timer that is restarted when it was unset is no older than a run of   *)
(* calls that it was no older than.                                        *)
LEMMA TimerWithinRun ==
  ASSUME NEW t \in Ages \cup {Unset}, NEW r \in Ages \cup {Unset},
         NEW d \in Nat, t # Unset => r # Unset /\ t <= r
  PROVE  LET aged == OlderIfSet(t, d)
         IN  (IF aged = Unset THEN 0 ELSE aged) <= RunLength(r, d, TRUE)
<1>1. 0 \in Ages /\ Unset \notin Ages
  BY ConstantsAssumption DEF Ages, Unset
<1>2. RunLength(r, d, TRUE) \in Ages
  BY RunLengthType
<1>3. CASE t = Unset
  <2>1. OlderIfSet(t, d) = Unset
    BY <1>3 DEF OlderIfSet
  <2>2. \A x \in Ages : 0 <= x
    BY ConstantsAssumption DEF Ages
  <2>3. 0 <= RunLength(r, d, TRUE)
    BY <1>2, <2>2, Zenon
  <2> QED BY <2>1, <2>3
<1>4. CASE t # Unset
  <2>1. t \in Ages /\ r \in Ages /\ t <= r
    BY <1>4
  <2>2. OlderIfSet(t, d) = Older(t, d) /\ RunLength(r, d, TRUE) = Older(r, d)
    BY <1>1, <2>1 DEF OlderIfSet, RunLength
  <2>3. Older(t, d) <= Older(r, d) /\ Older(t, d) \in Ages
    BY <2>1, OlderMonotone, AgesGrow
  <2> QED BY <1>1, <2>2, <2>3
<1> QED BY <1>3, <1>4

(* What one call of the detector may do when it turns c into n and the     *)
(* runs of pressing and released calls that end in it are p and r.         *)
Allowed(c, n, valid, p, r) ==
  /\ ~c.on /\ n.on => p >= NOnT
  /\ c.on => /\ ~valid => ~n.on
             /\ valid /\ ~n.on => r >= NOffT

Detected(c, d, valid, level) ==
  updateContact([c EXCEPT !.cand = OlderIfSet(@, d), !.off = OlderIfSet(@, d)],
                valid, level)

(* One call of the detector: what a running timer means is preserved, and  *)
(* contact changes only as the history allows.                             *)
LEMMA ContactStep ==
  ASSUME NEW c \in ContactType, NEW p \in Ages \cup {Unset},
         NEW r \in Ages \cup {Unset}, NEW d \in Nat,
         NEW valid \in BOOLEAN, NEW level \in 0..2,
         DwellIsReal(c, p), GraceIsReal(c, r),
         NEW n, n = Detected(c, d, valid, level),
         NEW p1, p1 = RunLength(p, d, valid /\ level = 2),
         NEW r1, r1 = RunLength(r, d, valid /\ level = 0)
  PROVE  /\ DwellIsReal(n, p1) /\ GraceIsReal(n, r1)
         /\ Allowed(c, n, valid, p1, r1)
<1> DEFINE aged == [c EXCEPT !.cand = OlderIfSet(@, d), !.off = OlderIfSet(@, d)]
           cand == IF aged.cand = Unset THEN 0 ELSE aged.cand
           off == IF aged.off = Unset THEN 0 ELSE aged.off
<1>0. 0 \in Ages /\ Unset \notin Ages /\ NOnT \in Nat /\ NOffT \in Nat
  BY ConstantsAssumption DEF Ages, Unset
<1>1. /\ aged \in ContactType /\ aged.on = c.on
      /\ aged.cand = OlderIfSet(c.cand, d) /\ aged.off = OlderIfSet(c.off, d)
  BY AgesGrow DEF ContactType
<1>2. cand \in Ages /\ off \in Ages
  BY <1>0, <1>1 DEF ContactType
<1>3. ASSUME ~c.on, valid, level = 2 PROVE p1 \in Ages /\ cand <= p1
  <2>1. p1 = RunLength(p, d, TRUE)
    BY <1>3
  <2>2. c.cand \in Ages \cup {Unset}
    BY DEF ContactType
  <2>3. c.cand # Unset => p # Unset /\ c.cand <= p
    BY <1>3 DEF DwellIsReal
  <2>4. (IF OlderIfSet(c.cand, d) = Unset THEN 0 ELSE OlderIfSet(c.cand, d))
          <= RunLength(p, d, TRUE)
    BY <2>2, <2>3, TimerWithinRun
  <2> QED BY <1>1, <2>1, <2>4, RunLengthType
<1>4. ASSUME c.on, valid, level = 0 PROVE r1 \in Ages /\ off <= r1
  <2>1. r1 = RunLength(r, d, TRUE)
    BY <1>4
  <2>2. c.off \in Ages \cup {Unset}
    BY DEF ContactType
  <2>3. c.off # Unset => r # Unset /\ c.off <= r
    BY <1>4 DEF GraceIsReal
  <2>4. (IF OlderIfSet(c.off, d) = Unset THEN 0 ELSE OlderIfSet(c.off, d))
          <= RunLength(r, d, TRUE)
    BY <2>2, <2>3, TimerWithinRun
  <2> QED BY <1>1, <2>1, <2>4, RunLengthType
<1>n. n = updateContact(aged, valid, level)
  BY DEF Detected
<1> HIDE DEF aged, cand, off
<1>5. CASE ~valid
  <2>1. n = [aged EXCEPT !.on = FALSE, !.cand = Unset]
    BY <1>n, <1>5 DEF updateContact
  <2>2. n.on = FALSE /\ n.cand = Unset
    BY <1>1, <2>1 DEF ContactType
  <2> QED BY <1>5, <2>2 DEF DwellIsReal, GraceIsReal, Allowed
<1>6. CASE valid /\ c.on /\ level > 0
  <2>1. n = [aged EXCEPT !.off = Unset]
    BY <1>n, <1>1, <1>6 DEF updateContact
  <2>2. n.on = c.on /\ n.off = Unset
    BY <1>1, <2>1 DEF ContactType
  <2> QED BY <1>6, <2>2 DEF DwellIsReal, GraceIsReal, Allowed
<1>7. CASE valid /\ ~c.on /\ level = 2
  <2>1. n = [on |-> cand >= NOnT, cand |-> cand, off |-> Unset]
    BY <1>n, <1>1, <1>7 DEF updateContact, cand
  <2>2. n.on = (cand >= NOnT) /\ n.cand = cand /\ n.off = Unset
    BY <2>1
  <2>3. p1 \in Ages /\ cand <= p1
    BY <1>3, <1>7
  <2>4. cand >= NOnT => p1 >= NOnT
    BY <1>0, <1>2, <2>3 DEF Ages
  <2> QED BY <1>0, <1>7, <2>2, <2>3, <2>4 DEF DwellIsReal, GraceIsReal, Allowed
<1>8. CASE valid /\ c.on /\ level = 0
  <2>1. n = [on |-> off < NOffT, cand |-> Unset, off |-> off]
    BY <1>n, <1>1, <1>8 DEF updateContact, off
  <2>2. n.on = (off < NOffT) /\ n.cand = Unset /\ n.off = off
    BY <2>1
  <2>3. r1 \in Ages /\ off <= r1
    BY <1>4, <1>8
  <2>4. ~(off < NOffT) => r1 >= NOffT
    BY <1>0, <1>2, <2>3 DEF Ages
  <2> QED BY <1>0, <1>8, <2>2, <2>3, <2>4 DEF DwellIsReal, GraceIsReal, Allowed
<1>9. CASE valid /\ ~c.on /\ level # 2
  <2>1. n = [aged EXCEPT !.cand = Unset]
    BY <1>n, <1>1, <1>9 DEF updateContact
  <2>2. n.on = c.on /\ n.cand = Unset
    BY <1>1, <2>1 DEF ContactType
  <2> QED BY <1>9, <2>2 DEF DwellIsReal, GraceIsReal, Allowed
<1> QED BY <1>5, <1>6, <1>7, <1>8, <1>9

ContactMoves == Allowed(ctc, ctc', Valid', pressed', released')

(* A cycle preserves the meaning of the timers and moves the contact only  *)
(* as the history allows.                                                  *)
LEMMA HRunHInv ==
  ASSUME HInv,
         NEW d \in 1..MaxGap, NEW isArmed \in BOOLEAN,
         NEW isArmOnly \in BOOLEAN,
         NEW velIn \in VelInputs \cup {NoMsg},
         NEW cmdIn \in Commands \cup {NoMsg},
         NEW mobIn \in MobInputs \cup {NoMsg}, NEW gates \in GateInputs,
         NEW traj \in TrajInputs, NEW sp \in SpInputs,
         HRun(d, isArmed, isArmOnly, velIn, cmdIn, mobIn, gates, traj, sp)
  PROVE  HInv' /\ ContactMoves
<1>1. /\ Run(d, isArmed, isArmOnly, velIn, cmdIn, mobIn, gates, traj, sp)
      /\ pressed' = RunLength(pressed, d, Valid' /\ mob'.level = 2)
      /\ released' = RunLength(released, d, Valid' /\ mob'.level = 0)
  BY DEF HRun
<1>2. PInv'
  BY <1>1, RunPInv DEF HInv
<1>3. TypeOK /\ TypeOK' /\ d \in Nat
  BY <1>2 DEF HInv, PInv, IInv
<1>4. ctc' = Detected(ctc, d, Valid', mob'.level)
  BY <1>1 DEF Run, Update, Valid, Detected
<1>5. /\ ctc \in ContactType /\ mob'.level \in 0..2 /\ Valid' \in BOOLEAN
  BY <1>3 DEF TypeOK, Wrench, Valid
<1>6. /\ pressed \in Ages \cup {Unset} /\ released \in Ages \cup {Unset}
      /\ DwellIsReal(ctc, pressed) /\ GraceIsReal(ctc, released)
  BY DEF HInv
<1>7. /\ DwellIsReal(ctc', pressed') /\ GraceIsReal(ctc', released')
      /\ ContactMoves
  <2>1. \A n, p1, r1 :
          /\ n = Detected(ctc, d, Valid', mob'.level)
          /\ p1 = RunLength(pressed, d, Valid' /\ mob'.level = 2)
          /\ r1 = RunLength(released, d, Valid' /\ mob'.level = 0)
          => /\ DwellIsReal(n, p1) /\ GraceIsReal(n, r1)
             /\ Allowed(ctc, n, Valid', p1, r1)
    BY <1>3, <1>5, <1>6, ContactStep, ZenonT(60)
  <2>2. Allowed(ctc, ctc', Valid', pressed', released')
        /\ DwellIsReal(ctc', pressed') /\ GraceIsReal(ctc', released')
    BY <1>1, <1>4, <2>1, Zenon
  <2> QED BY <2>2 DEF ContactMoves
<1>8. pressed' \in Ages \cup {Unset} /\ released' \in Ages \cup {Unset}
  BY <1>1, <1>3, <1>5, <1>6, RunLengthType
<1>9. HInv'
  BY <1>2, <1>7, <1>8 DEF HInv
<1> QED BY <1>7, <1>9

LEMMA StepHInv == HInv /\ HNext => HInv' /\ ContactMoves
<1> SUFFICES ASSUME HInv, HNext PROVE HInv' /\ ContactMoves
  OBVIOUS
<1>1. PICK d \in 1..MaxGap, isArmed \in BOOLEAN,
           isArmOnly \in BOOLEAN,
           velIn \in VelInputs \cup {NoMsg}, cmdIn \in Commands \cup {NoMsg},
           mobIn \in MobInputs \cup {NoMsg},
           gates \in GateInputs, traj \in TrajInputs, sp \in SpInputs :
             HRun(d, isArmed, isArmOnly, velIn, cmdIn, mobIn, gates, traj, sp)
  BY DEF HNext
<1> QED BY <1>1, HRunHInv

(* The invariant of the loop with its history.                             *)
THEOREM HistoryInvariance == HSpec => []HInv
<1>1. HInit => HInv
  <2> SUFFICES ASSUME HInit PROVE HInv
    OBVIOUS
  <2>1. PInv
    BY InitIInv DEF HInit, PInit, PInv, DisarmedStandsStill, Init
  <2>2. ctc = [on |-> FALSE, cand |-> Unset, off |-> Unset]
    BY DEF HInit, PInit, Init
  <2> QED BY <2>1, <2>2 DEF HInit, HInv, DwellIsReal, GraceIsReal
<1>2. HInv /\ [HNext]_hvars => HInv'
  <2>1. HInv /\ UNCHANGED hvars => HInv'
    BY DEF hvars, pvars, vars, HInv, DwellIsReal, GraceIsReal, PInv,
           DisarmedStandsStill, IInv, TypeOK, OwnershipMatchesState,
           QuietUnlessEngaged, DrivingNeedsEvidence, HandoverBounded
  <2> QED BY <2>1, StepHInv
<1> QED BY <1>1, <1>2, PTL DEF HSpec

(* updateContact() establishes contact only after PADM_N_ON_T of an        *)
(* uninterrupted pressing wrench, whatever invalid samples, losses and     *)
(* earlier contacts came before.                                           *)
THEOREM EarnedCorrectness == HSpec => ContactIsEarned
<1>1. HInv /\ [HNext]_hvars =>
        [~ctc.on /\ ctc'.on => pressed' >= NOnT]_hvars
  BY StepHInv DEF ContactMoves, Allowed
<1> QED BY <1>1, HistoryInvariance, PTL DEF HSpec, ContactIsEarned

(* updateContact() gives contact up at once under an invalid wrench, and   *)
(* under a valid one only after PADM_N_OFF_T without a flicker.            *)
THEOREM GraceCorrectness == HSpec => ContactGrace
<1>1. HInv /\ [HNext]_hvars =>
        [ctc.on => /\ ~Valid' => ~ctc'.on
                   /\ Valid' /\ ~ctc'.on => released' >= NOffT]_hvars
  BY StepHInv DEF ContactMoves, Allowed
<1> QED BY <1>1, HistoryInvariance, PTL DEF HSpec, ContactGrace
=============================================================================
