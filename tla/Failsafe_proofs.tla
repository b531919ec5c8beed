--------------------------- MODULE Failsafe_proofs ---------------------------
(***************************************************************************)
(* Proofs about the failsafe state machine, for any number of table        *)
(* entries, callers and options.                                           *)
(***************************************************************************)
EXTENDS Failsafe, WellFoundedInduction, TLAPS
-----------------------------------------------------------------------------
(* A set of natural numbers that is not empty has a least element.         *)
LEMMA LeastNatural ==
  ASSUME NEW S \in SUBSET Nat, S # {}
  PROVE  \E x \in S : \A y \in S : x <= y
<1> DEFINE R == {ss \in Nat \X Nat : ss[1] < ss[2]}
<1>1. IsWellFoundedOn(R, Nat)
  BY NatLessThanWellFounded DEF OpToRel
<1>2. \E x \in S : \A y \in S : ~(<<y, x>> \in R)
  <2> HIDE DEF R
  <2>1. QED
    BY <1>1, WFMin
<1>3. PICK x \in S : \A y \in S : ~(<<y, x>> \in R)
  BY <1>2
<1>4. ASSUME NEW y \in S
      PROVE  x <= y
  <2>1. x \in Nat /\ y \in Nat
    OBVIOUS
  <2>2. y < x => <<y, x>> \in R
    BY <2>1
  <2>3. QED
    BY <1>3, <2>1, <2>2
<1>5. QED
  BY <1>4

LEMMA MinFacts ==
  ASSUME NEW S \in SUBSET Nat, S # {}
  PROVE  Min(S) \in S /\ \A y \in S : Min(S) <= y
BY LeastNatural DEF Min

(* A bounded one has a greatest.                                           *)
LEMMA MaxFacts ==
  ASSUME NEW n \in Nat, NEW S \in SUBSET (0..n), S # {}
  PROVE  Max(S) \in S /\ \A y \in S : Max(S) >= y
<1> DEFINE T == {n - x : x \in S}
<1>1. T \subseteq Nat
  OBVIOUS
<1>2. T # {}
  <2>1. PICK x \in S : TRUE
    OBVIOUS
  <2>2. n - x \in T
    BY <2>1
  <2>3. QED
    BY <2>2
<1>3. PICK t \in T : \A u \in T : t <= u
  <2> HIDE DEF T
  <2>1. QED
    BY <1>1, <1>2, LeastNatural
<1>4. PICK x \in S : t = n - x
  BY <1>3
<1>5. \A y \in S : x >= y
  BY <1>3, <1>4
<1>6. QED
  BY <1>5 DEF Max

LEMMA Max2 ==
  ASSUME NEW a \in Int, NEW b \in Int
  PROVE  Max({a, b}) = IF a >= b THEN a ELSE b
BY DEF Max

LEMMA Min2 ==
  ASSUME NEW a \in Int, NEW b \in Int
  PROVE  Min({a, b}) = IF a <= b THEN a ELSE b
BY DEF Min
-----------------------------------------------------------------------------
(* What the operations on the table return.                                *)
LEMMA InvalidType == Invalid \in Entry /\ ~Valid(Invalid)
BY DEF Invalid, NoOption, Entry, Option, Valid, NoCaller, CallerIds, Actions,
       ClearConditions, None, Terminate, Always, Never, AutoTakeover

LEMMA CallerFacts ==
  /\ Fallback \in CallerIds /\ Callers \subseteq CallerIds
  /\ \A c \in CallerIds : c # NoCaller /\ c \in Nat /\ c <= Fallback
  /\ \A c \in Callers : c # Fallback /\ c + 1 \in CallerIds
  /\ Fallback # NoCaller /\ Fallback \in Nat /\ NumCallers \in Nat
BY FailsafeConstants DEF CallerIds, Callers, Fallback, NoCaller

LEMMA removeActionsType ==
  ASSUME NEW t \in [Slots -> Entry], NEW K
  PROVE  removeActions(t, K) \in [Slots -> Entry]
BY InvalidType DEF removeActions

LEMMA TakeoverOfType ==
  ASSUME NEW o \in Option
  PROVE  TakeoverOf(o) \in Always..Never
BY DEF TakeoverOf, Option, Always, Never, AutoTakeover, AlwaysModeSwitchOnly

(* The entry that Failed() writes.                                         *)
NewEntry(c, o) ==
  [id |-> c, opt |-> [o EXCEPT !.takeover = TakeoverOf(o)], failure |-> TRUE, activated |-> TRUE]

LEMMA NewEntryFacts ==
  ASSUME NEW c \in CallerIds, NEW o \in Option
  PROVE  /\ NewEntry(c, o) \in Entry
         /\ NewEntry(c, o).id = c /\ NewEntry(c, o).activated
         /\ NewEntry(c, o).opt.action = o.action
         /\ NewEntry(c, o).opt.deferrable = o.deferrable
BY TakeoverOfType DEF NewEntry, Entry, Option

(* The entry it leaves when there is one already.                          *)
Updated(e, o) == [e EXCEPT !.opt.action = o.action, !.failure = TRUE, !.activated = TRUE]

LEMMA UpdatedFacts ==
  ASSUME NEW e \in Entry, NEW o \in Option
  PROVE  /\ Updated(e, o) \in Entry
         /\ Updated(e, o).id = e.id /\ Updated(e, o).activated
         /\ Updated(e, o).opt.action = o.action
         /\ Updated(e, o).opt.clear = e.opt.clear
         /\ Updated(e, o).opt.deferrable = e.opt.deferrable
BY DEF Updated, Entry, Option

LEMMA CandidateFacts ==
  ASSUME NEW t \in [Slots -> Entry], NEW o \in Option, Candidates(t, o) # {}
  PROVE  /\ Max(Candidates(t, o)) \in Slots
         /\ LET e == t[Max(Candidates(t, o))]
            IN  ~Valid(e) \/ o.action > e.opt.action
<1>1. Candidates(t, o) \in SUBSET (0..NumActions)
  BY FailsafeConstants DEF Candidates, Slots
<1>2. Max(Candidates(t, o)) \in Candidates(t, o)
  BY <1>1, MaxFacts, FailsafeConstants
<1>3. QED
  BY <1>2 DEF Candidates

(* Every entry after Failed() is the one before, the one before updated,   *)
(* or the new one; the new one is written at most once.                    *)
LEMMA FailedFacts ==
  ASSUME NEW t \in [Slots -> Entry], NEW c \in CallerIds, NEW o \in Option
  PROVE  /\ Failed(t, c, o) \in [Slots -> Entry]
         /\ HasEntry(t, c) =>
              \A i \in Slots : Failed(t, c, o)[i] = IF t[i].id = c THEN Updated(t[i], o) ELSE t[i]
         /\ ~HasEntry(t, c) /\ Candidates(t, o) # {} =>
              \A i \in Slots : Failed(t, c, o)[i] =
                IF i = Max(Candidates(t, o)) THEN NewEntry(c, o) ELSE t[i]
         /\ ~HasEntry(t, c) /\ Candidates(t, o) = {} => Failed(t, c, o) = t
<1>1. CASE HasEntry(t, c)
  <2>1. Failed(t, c, o) = [i \in Slots |-> IF t[i].id = c THEN Updated(t[i], o) ELSE t[i]]
    BY <1>1 DEF Failed, Updated
  <2>2. \A i \in Slots : Updated(t[i], o) \in Entry
    BY UpdatedFacts
  <2>3. QED
    BY <1>1, <2>1, <2>2
<1>2. CASE ~HasEntry(t, c) /\ Candidates(t, o) # {}
  <2>1. Failed(t, c, o) = [t EXCEPT ![Max(Candidates(t, o))] = NewEntry(c, o)]
    BY <1>2 DEF Failed, NewEntry
  <2>2. QED
    BY <1>2, <2>1, NewEntryFacts, CandidateFacts
<1>3. CASE ~HasEntry(t, c) /\ Candidates(t, o) = {}
  BY <1>3 DEF Failed
<1>4. QED
  BY <1>1, <1>2, <1>3

LEMMA RemovedFacts ==
  ASSUME NEW e \in Entry
  PROVE  /\ Removed(e) \in Entry
         /\ \/ Removed(e) = Invalid
            \/ Removed(e) = [e EXCEPT !.failure = FALSE]
         /\ Removed(e) = Invalid \/ Removed(e).id = e.id
         /\ e.opt.clear # "WhenConditionClears" /\ ~(defer /\ e.opt.deferrable) =>
              Removed(e).id = e.id
<1>1. [e EXCEPT !.failure = FALSE] \in Entry /\ [e EXCEPT !.failure = FALSE].id = e.id
  BY DEF Entry
<1>2. QED
  BY <1>1, InvalidType DEF Removed

LEMMA ClearedFacts ==
  ASSUME NEW e \in Entry
  PROVE  /\ [e EXCEPT !.activated = FALSE] \in Entry
         /\ [e EXCEPT !.activated = FALSE].id = e.id
         /\ [e EXCEPT !.activated = FALSE].opt = e.opt
         /\ ~[e EXCEPT !.activated = FALSE].activated
BY DEF Entry

(* After removeNonActivatedActions() no entry is activated; one that was   *)
(* is kept with its options.                                               *)
LEMMA removeNonActivatedFacts ==
  ASSUME NEW t \in [Slots -> Entry]
  PROVE  /\ removeNonActivatedActions(t) \in [Slots -> Entry]
         /\ \A i \in Slots : LET r == removeNonActivatedActions(t)[i]
              IN  /\ ~r.activated
                  /\ ~Valid(r) \/ (r.id = t[i].id /\ r.opt = t[i].opt)
                  /\ t[i].activated => r.id = t[i].id /\ r.opt = t[i].opt
                  /\ t[i].opt.clear # "WhenConditionClears" /\ ~(defer /\ t[i].opt.deferrable)
                       => r.id = t[i].id
<1> DEFINE E(i) == IF Valid(t[i]) /\ ~t[i].activated THEN Removed(t[i]) ELSE t[i]
<1>1. \A i \in Slots : /\ E(i) \in Entry
                       /\ ~Valid(E(i)) \/ (E(i).id = t[i].id /\ E(i).opt = t[i].opt)
                       /\ t[i].activated => E(i) = t[i]
                       /\ t[i].opt.clear # "WhenConditionClears" /\ ~(defer /\ t[i].opt.deferrable)
                            => E(i).id = t[i].id
  <2> SUFFICES ASSUME NEW i \in Slots
               PROVE  /\ E(i) \in Entry
                      /\ ~Valid(E(i)) \/ (E(i).id = t[i].id /\ E(i).opt = t[i].opt)
                      /\ t[i].activated => E(i) = t[i]
                      /\ t[i].opt.clear # "WhenConditionClears"
                           /\ ~(defer /\ t[i].opt.deferrable) => E(i).id = t[i].id
    OBVIOUS
  <2>1. t[i] \in Entry
    OBVIOUS
  <2>2. [t[i] EXCEPT !.failure = FALSE].id = t[i].id
        /\ [t[i] EXCEPT !.failure = FALSE].opt = t[i].opt
    BY <2>1 DEF Entry
  <2>3. QED
    BY <2>1, <2>2, RemovedFacts, InvalidType
<1>2. removeNonActivatedActions(t) = [i \in Slots |-> [E(i) EXCEPT !.activated = FALSE]]
  BY DEF removeNonActivatedActions
<1> HIDE DEF E
<1>3. \A i \in Slots : removeNonActivatedActions(t)[i] = [E(i) EXCEPT !.activated = FALSE]
  BY <1>2
<1>4. removeNonActivatedActions(t) \in [Slots -> Entry]
  BY <1>1, <1>2, ClearedFacts
<1>5. \A i \in Slots : LET r == removeNonActivatedActions(t)[i]
        IN  ~r.activated /\ r.id = E(i).id /\ r.opt = E(i).opt
  BY <1>1, <1>3, ClearedFacts
<1>6. QED
  BY <1>1, <1>4, <1>5 DEF Valid
-----------------------------------------------------------------------------
(* What the selection of an action rests on.                               *)
Active(t) == {e \in {t[i] : i \in Slots} : Valid(e) /\ e.opt.action # None}
Worst(t)  == Max({e.opt.action : e \in Active(t)} \cup {None})

LEMMA WorstFacts ==
  ASSUME NEW t \in [Slots -> Entry]
  PROVE  /\ Worst(t) \in Actions
         /\ \A i \in Slots : Valid(t[i]) => Worst(t) >= t[i].opt.action
<1> DEFINE S == {e.opt.action : e \in Active(t)} \cup {None}
<1>1. S \in SUBSET (0..10) /\ S # {}
  BY DEF Active, Entry, Option, Actions, None, Terminate
<1>2. Max(S) \in S /\ \A y \in S : Max(S) >= y
  <2> HIDE DEF S
  <2>1. QED
    BY <1>1, MaxFacts
<1>3. ASSUME NEW i \in Slots, Valid(t[i])
      PROVE  Worst(t) >= t[i].opt.action
  <2>1. t[i].opt.action \in S
    BY <1>3 DEF Active
  <2>2. QED
    BY <1>2, <2>1 DEF Worst
<1>4. Worst(t) \in Actions
  BY <1>1, <1>2 DEF Worst, Actions, None, Terminate
<1>5. QED
  BY <1>3, <1>4

LEMMA ActionValues ==
  /\ None = 0 /\ Warn = 1 /\ FallbackPosCtrl = 2 /\ FallbackAltCtrl = 3 /\ FallbackStab = 4
  /\ Hold = 5 /\ RTL = 6 /\ Land = 7 /\ Descend = 8 /\ Disarm = 9 /\ Terminate = 10
  /\ Actions = 0..10
BY DEF None, Warn, FallbackPosCtrl, FallbackAltCtrl, FallbackStab, Hold, RTL, Land, Descend,
       Disarm, Terminate, Actions

(* No fallback is needed only for a mode that can run.                     *)
LEMMA FallbackFacts ==
  ASSUME NEW m \in Modes, NEW run \in SUBSET Modes, NEW rcLost \in BOOLEAN
  PROVE  /\ checkModeFallback(m, run, rcLost) \in Actions
         /\ RclAction > Warn /\ checkModeFallback(m, run, rcLost) <= Warn => m \in run
BY FailsafeConstants, ActionValues DEF checkModeFallback

LEMMA ModeOfAction ==
  ASSUME NEW a \in Actions, NEW m \in Modes
  PROVE  /\ modeFromAction(a, m) \in Modes
         /\ a \in FallbackPosCtrl..Descend => modeFromAction(a, m) = modeFromAction(a, "MANUAL")
         /\ a \in {None, Warn} => modeFromAction(a, m) = m
BY ActionValues DEF modeFromAction, Modes

(* The action that is tried instead runs, or terminates the flight.        *)
LEMMA PossibleFacts ==
  ASSUME NEW a \in Actions, NEW run \in SUBSET Modes
  PROVE  /\ Possible(a, run) \in Actions
         /\ a \in {None, Warn, Disarm, Terminate} => Possible(a, run) = a
         /\ a \in FallbackPosCtrl..Descend =>
              \/ Possible(a, run) = Terminate
              \/ /\ Possible(a, run) \in FallbackPosCtrl..Descend
                 /\ \A m \in Modes : modeFromAction(Possible(a, run), m) \in run
<1>1. CASE a \in FallbackPosCtrl..Descend
  <2> DEFINE S == {b \in a..Descend : modeFromAction(b, "MANUAL") \in run} \cup {Terminate}
  <2>1. Possible(a, run) = Min(S)
    BY <1>1 DEF Possible
  <2>2. S \in SUBSET Nat /\ S # {}
    BY <1>1, ActionValues
  <2>3. Min(S) \in S
    <3> HIDE DEF S
    <3>1. QED
      BY <2>2, MinFacts
  <2>4. QED
    BY <1>1, <2>1, <2>3, ActionValues, ModeOfAction
<1>2. CASE a \notin FallbackPosCtrl..Descend
  BY <1>2, ActionValues DEF Possible
<1>3. QED
  BY <1>1, <1>2, ActionValues

(* A way out of getSelectedAction() with the selection s: m is the mode,   *)
(* base the action before what cannot run is replaced.                     *)
Way(s, t, run, rcLost, m, base, delayed, granted) ==
  /\ m = mode \/ (granted /\ m = "POSCTL")
  /\ granted => base = TakeoverAction(m, run, rcLost)
  /\ ~granted => base \in {Hold, Worst(t)}
  /\ \/ s = Selection(Terminate, None, mode, FALSE, FALSE)
     \/ ~armed /\ s = Selection(None, None, mode, FALSE, FALSE)
     \/ /\ defer /\ Worst(t) # None /\ \A e \in Active(t) : e.opt.deferrable
        /\ s = Selection(None, None, mode, FALSE, Worst(t) > Warn)
     \/ m \in run /\ s = Selection(Warn, None, m, granted, FALSE)
     \/ s = Selection(Possible(base, run), delayed, m, granted, FALSE)

LEMMA SelectionWays ==
  ASSUME NEW t \in [Slots -> Entry], NEW took, NEW del, NEW run, NEW rcLost, NEW sticks
  PROVE  \E m, base, delayed : \E granted \in BOOLEAN :
           Way(getSelectedAction(t, took, del, run, rcLost, sticks), t, run, rcLost, m, base,
               delayed, granted)
<1> DEFINE
      isDelayed == /\ del > 0 /\ ~took /\ Restriction(Active(t)) <= AlwaysModeSwitchOnly
                   /\ Worst(t) \notin {None, Warn, Disarm, Terminate, Hold}
      allow   == IF isDelayed THEN AlwaysModeSwitchOnly ELSE Restriction(Active(t))
      base    == IF isDelayed THEN Hold ELSE Worst(t)
      byMode  == updated /\ selected > Warn
      granted == /\ base \in {Hold, RTL, Land, Descend}
                 /\ \/ allow = Always /\ (took \/ byMode \/ sticks)
                    \/ allow = AlwaysModeSwitchOnly /\ (took \/ byMode)
      m       == IF granted /\ ~took /\ sticks THEN "POSCTL" ELSE mode
      tried   == IF granted THEN TakeoverAction(m, run, rcLost) ELSE base
      delayed == IF isDelayed /\ ~granted THEN Worst(t) ELSE None
      s       == getSelectedAction(t, took, del, run, rcLost, sticks)
<1>1. s = IF mode = "TERMINATION" \/ selected = Terminate
            THEN Selection(Terminate, None, mode, FALSE, FALSE)
          ELSE IF ~armed THEN Selection(None, None, mode, FALSE, FALSE)
          ELSE IF defer /\ Worst(t) # None /\ \A e \in Active(t) : e.opt.deferrable
            THEN Selection(None, None, mode, FALSE, Worst(t) > Warn)
          ELSE IF AlreadyDoing(m, Possible(tried, run), delayed, run)
            THEN Selection(Warn, None, m, granted, FALSE)
          ELSE Selection(Possible(tried, run), delayed, m, granted, FALSE)
  BY DEF getSelectedAction, Active, Worst
<1>2. granted \in BOOLEAN
  OBVIOUS
<1>3. m = mode \/ (granted /\ m = "POSCTL")
  OBVIOUS
<1>4. granted => tried = TakeoverAction(m, run, rcLost)
  OBVIOUS
<1>5. ~granted => tried \in {Hold, Worst(t)}
  OBVIOUS
<1>6. AlreadyDoing(m, Possible(tried, run), delayed, run) => m \in run
  BY DEF AlreadyDoing
<1> HIDE DEF granted, m, tried, delayed, s
<1>7. Way(s, t, run, rcLost, m, tried, delayed, granted)
  BY <1>1, <1>3, <1>4, <1>5, <1>6 DEF Way
<1>8. QED
  BY <1>2, <1>7 DEF s
-----------------------------------------------------------------------------
LEMMA SelectionFields ==
  ASSUME NEW a, NEW d, NEW m, NEW k \in BOOLEAN, NEW f \in BOOLEAN
  PROVE  /\ Selection(a, d, m, k, f).takeover \in BOOLEAN
         /\ Selection(a, d, m, k, f).deferred \in BOOLEAN
         /\ Selection(a, d, m, k, f).deferred => f
BY DEF Selection

LEMMA SelectionType ==
  ASSUME TypeOK, NEW t \in [Slots -> Entry], NEW took \in BOOLEAN, NEW del \in Nat,
         NEW run \in SUBSET Modes, NEW rcLost \in BOOLEAN, NEW sticks \in BOOLEAN
  PROVE  LET s == getSelectedAction(t, took, del, run, rcLost, sticks)
         IN  /\ s.action \in Actions /\ s.mode \in Modes /\ s.takeover \in BOOLEAN
             /\ s.deferred \in BOOLEAN
<1> DEFINE s == getSelectedAction(t, took, del, run, rcLost, sticks)
<1>1. PICK m, base, delayed : \E granted \in BOOLEAN :
        Way(s, t, run, rcLost, m, base, delayed, granted)
  BY SelectionWays
<1> HIDE DEF s
<1>a. PICK granted \in BOOLEAN : Way(s, t, run, rcLost, m, base, delayed, granted)
  BY <1>1
<1>2. mode \in Modes /\ m \in Modes
  BY <1>a DEF TypeOK, Modes, Way
<1>3. TakeoverAction(m, run, rcLost) \in Actions
  BY <1>2, FallbackFacts, Max2, ActionValues DEF TakeoverAction
<1>4. Hold \in Actions /\ Worst(t) \in Actions /\ None \in Actions /\ Warn \in Actions
      /\ Terminate \in Actions
  BY WorstFacts, ActionValues
<1>5. base \in Actions
  BY <1>a, <1>3, <1>4 DEF Way
<1>6. Possible(base, run) \in Actions
  BY <1>5, PossibleFacts
<1>7. (Worst(t) > Warn) \in BOOLEAN
  BY <1>4, ActionValues
<1>8. QED
  <2>1. s.action \in Actions /\ s.mode \in Modes
    BY <1>a, <1>2, <1>4, <1>6 DEF Selection, Way
  <2>2. \E x, y, z : \E k, f \in BOOLEAN : s = Selection(x, y, z, k, f)
    BY <1>a, <1>7 DEF Way
  <2>3. s.takeover \in BOOLEAN /\ s.deferred \in BOOLEAN
    BY <2>2, SelectionFields
  <2>4. QED
    BY <2>1, <2>2, <2>3 DEF s

LEMMA OptionFacts ==
  /\ \A c \in Callers : \A o \in Options[c] : o \in Option
  /\ \A a \in Actions : FallbackOption(a) \in Option /\ FallbackOption(a).action = a
                        /\ FallbackOption(a).deferrable = FALSE
BY FailsafeConstants, ActionValues DEF FallbackOption, Option, ClearConditions, Always, Never

LEMMA FailsafeTypeInit == Init => TypeOK
<1> SUFFICES ASSUME Init PROVE TypeOK
  OBVIOUS
<1>1. None \in Actions /\ "MANUAL" \in Modes /\ failActT \in Nat
  BY FailsafeConstants, ActionValues DEF Init, Modes
<1>2. actions \in [Slots -> Entry]
  BY InvalidType DEF Init
<1>3. QED
  BY <1>1, <1>2 DEF Init, TypeOK, NoFailure, NotStarted

LEMMA BeginType ==
  ASSUME TypeOK, NEW d \in Periods, NEW arm \in BOOLEAN, NEW request \in BOOLEAN,
         NEW m \in UserModes \cup {mode}, Begin(d, arm, request, m)
  PROVE  TypeOK'
<1> DEFINE age == IF deferAge = NotStarted THEN NotStarted ELSE Min({deferAge + d, MaxAge})
<1>1. d \in Nat /\ MaxAge \in Nat
  BY FailsafeConstants
<1>2. age \in Nat \cup {NotStarted}
  BY <1>1, Min2 DEF TypeOK, NotStarted
<1>3. Max({delay - d, 0}) \in Nat
  BY <1>1, Max2 DEF TypeOK
<1>4. actions' \in [Slots -> Entry]
  BY removeActionsType DEF Begin, TypeOK
<1>5. mode' \in Modes /\ NoFailure \in [CallerIds -> Actions]
  BY FailsafeConstants, ActionValues DEF Begin, TypeOK, NoFailure
<1>6. takeover' \in BOOLEAN /\ defer' \in BOOLEAN
  BY DEF Begin, TypeOK
<1>7. deferAge' \in Nat \cup {NotStarted} /\ delay' \in Nat
  BY <1>2, <1>3 DEF Begin, TypeOK
<1>8. next' \in {Between} \cup CallerIds
  BY FailsafeConstants DEF Begin, CallerIds, Fallback
<1>9. QED
  BY <1>1, <1>4, <1>5, <1>6, <1>7, <1>8 DEF Begin, TypeOK

LEMMA FinishType ==
  ASSUME TypeOK, NEW run \in RunSets, NEW rcLost \in BOOLEAN, NEW sticks \in BOOLEAN,
         Finish(run, rcLost, sticks)
  PROVE  TypeOK'
<1> DEFINE fallback == checkModeFallback(mode, run, rcLost)
           option   == FallbackOption(fallback)
           checked  == IF fallback # None THEN Failed(actions, Fallback, option) ELSE actions
           table    == removeNonActivatedActions(checked)
           took     == IF fallback # None THEN TakeoverAfter(actions, Fallback, option)
                       ELSE takeover
           del      == IF selected > Hold \/ "AUTO_LOITER" \notin run \/ took THEN 0 ELSE delay
           s        == getSelectedAction(table, took, del, run, rcLost, sticks)
           fails    == [failing EXCEPT ![Fallback] = fallback]
<1>1. run \in SUBSET Modes
  BY FailsafeConstants
<1>2. fallback \in Actions /\ option \in Option
  BY <1>1, FallbackFacts, OptionFacts DEF TypeOK
<1>3. table \in [Slots -> Entry]
  <2>1. checked \in [Slots -> Entry]
    BY <1>2, FailedFacts, CallerFacts DEF TypeOK
  <2> HIDE DEF checked
  <2>2. QED
    BY <2>1, removeNonActivatedFacts
<1>4. took \in BOOLEAN /\ del \in Nat
  BY DEF TypeOK, TakeoverAfter
<1>5. fails \in [CallerIds -> Actions]
  BY <1>2 DEF TypeOK
<1> HIDE DEF fallback, option, checked, table, took, del, fails
<1>6. /\ s.action \in Actions /\ s.mode \in Modes /\ s.takeover \in BOOLEAN
      /\ s.deferred \in BOOLEAN
  BY <1>1, <1>3, <1>4, SelectionType
<1> HIDE DEF s
<1>7. /\ actions' = table /\ takeover' = s.takeover /\ delay' = del
      /\ startDelay' = StartDelayAfter(s.delayed # None)
      /\ deferAge' = IF ~s.deferred THEN NotStarted
                     ELSE IF deferAge = NotStarted THEN 0 ELSE deferAge
      /\ mode' = modifyUserIntendedMode(selected, s.action, s.mode)
      /\ selected' = s.action
      /\ failing' = [NoFailure EXCEPT ![Fallback] = fallback]
      /\ missed' = [c \in CallerIds |-> IF Covered(table, fails[c]) THEN None ELSE fails[c]]
      /\ held' = IF s.delayed # None THEN held + dt ELSE 0
      /\ canRun' = run /\ next' = Between /\ updated' = FALSE /\ dt' = 0
      /\ UNCHANGED <<armed, failActT, defer, deferTimeout>>
  BY DEF Finish, fallback, option, checked, table, took, del, s, fails
<1>8. startDelay' \in Nat
  <2>1. dt \div 4 \in Nat
    BY DEF TypeOK
  <2>2. Max({startDelay - dt, 0}) \in Nat
    BY Max2 DEF TypeOK
  <2>3. Min({startDelay + dt \div 4, failActT}) \in Nat
    BY <2>1, Min2 DEF TypeOK
  <2>4. QED
    BY <1>7, <2>2, <2>3 DEF StartDelayAfter
<1>9. mode' \in Modes
  BY <1>6, <1>7 DEF modifyUserIntendedMode, Modes
<1>10. failing' \in [CallerIds -> Actions] /\ missed' \in [CallerIds -> Actions]
  <2>1. None \in Actions
    BY ActionValues
  <2>2. failing' \in [CallerIds -> Actions]
    BY <1>2, <1>7, <2>1 DEF NoFailure
  <2>3. missed' \in [CallerIds -> Actions]
    BY <1>5, <1>7, <2>1
  <2>4. QED
    BY <2>2, <2>3
<1>11. held' \in Nat /\ deferAge' \in Nat \cup {NotStarted}
  BY <1>7 DEF TypeOK
<1>12. QED
  BY <1>1, <1>3, <1>4, <1>6, <1>7, <1>8, <1>9, <1>10, <1>11 DEF TypeOK

LEMMA FailsafeTypeStep == TypeOK /\ [Next]_vars => TypeOK'
<1> SUFFICES ASSUME TypeOK, [Next]_vars PROVE TypeOK'
  OBVIOUS
<1>1. ASSUME NEW d \in Periods, NEW arm \in BOOLEAN, NEW request \in BOOLEAN,
             NEW m \in UserModes \cup {mode}, Begin(d, arm, request, m)
      PROVE  TypeOK'
  BY <1>1, BeginType
<1>2. ASSUME NEW c \in Callers, NEW o \in Options[c], CheckFails(c, o)
      PROVE  TypeOK'
  <2>1. c \in CallerIds /\ next' \in CallerIds /\ o \in Option
    BY <1>2, CallerFacts, OptionFacts DEF CheckFails
  <2>2. actions' \in [Slots -> Entry]
    BY <1>2, <2>1, FailedFacts DEF CheckFails, TypeOK
  <2>3. takeover' \in BOOLEAN
    BY <1>2 DEF CheckFails, TypeOK, TakeoverAfter
  <2>4. delay' \in Nat
    BY <1>2 DEF CheckFails, TypeOK, DelayAfter
  <2>5. failing' \in [CallerIds -> Actions]
    BY <1>2, <2>1 DEF CheckFails, TypeOK, Option
  <2>6. QED
    BY <1>2, <2>1, <2>2, <2>3, <2>4, <2>5 DEF CheckFails, TypeOK, deferVars
<1>3. ASSUME NEW c \in Callers, CheckClears(c)
      PROVE  TypeOK'
  <2>1. next' \in CallerIds
    BY <1>3, CallerFacts DEF CheckClears
  <2>2. actions' \in [Slots -> Entry]
    BY <1>3, RemovedFacts DEF CheckClears, TypeOK
  <2>3. QED
    BY <1>3, <2>1, <2>2 DEF CheckClears, TypeOK, deferVars
<1>4. ASSUME NEW c \in Callers, CheckSkips(c)
      PROVE  TypeOK'
  <2>1. next' \in CallerIds
    BY <1>4, CallerFacts DEF CheckSkips
  <2>2. QED
    BY <1>4, <2>1 DEF CheckSkips, TypeOK, deferVars, tableVars
<1>5. ASSUME NEW run \in RunSets, NEW rcLost \in BOOLEAN, NEW sticks \in BOOLEAN,
             Finish(run, rcLost, sticks)
      PROVE  TypeOK'
  BY <1>5, FinishType
<1>6. ASSUME NEW enabled \in BOOLEAN, NEW timeout \in Timeouts, deferFailsafes(enabled, timeout)
      PROVE  TypeOK'
  BY <1>6, FailsafeConstants DEF deferFailsafes, TypeOK
<1>7. ASSUME NEW p \in Delays, updateParams(p)
      PROVE  TypeOK'
  BY <1>7, FailsafeConstants DEF updateParams, TypeOK, deferVars, tableVars
<1>8. CASE UNCHANGED vars
  BY <1>8 DEF vars, tableVars, deferVars, TypeOK
<1>9. QED
  BY <1>1, <1>2, <1>3, <1>4, <1>5, <1>6, <1>7, <1>8 DEF Next

(* Every variable stays in its type, whatever the callers report: in       *)
(* particular the delays never wrap and every selected action is one.      *)
THEOREM FailsafeTypeCorrectness == Spec => []TypeOK
BY FailsafeTypeInit, FailsafeTypeStep, PTL DEF Spec
-----------------------------------------------------------------------------
(* The table.  While update() runs, the entries that are activated belong  *)
(* to callers that have been checked; those of the mode fallback cannot be *)
(* deferred.                                                               *)
Passed == \A i \in Slots : Valid(actions[i]) /\ actions[i].activated =>
            next # Between /\ actions[i].id < next
FallbackStays == \A i \in Slots : actions[i].id = Fallback => ~actions[i].opt.deferrable
TableInv == TypeOK /\ OneEntryPerCaller /\ Passed /\ FallbackStays

(* The table in Finish, before and after removeNonActivatedActions().      *)
Checked(run, rcLost) ==
  LET fallback == checkModeFallback(mode, run, rcLost)
  IN  IF fallback # None THEN Failed(actions, Fallback, FallbackOption(fallback)) ELSE actions
Final(run, rcLost) == removeNonActivatedActions(Checked(run, rcLost))

LEMMA FinishTable ==
  ASSUME TypeOK, NEW run \in RunSets, NEW rcLost \in BOOLEAN, NEW sticks \in BOOLEAN,
         Finish(run, rcLost, sticks)
  PROVE  /\ run \in SUBSET Modes /\ mode \in Modes /\ actions \in [Slots -> Entry]
         /\ checkModeFallback(mode, run, rcLost) \in Actions
         /\ FallbackOption(checkModeFallback(mode, run, rcLost)) \in Option
         /\ Checked(run, rcLost) \in [Slots -> Entry]
         /\ actions' = Final(run, rcLost) /\ next = Fallback /\ next' = Between
<1>1. run \in SUBSET Modes /\ mode \in Modes /\ actions \in [Slots -> Entry]
  BY FailsafeConstants DEF TypeOK
<1>2. checkModeFallback(mode, run, rcLost) \in Actions
  BY <1>1, FallbackFacts
<1>3. FallbackOption(checkModeFallback(mode, run, rcLost)) \in Option
  BY <1>2, OptionFacts
<1>4. Checked(run, rcLost) \in [Slots -> Entry]
  BY <1>1, <1>3, FailedFacts, CallerFacts DEF Checked
<1>5. actions' = Final(run, rcLost) /\ next = Fallback /\ next' = Between
  BY DEF Finish, Final, Checked
<1>6. QED
  BY <1>1, <1>2, <1>3, <1>4, <1>5

Unique(t) == \A i, j \in Slots : Valid(t[i]) /\ t[i].id = t[j].id => i = j

(* Removing entries keeps the ids apart, ...                               *)
LEMMA UniqueKept ==
  ASSUME NEW t, NEW u, Unique(t), \A i \in Slots : ~Valid(u[i]) \/ u[i].id = t[i].id
  PROVE  Unique(u)
BY DEF Unique, Valid

(* ... and so does a failure, which looks for the entry that is there.     *)
LEMMA UniqueFailed ==
  ASSUME NEW t \in [Slots -> Entry], NEW c \in CallerIds, NEW o \in Option, Unique(t)
  PROVE  Unique(Failed(t, c, o))
<1>1. CASE HasEntry(t, c)
  <2>1. \A i \in Slots : Failed(t, c, o)[i].id = t[i].id
    BY <1>1, FailedFacts, UpdatedFacts
  <2>2. QED
    BY <2>1, UniqueKept
<1>2. CASE ~HasEntry(t, c) /\ Candidates(t, o) # {}
  <2>1. \A i \in Slots : t[i].id # c
    BY <1>2 DEF HasEntry
  <2>2. \A i \in Slots : Failed(t, c, o)[i].id = IF i = Max(Candidates(t, o)) THEN c ELSE t[i].id
    BY <1>2, FailedFacts, NewEntryFacts
  <2>3. QED
    BY <2>1, <2>2 DEF Unique, Valid
<1>3. CASE ~HasEntry(t, c) /\ Candidates(t, o) = {}
  BY <1>3, FailedFacts
<1>4. QED
  BY <1>1, <1>2, <1>3

(* An entry after Failed() is the one before, or is one of the caller that *)
(* failed, with its action.                                                *)
LEMMA FailedEntry ==
  ASSUME NEW t \in [Slots -> Entry], NEW c \in CallerIds, NEW o \in Option, NEW i \in Slots
  PROVE  LET f == Failed(t, c, o)[i]
         IN  \/ f = t[i] /\ f.id # c
             \/ f.id = c /\ f.activated /\ f.opt.action = o.action
                /\ \/ f.opt.deferrable = o.deferrable
                   \/ t[i].id = c /\ f.opt.deferrable = t[i].opt.deferrable
                /\ (t[i].id = c \/ ~Valid(t[i]) \/ o.action > t[i].opt.action)
<1>1. t[i] \in Entry
  OBVIOUS
<1>2. CASE HasEntry(t, c)
  BY <1>1, <1>2, FailedFacts, UpdatedFacts
<1>3. CASE ~HasEntry(t, c) /\ Candidates(t, o) # {}
  BY <1>1, <1>3, FailedFacts, NewEntryFacts, CandidateFacts DEF HasEntry
<1>4. CASE ~HasEntry(t, c) /\ Candidates(t, o) = {}
  BY <1>4, FailedFacts DEF HasEntry
<1>5. QED
  BY <1>2, <1>3, <1>4

LEMMA EntryId ==
  ASSUME NEW e \in Entry
  PROVE  e.id \in Nat
<1>1. e.id \in CallerIds \cup {NoCaller}
  BY DEF Entry
<1>2. CallerIds \subseteq Nat /\ NoCaller \in Nat
  BY FailsafeConstants DEF CallerIds, Fallback, NoCaller
<1>3. QED
  BY <1>1, <1>2

LEMMA TableInit == Init => TableInv
<1> SUFFICES ASSUME Init PROVE TableInv
  OBVIOUS
<1>1. TypeOK
  BY FailsafeTypeInit
<1>2. \A i \in Slots : actions[i] = Invalid
  BY DEF Init
<1>3. Invalid.id # Fallback
  BY CallerFacts DEF Invalid
<1>4. QED
  BY <1>1, <1>2, <1>3, InvalidType DEF TableInv, OneEntryPerCaller, Passed, FallbackStays

(* The steps that leave the table and its place in update() alone.         *)
LEMMA TableSame ==
  ASSUME TableInv, TypeOK', UNCHANGED <<actions, next>>
  PROVE  TableInv'
BY DEF TableInv, OneEntryPerCaller, Passed, FallbackStays

LEMMA TableBegin ==
  ASSUME TableInv, TypeOK', NEW d, NEW arm, NEW request, NEW m, Begin(d, arm, request, m)
  PROVE  TableInv'
<1>1. PICK K : actions' = removeActions(actions, K)
  BY DEF Begin
<1>2. \A i \in Slots : actions'[i] = actions[i] \/ actions'[i] = Invalid
  BY <1>1 DEF removeActions
<1>3. \A i \in Slots : Valid(actions[i]) => ~actions[i].activated
  BY DEF TableInv, Passed, Begin
<1>4. OneEntryPerCaller'
  <2>1. Unique(actions')
    BY <1>2, UniqueKept, InvalidType DEF TableInv, OneEntryPerCaller, Unique
  <2>2. QED
    BY <2>1 DEF Unique, OneEntryPerCaller
<1>5. Passed'
  BY <1>2, <1>3, InvalidType DEF Passed
<1>6. FallbackStays'
  BY <1>2, InvalidType, CallerFacts DEF TableInv, FallbackStays, Valid
<1>7. QED
  BY <1>4, <1>5, <1>6 DEF TableInv

LEMMA TableFails ==
  ASSUME TableInv, TypeOK', NEW c \in Callers, NEW o \in Options[c], CheckFails(c, o)
  PROVE  TableInv'
<1>1. /\ c \in CallerIds /\ o \in Option /\ c # Fallback /\ c \in Nat /\ c # Between
      /\ c + 1 # Between
  BY CallerFacts, OptionFacts DEF Between, NoCaller
<1>2. /\ actions \in [Slots -> Entry] /\ next = c /\ next' = c + 1
      /\ actions' = Failed(actions, c, o)
  BY DEF TableInv, TypeOK, CheckFails
<1>3. OneEntryPerCaller'
  <2>1. Unique(actions')
    BY <1>1, <1>2, UniqueFailed DEF TableInv, OneEntryPerCaller, Unique
  <2>2. QED
    BY <2>1 DEF Unique, OneEntryPerCaller
<1>4. ASSUME NEW i \in Slots
      PROVE  \/ actions'[i] = actions[i] /\ actions'[i].id # c
             \/ actions'[i].id = c
  BY <1>1, <1>2, FailedEntry
<1>5. Passed'
  <2> SUFFICES ASSUME NEW i \in Slots, Valid(actions'[i]), actions'[i].activated
               PROVE  actions'[i].id < c + 1
    BY <1>1, <1>2 DEF Passed
  <2>1. CASE actions'[i] = actions[i]
    <3>1. actions[i].id < c
      BY <1>2, <2>1 DEF TableInv, Passed
    <3>2. actions[i].id \in Nat
      BY <1>2, EntryId
    <3>3. QED
      BY <1>1, <2>1, <3>1, <3>2
  <2>2. CASE actions'[i].id = c
    BY <1>1, <2>2
  <2>3. QED
    BY <1>4, <2>1, <2>2
<1>6. FallbackStays'
  BY <1>1, <1>4 DEF TableInv, FallbackStays
<1>7. QED
  BY <1>3, <1>5, <1>6 DEF TableInv

LEMMA TableClears ==
  ASSUME TableInv, TypeOK', NEW c \in Callers, CheckClears(c)
  PROVE  TableInv'
<1>1. c # Fallback /\ c \in Nat /\ c # Between /\ c + 1 # Between
  BY CallerFacts DEF Between, NoCaller
<1>2. actions \in [Slots -> Entry] /\ next = c /\ next' = c + 1
  BY DEF TableInv, TypeOK, CheckClears
<1>3. ASSUME NEW i \in Slots
      PROVE  \/ actions'[i] = actions[i]
             \/ ~Valid(actions'[i])
             \/ actions[i].id = c /\ actions'[i].id = c
  <2>1. actions'[i] = IF actions[i].id = c THEN Removed(actions[i]) ELSE actions[i]
    BY DEF CheckClears
  <2>2. QED
    BY <1>2, <2>1, RemovedFacts, InvalidType
<1>4. OneEntryPerCaller'
  <2>1. Unique(actions')
    BY <1>3, UniqueKept DEF TableInv, OneEntryPerCaller, Unique
  <2>2. QED
    BY <2>1 DEF Unique, OneEntryPerCaller
<1>5. Passed'
  <2> SUFFICES ASSUME NEW i \in Slots, Valid(actions'[i]), actions'[i].activated
               PROVE  actions'[i].id < c + 1
    BY <1>1, <1>2 DEF Passed
  <2>1. CASE actions'[i] = actions[i]
    <3>1. actions[i].id < c
      BY <1>2, <2>1 DEF TableInv, Passed
    <3>2. actions[i].id \in Nat
      BY <1>2, EntryId
    <3>3. QED
      BY <1>1, <2>1, <3>1, <3>2
  <2>2. CASE actions'[i].id = c
    BY <1>1, <2>2
  <2>3. QED
    BY <1>3, <2>1, <2>2
<1>6. FallbackStays'
  BY <1>1, <1>3, CallerFacts DEF TableInv, FallbackStays, Valid
<1>7. QED
  BY <1>4, <1>5, <1>6 DEF TableInv

LEMMA TableSkips ==
  ASSUME TableInv, TypeOK', NEW c \in Callers, CheckSkips(c)
  PROVE  TableInv'
<1>1. c # Between /\ c \in Nat /\ c + 1 # Between
  BY CallerFacts DEF Between, NoCaller
<1>2. actions' = actions /\ next = c /\ next' = c + 1
  BY DEF CheckSkips, tableVars
<1>3. Passed'
  <2> SUFFICES ASSUME NEW i \in Slots, Valid(actions[i]), actions[i].activated
               PROVE  actions[i].id < c + 1
    BY <1>1, <1>2 DEF Passed
  <2>1. actions[i].id < c
    BY <1>2 DEF TableInv, Passed
  <2>2. actions[i].id \in Nat
    BY EntryId DEF TableInv, TypeOK
  <2>3. QED
    BY <1>1, <2>1, <2>2
<1>4. QED
  BY <1>2, <1>3 DEF TableInv, OneEntryPerCaller, FallbackStays

LEMMA TableFinish ==
  ASSUME TableInv, TypeOK', NEW run \in RunSets, NEW rcLost \in BOOLEAN, NEW sticks \in BOOLEAN,
         Finish(run, rcLost, sticks)
  PROVE  TableInv'
<1> DEFINE c == Checked(run, rcLost)
           a == checkModeFallback(mode, run, rcLost)
<1>1. /\ actions \in [Slots -> Entry] /\ c \in [Slots -> Entry]
      /\ actions' = removeNonActivatedActions(c) /\ next' = Between
      /\ a \in Actions /\ FallbackOption(a) \in Option
  BY FinishTable DEF TableInv, Final
<1>2. Unique(c)
  BY <1>1, UniqueFailed, CallerFacts DEF TableInv, OneEntryPerCaller, Unique, Checked
<1>3. \A i \in Slots : c[i].id = Fallback => ~c[i].opt.deferrable
  <2>1. CASE a = None
    BY <2>1 DEF TableInv, FallbackStays, Checked
  <2>2. CASE a # None
    <3> SUFFICES ASSUME NEW i \in Slots, c[i].id = Fallback PROVE ~c[i].opt.deferrable
      OBVIOUS
    <3>1. c[i] = Failed(actions, Fallback, FallbackOption(a))[i]
      BY <2>2 DEF Checked
    <3>2. FallbackOption(a).deferrable = FALSE
      BY <1>1, OptionFacts
    <3>3. \/ c[i].opt.deferrable = FallbackOption(a).deferrable
          \/ actions[i].id = Fallback /\ c[i].opt.deferrable = actions[i].opt.deferrable
      BY <1>1, <3>1, FailedEntry, CallerFacts
    <3>4. QED
      BY <3>2, <3>3 DEF TableInv, FallbackStays
  <2>3. QED
    BY <2>1, <2>2
<1> HIDE DEF c
<1>4. \A i \in Slots : /\ ~actions'[i].activated
                       /\ \/ ~Valid(actions'[i])
                          \/ actions'[i].id = c[i].id /\ actions'[i].opt = c[i].opt
  BY <1>1, removeNonActivatedFacts
<1>5. OneEntryPerCaller'
  <2>1. Unique(actions')
    BY <1>2, <1>4, UniqueKept
  <2>2. QED
    BY <2>1 DEF Unique, OneEntryPerCaller
<1>6. Passed'
  BY <1>4 DEF Passed
<1>7. FallbackStays'
  BY <1>3, <1>4, CallerFacts DEF FallbackStays, Valid
<1>8. QED
  BY <1>5, <1>6, <1>7 DEF TableInv

LEMMA TableStep == TableInv /\ [Next]_vars => TableInv'
<1> SUFFICES ASSUME TableInv, [Next]_vars PROVE TableInv'
  OBVIOUS
<1>0. TypeOK'
  BY FailsafeTypeStep DEF TableInv
<1>1. ASSUME NEW d \in Periods, NEW arm \in BOOLEAN, NEW request \in BOOLEAN,
             NEW m \in UserModes \cup {mode}, Begin(d, arm, request, m)
      PROVE  TableInv'
  BY <1>0, <1>1, TableBegin
<1>2. ASSUME NEW c \in Callers, NEW o \in Options[c], CheckFails(c, o)
      PROVE  TableInv'
  BY <1>0, <1>2, TableFails
<1>3. ASSUME NEW c \in Callers, CheckClears(c)
      PROVE  TableInv'
  BY <1>0, <1>3, TableClears
<1>4. ASSUME NEW c \in Callers, CheckSkips(c)
      PROVE  TableInv'
  BY <1>0, <1>4, TableSkips
<1>5. ASSUME NEW run \in RunSets, NEW rcLost \in BOOLEAN, NEW sticks \in BOOLEAN,
             Finish(run, rcLost, sticks)
      PROVE  TableInv'
  BY <1>0, <1>5, TableFinish
<1>6. ASSUME NEW enabled \in BOOLEAN, NEW timeout \in Timeouts, deferFailsafes(enabled, timeout)
      PROVE  TableInv'
  BY <1>0, <1>6, TableSame DEF deferFailsafes
<1>7. ASSUME NEW p \in Delays, updateParams(p)
      PROVE  TableInv'
  BY <1>0, <1>7, TableSame DEF updateParams, tableVars
<1>8. CASE UNCHANGED vars
  BY <1>0, <1>8, TableSame DEF vars, tableVars
<1>9. QED
  BY <1>1, <1>2, <1>3, <1>4, <1>5, <1>6, <1>7, <1>8 DEF Next

(* checkFailsafe() never leaves two entries of one caller in the table,    *)
(* however large it is and whatever was replaced or removed before.        *)
THEOREM FailsafeOneEntry == Spec => []OneEntryPerCaller
<1>1. TableInv => OneEntryPerCaller
  BY DEF TableInv
<1>2. QED
  BY <1>1, TableInit, TableStep, PTL DEF Spec
-----------------------------------------------------------------------------
LatchedStep ==
  \A i \in Slots :
    LET e == actions[i]
    IN  Valid(e) /\ e.opt.clear # "WhenConditionClears" /\ actions'[i].id # e.id =>
          \/ Valid(actions'[i]) /\ actions'[i].opt.action > e.opt.action
          \/ defer /\ e.opt.deferrable /\ ~e.activated
          \/ /\ ~e.failure /\ next = Between
             /\ \/ e.opt.clear # "Never" /\ armed' # armed
                \/ e.opt.clear = "OnModeChangeOrDisarm" /\ (updated' \/ takeover)

LEMMA LatchedNext == TableInv /\ [Next]_vars => LatchedStep
<1> SUFFICES ASSUME TableInv, [Next]_vars,
                    NEW i \in Slots, Valid(actions[i]),
                    actions[i].opt.clear # "WhenConditionClears", actions'[i].id # actions[i].id
             PROVE  \/ Valid(actions'[i]) /\ actions'[i].opt.action > actions[i].opt.action
                    \/ defer /\ actions[i].opt.deferrable /\ ~actions[i].activated
                    \/ /\ ~actions[i].failure /\ next = Between
                       /\ \/ actions[i].opt.clear # "Never" /\ armed' # armed
                          \/ /\ actions[i].opt.clear = "OnModeChangeOrDisarm"
                             /\ updated' \/ takeover
  BY DEF LatchedStep
<1> DEFINE Goal == \/ Valid(actions'[i]) /\ actions'[i].opt.action > actions[i].opt.action
                   \/ defer /\ actions[i].opt.deferrable /\ ~actions[i].activated
                   \/ /\ ~actions[i].failure /\ next = Between
                      /\ \/ actions[i].opt.clear # "Never" /\ armed' # armed
                         \/ /\ actions[i].opt.clear = "OnModeChangeOrDisarm"
                            /\ updated' \/ takeover
<1>0. actions \in [Slots -> Entry] /\ actions[i] \in Entry
  BY DEF TableInv, TypeOK
<1>1. ASSUME NEW d \in Periods, NEW arm \in BOOLEAN, NEW request \in BOOLEAN,
             NEW m \in UserModes \cup {mode}, Begin(d, arm, request, m)
      PROVE  Goal
  <2> DEFINE K == (IF armed # arm THEN {"OnDisarm", "OnModeChangeOrDisarm"} ELSE {})
                  \cup (IF request \/ (takeover /\ ~(armed # arm))
                          THEN {"OnModeChangeOrDisarm"} ELSE {})
  <2>1. actions' = removeActions(actions, K) /\ next = Between /\ armed' = arm
        /\ updated' = request
    BY <1>1 DEF Begin
  <2>2. ~actions[i].failure /\ actions[i].opt.clear \in K
    <3> HIDE DEF K
    <3>1. QED
      BY <2>1 DEF removeActions
  <2>3. QED
    BY <2>1, <2>2
<1>2. ASSUME NEW c \in Callers, NEW o \in Options[c], CheckFails(c, o)
      PROVE  Goal
  <2>1. c \in CallerIds /\ o \in Option /\ actions' = Failed(actions, c, o) /\ c # NoCaller
    BY <1>2, CallerFacts, OptionFacts DEF CheckFails
  <2>2. /\ actions'[i].id = c /\ actions'[i].opt.action = o.action
        /\ o.action > actions[i].opt.action
    BY <1>0, <2>1, FailedEntry
  <2>3. QED
    BY <2>1, <2>2 DEF Valid
<1>3. ASSUME NEW c \in Callers, CheckClears(c)
      PROVE  Goal
  <2>1. actions[i].id = c /\ actions'[i] = Removed(actions[i]) /\ next = c
    BY <1>3 DEF CheckClears
  <2>2. defer /\ actions[i].opt.deferrable
    BY <1>0, <2>1, RemovedFacts
  <2>3. ~actions[i].activated
    <3>1. ~(c < c)
      BY CallerFacts
    <3>2. QED
      BY <2>1, <3>1 DEF TableInv, Passed
  <2>4. QED
    BY <2>2, <2>3
<1>4. ASSUME NEW c \in Callers, CheckSkips(c)
      PROVE  Goal
  BY <1>4 DEF CheckSkips, tableVars
<1>5. ASSUME NEW run \in RunSets, NEW rcLost \in BOOLEAN, NEW sticks \in BOOLEAN,
             Finish(run, rcLost, sticks)
      PROVE  Goal
  <2> DEFINE c == Checked(run, rcLost)
             a == checkModeFallback(mode, run, rcLost)
  <2>1. /\ c \in [Slots -> Entry] /\ actions' = removeNonActivatedActions(c)
        /\ a \in Actions /\ FallbackOption(a) \in Option
    BY <1>5, FinishTable DEF TableInv, Final
  <2>2. /\ c[i].activated => actions'[i].id = c[i].id /\ actions'[i].opt = c[i].opt
        /\ c[i].opt.clear # "WhenConditionClears" /\ ~(defer /\ c[i].opt.deferrable)
             => actions'[i].id = c[i].id
    <3> HIDE DEF c
    <3>1. QED
      BY <2>1, removeNonActivatedFacts
  <2>3. CASE c[i] = actions[i]
    BY <2>2, <2>3
  <2>4. CASE c[i] # actions[i]
    <3>1. a # None /\ c[i] = Failed(actions, Fallback, FallbackOption(a))[i]
      BY <2>4 DEF Checked
    <3>2. /\ c[i].id = Fallback /\ c[i].activated /\ c[i].opt.action = FallbackOption(a).action
          /\ (actions[i].id = Fallback \/ FallbackOption(a).action > actions[i].opt.action)
      BY <1>0, <2>1, <2>4, <3>1, FailedEntry, CallerFacts
    <3>3. actions'[i].id = Fallback /\ actions'[i].opt.action > actions[i].opt.action
      BY <2>2, <3>2
    <3>4. QED
      BY <3>3, CallerFacts DEF Valid
  <2>5. QED
    BY <2>3, <2>4
<1>6. ASSUME NEW enabled \in BOOLEAN, NEW timeout \in Timeouts, deferFailsafes(enabled, timeout)
      PROVE  Goal
  BY <1>6 DEF deferFailsafes
<1>7. ASSUME NEW p \in Delays, updateParams(p)
      PROVE  Goal
  BY <1>7 DEF updateParams, tableVars
<1>8. CASE UNCHANGED vars
  BY <1>8 DEF vars, tableVars
<1>9. QED
  BY <1>1, <1>2, <1>3, <1>4, <1>5, <1>6, <1>7, <1>8 DEF Next

(* A latched action leaves the table only for a more severe one, while its *)
(* failure can be deferred, or after its condition has cleared and the     *)
(* user has armed, disarmed or changed the mode as its setting says.       *)
THEOREM FailsafeLatchedStays == Spec => LatchedStays
<1>1. TableInv /\ [Next]_vars => [LatchedStep]_vars
  BY LatchedNext
<1>2. QED
  BY <1>1, TableInit, TableStep, PTL DEF Spec, LatchedStays, LatchedStep
-----------------------------------------------------------------------------
(* A deferral that goes on in update() has not timed out.                  *)
DeferralInTime ==
  next # Between /\ defer /\ deferAge # NotStarted /\ deferTimeout > 0 => deferAge <= deferTimeout
DeferInv == TableInv /\ DeferralInTime

LEMMA DeferInit == Init => DeferInv
BY TableInit DEF DeferInv, DeferralInTime, Init

LEMMA DeferStep == DeferInv /\ [Next]_vars => DeferInv'
<1> SUFFICES ASSUME DeferInv, [Next]_vars PROVE DeferralInTime'
  BY TableStep DEF DeferInv
<1>1. ASSUME NEW d \in Periods, NEW arm \in BOOLEAN, NEW request \in BOOLEAN,
             NEW m \in UserModes \cup {mode}, Begin(d, arm, request, m)
      PROVE  DeferralInTime'
  <2> DEFINE age == IF deferAge = NotStarted THEN NotStarted ELSE Min({deferAge + d, MaxAge})
  <2>1. defer' = (defer /\ ~DeferExpired(age)) /\ deferAge' = age /\ deferTimeout' = deferTimeout
    BY <1>1 DEF Begin
  <2>2. age \in Int /\ deferTimeout \in Nat
    BY Min2, FailsafeConstants DEF DeferInv, TableInv, TypeOK, NotStarted
  <2> HIDE DEF age
  <2>3. defer' => defer /\ ~DeferExpired(age)
    BY <2>1
  <2>4. defer /\ ~DeferExpired(age) /\ age # NotStarted /\ deferTimeout > 0 => age <= deferTimeout
    BY <2>2 DEF DeferExpired
  <2>5. QED
    BY <2>1, <2>3, <2>4 DEF DeferralInTime
<1>2. ASSUME NEW c \in Callers, NEW o \in Options[c], CheckFails(c, o)
      PROVE  DeferralInTime'
  BY <1>2, CallerFacts DEF CheckFails, DeferInv, DeferralInTime, deferVars, Between, NoCaller
<1>3. ASSUME NEW c \in Callers, CheckClears(c)
      PROVE  DeferralInTime'
  BY <1>3, CallerFacts DEF CheckClears, DeferInv, DeferralInTime, deferVars, Between, NoCaller
<1>4. ASSUME NEW c \in Callers, CheckSkips(c)
      PROVE  DeferralInTime'
  BY <1>4, CallerFacts DEF CheckSkips, DeferInv, DeferralInTime, deferVars, Between, NoCaller
<1>5. ASSUME NEW run \in RunSets, NEW rcLost \in BOOLEAN, NEW sticks \in BOOLEAN,
             Finish(run, rcLost, sticks)
      PROVE  DeferralInTime'
  BY <1>5 DEF Finish, DeferralInTime
<1>6. ASSUME NEW enabled \in BOOLEAN, NEW timeout \in Timeouts, deferFailsafes(enabled, timeout)
      PROVE  DeferralInTime'
  BY <1>6 DEF deferFailsafes, DeferralInTime
<1>7. ASSUME NEW p \in Delays, updateParams(p)
      PROVE  DeferralInTime'
  BY <1>7 DEF updateParams, DeferralInTime
<1>8. CASE UNCHANGED vars
  BY <1>8 DEF vars, deferVars, DeferInv, DeferralInTime
<1>9. QED
  BY <1>1, <1>2, <1>3, <1>4, <1>5, <1>6, <1>7, <1>8 DEF Next

(* What Finish does with the selection.                                    *)
LEMMA FinishSelection ==
  ASSUME TypeOK, NEW run \in RunSets, NEW rcLost \in BOOLEAN, NEW sticks \in BOOLEAN,
         Finish(run, rcLost, sticks)
  PROVE  \E s, m, base, delayed : \E granted \in BOOLEAN :
           /\ Way(s, Final(run, rcLost), run, rcLost, m, base, delayed, granted)
           /\ deferAge' = IF ~s.deferred THEN NotStarted
                          ELSE IF deferAge = NotStarted THEN 0 ELSE deferAge
           /\ mode' = modifyUserIntendedMode(selected, s.action, s.mode)
           /\ selected' = s.action
           /\ failing'[Fallback] = checkModeFallback(mode, run, rcLost)
           /\ canRun' = run /\ UNCHANGED <<armed, defer, deferTimeout>>
<1>1. Final(run, rcLost) \in [Slots -> Entry]
  BY FinishTable, removeNonActivatedFacts DEF Final
<1>2. PICK took, del :
        LET s == getSelectedAction(Final(run, rcLost), took, del, run, rcLost, sticks)
        IN /\ deferAge' = IF ~s.deferred THEN NotStarted
                          ELSE IF deferAge = NotStarted THEN 0 ELSE deferAge
           /\ mode' = modifyUserIntendedMode(selected, s.action, s.mode)
           /\ selected' = s.action
           /\ failing' = [NoFailure EXCEPT ![Fallback] = checkModeFallback(mode, run, rcLost)]
           /\ canRun' = run /\ UNCHANGED <<armed, defer, deferTimeout>>
  BY DEF Finish, Final, Checked
<1>3. failing'[Fallback] = checkModeFallback(mode, run, rcLost)
  BY <1>2, CallerFacts DEF NoFailure
<1> DEFINE s == getSelectedAction(Final(run, rcLost), took, del, run, rcLost, sticks)
<1>4. \E m, base, delayed : \E granted \in BOOLEAN :
        Way(s, Final(run, rcLost), run, rcLost, m, base, delayed, granted)
  BY <1>1, SelectionWays
<1> HIDE DEF s
<1>5. /\ deferAge' = IF ~s.deferred THEN NotStarted
                     ELSE IF deferAge = NotStarted THEN 0 ELSE deferAge
      /\ mode' = modifyUserIntendedMode(selected, s.action, s.mode)
      /\ selected' = s.action /\ canRun' = run /\ UNCHANGED <<armed, defer, deferTimeout>>
  BY <1>2 DEF s
<1>6. QED
  BY <1>3, <1>4, <1>5

DeferralStep ==
  next' = Between /\ next # Between /\ deferAge' # NotStarted =>
    /\ deferTimeout > 0 => deferAge' <= deferTimeout
    /\ \A i \in Slots : Valid(actions'[i]) /\ actions'[i].opt.action # None =>
         actions'[i].opt.deferrable

LEMMA DeferralFinish ==
  ASSUME DeferInv, NEW run \in RunSets, NEW rcLost \in BOOLEAN, NEW sticks \in BOOLEAN,
         Finish(run, rcLost, sticks), deferAge' # NotStarted
  PROVE  DeferralStep
<1>1. TypeOK
  BY DEF DeferInv, TableInv
<1> DEFINE t == Final(run, rcLost)
<1>2. PICK s, m, base, delayed : \E granted \in BOOLEAN :
           /\ Way(s, t, run, rcLost, m, base, delayed, granted)
           /\ deferAge' = IF ~s.deferred THEN NotStarted
                          ELSE IF deferAge = NotStarted THEN 0 ELSE deferAge
  BY <1>1, FinishSelection
<1>3. s.deferred
  BY <1>2
<1>4. PICK granted \in BOOLEAN : Way(s, t, run, rcLost, m, base, delayed, granted)
  BY <1>2
<1>5. \A x, y, z : \A k \in BOOLEAN : s # Selection(x, y, z, k, FALSE)
  BY <1>3, SelectionFields
<1> HIDE DEF t
<1>6. defer /\ \A e \in Active(t) : e.opt.deferrable
  BY <1>4, <1>5 DEF Way
<1>7. actions' = t /\ next # Between
  BY <1>1, FinishTable, CallerFacts DEF t, Between, NoCaller
<1>8. \A i \in Slots : Valid(actions'[i]) /\ actions'[i].opt.action # None =>
         actions'[i].opt.deferrable
  BY <1>6, <1>7 DEF Active
<1>9. deferTimeout > 0 => deferAge' <= deferTimeout
  <2>1. deferAge' = IF deferAge = NotStarted THEN 0 ELSE deferAge
    BY <1>2, <1>3
  <2>2. QED
    BY <1>1, <1>6, <1>7, <2>1 DEF DeferInv, DeferralInTime, TypeOK
<1>10. QED
  BY <1>8, <1>9 DEF DeferralStep

LEMMA DeferralNext == DeferInv /\ [Next]_vars => DeferralStep
<1> SUFFICES ASSUME DeferInv, [Next]_vars, next' = Between, next # Between, deferAge' # NotStarted
             PROVE  DeferralStep
  BY DEF DeferralStep
<1>1. ~\E c \in Callers : next' = c + 1
  BY CallerFacts DEF Between, NoCaller
<1>2. PICK run \in RunSets, rcLost \in BOOLEAN, sticks \in BOOLEAN : Finish(run, rcLost, sticks)
  BY <1>1 DEF Next, Begin, CheckFails, CheckClears, CheckSkips, deferFailsafes, updateParams, vars,
              Between
<1>3. QED
  BY <1>2, DeferralFinish

(* Deferred failsafes are acted on once the time-out has passed, and those *)
(* that cannot be deferred never wait.                                     *)
THEOREM FailsafeDeferralEnds == Spec => DeferralEnds
<1>1. DeferInv /\ [Next]_vars => [DeferralStep]_vars
  BY DeferralNext
<1>2. QED
  BY <1>1, DeferInit, DeferStep, PTL DEF Spec, DeferralEnds, DeferralStep
-----------------------------------------------------------------------------
(* An entry of the mode fallback in the final table asks for what the      *)
(* fallback has just found, and cannot be deferred.                        *)
LEMMA FallbackEntry ==
  ASSUME TableInv, NEW run \in RunSets, NEW rcLost \in BOOLEAN, NEW sticks \in BOOLEAN,
         Finish(run, rcLost, sticks), checkModeFallback(mode, run, rcLost) # None,
         NEW i \in Slots, Final(run, rcLost)[i].id = Fallback
  PROVE  LET e == Final(run, rcLost)[i]
         IN  /\ Valid(e) /\ e.opt.action = checkModeFallback(mode, run, rcLost)
             /\ ~e.opt.deferrable
<1> DEFINE c == Checked(run, rcLost)
           a == checkModeFallback(mode, run, rcLost)
           e == Final(run, rcLost)[i]
<1>1. /\ actions \in [Slots -> Entry] /\ c \in [Slots -> Entry]
      /\ a \in Actions /\ FallbackOption(a) \in Option /\ actions' = Final(run, rcLost)
  BY FinishTable DEF TableInv
<1>2. Valid(e)
  BY CallerFacts DEF Valid
<1>3. e.id = c[i].id /\ e.opt = c[i].opt
  <2> HIDE DEF c
  <2>1. QED
    BY <1>1, <1>2, removeNonActivatedFacts DEF Final, c
<1>4. c[i].opt.action = a
  <2>1. c = Failed(actions, Fallback, FallbackOption(a))
    BY DEF Checked
  <2>2. FallbackOption(a).action = a
    BY <1>1, OptionFacts
  <2>3. QED
    BY <1>1, <1>3, <2>1, <2>2, FailedEntry, CallerFacts
<1>5. ~e.opt.deferrable
  <2>1. TableInv'
    BY TableStep DEF Next
  <2>2. QED
    BY <1>1, <2>1 DEF TableInv, FallbackStays
<1>6. QED
  BY <1>2, <1>3, <1>4, <1>5

LEMMA NavFinish ==
  ASSUME RclAction > Warn, TableInv, NEW run \in RunSets, NEW rcLost \in BOOLEAN,
         NEW sticks \in BOOLEAN, Finish(run, rcLost, sticks)
  PROVE  NavStateRuns'
<1> DEFINE t == Final(run, rcLost)
           a == checkModeFallback(mode, run, rcLost)
<1>1. PICK s, m, base, delayed : \E granted \in BOOLEAN :
           /\ Way(s, t, run, rcLost, m, base, delayed, granted)
           /\ mode' = modifyUserIntendedMode(selected, s.action, s.mode)
           /\ selected' = s.action
           /\ failing'[Fallback] = a
           /\ canRun' = run /\ armed' = armed
  BY FinishSelection DEF TableInv
<1>2. PICK granted \in BOOLEAN : Way(s, t, run, rcLost, m, base, delayed, granted)
  BY <1>1
<1>3. /\ run \in SUBSET Modes /\ mode \in Modes /\ a \in Actions /\ actions' = t
      /\ t \in [Slots -> Entry]
  BY FinishTable, removeNonActivatedFacts DEF TableInv, Final
<1> SUFFICES ASSUME armed, a # None => HasEntry(t, Fallback)
             PROVE  \/ selected' \in {Disarm, Terminate}
                    \/ modeFromAction(selected', mode') \in run
  BY <1>1, <1>3 DEF NavStateRuns, HasEntry
<1> HIDE DEF t
(* Without an action in the table, or with one that may be deferred, the   *)
(* mode can run.                                                           *)
<1>4. Worst(t) <= Warn => mode \in run
  <2>1. CASE a <= Warn
    BY <1>3, <2>1, FallbackFacts
  <2>2. CASE ~(a <= Warn)
    <3>1. a # None /\ a > Warn
      BY <1>3, <2>2, ActionValues
    <3>2. PICK i \in Slots : t[i].id = Fallback
      BY <3>1 DEF HasEntry
    <3>3. Valid(t[i]) /\ t[i].opt.action = a
      BY <3>1, <3>2, FallbackEntry DEF t
    <3>4. Worst(t) >= a /\ Worst(t) \in Actions
      BY <1>3, <3>3, WorstFacts
    <3>5. QED
      BY <1>3, <3>1, <3>4, ActionValues
  <2>3. QED
    BY <2>1, <2>2
<1>5. (\A e \in Active(t) : e.opt.deferrable) => mode \in run
  <2>1. CASE a = None
    BY <1>3, <2>1, FallbackFacts, ActionValues
  <2>2. CASE a # None
    <3>1. PICK i \in Slots : t[i].id = Fallback
      BY <2>2 DEF HasEntry
    <3>2. Valid(t[i]) /\ t[i].opt.action # None /\ ~t[i].opt.deferrable
      BY <2>2, <3>1, FallbackEntry DEF t
    <3>3. t[i] \in Active(t)
      BY <3>2 DEF Active
    <3>4. QED
      BY <3>2, <3>3
  <2>3. QED
    BY <2>1, <2>2
<1>6. m \in Modes
  BY <1>2, <1>3 DEF Way, Modes
<1>7. TakeoverAction(m, run, rcLost) \in Actions
      /\ (TakeoverAction(m, run, rcLost) <= Warn => m \in run)
  BY <1>3, <1>6, FallbackFacts, Max2, ActionValues DEF TakeoverAction
<1>8. base \in Actions /\ (base <= Warn => m \in run)
  <2>1. CASE granted
    BY <1>2, <1>7, <2>1 DEF Way
  <2>2. CASE ~granted
    BY <1>2, <1>3, <1>4, <2>2, WorstFacts, ActionValues DEF Way
  <2>3. QED
    BY <2>1, <2>2
<1>9. ASSUME NEW x \in {None, Warn}, NEW y \in Modes, y \in run, s.action = x, s.mode = y
      PROVE  modeFromAction(selected', mode') \in run
  <2>1. mode' = y
    BY <1>1, <1>9, ActionValues DEF modifyUserIntendedMode
  <2>2. QED
    BY <1>1, <1>9, <2>1, ModeOfAction, ActionValues
<1>10. CASE s = Selection(Terminate, None, mode, FALSE, FALSE)
  BY <1>1, <1>10 DEF Selection
<1>11. CASE /\ \A e \in Active(t) : e.opt.deferrable
            /\ s = Selection(None, None, mode, FALSE, Worst(t) > Warn)
  <2>1. s.action = None /\ s.mode = mode
    BY <1>11 DEF Selection
  <2>2. QED
    BY <1>3, <1>5, <1>9, <1>11, <2>1
<1>12. CASE m \in run /\ s = Selection(Warn, None, m, granted, FALSE)
  <2>1. s.action = Warn /\ s.mode = m
    BY <1>12 DEF Selection
  <2>2. QED
    BY <1>6, <1>9, <1>12, <2>1
<1>13. CASE s = Selection(Possible(base, run), delayed, m, granted, FALSE)
  <2>1. s.action = Possible(base, run) /\ s.mode = m
    BY <1>13 DEF Selection
  <2>2. CASE base \in {None, Warn}
    <3>1. Possible(base, run) = base /\ m \in run
      BY <1>3, <1>8, <2>2, PossibleFacts, ActionValues
    <3>2. QED
      BY <1>6, <1>9, <2>1, <2>2, <3>1
  <2>3. CASE base \in {Disarm, Terminate}
    BY <1>1, <1>3, <1>8, <2>1, <2>3, PossibleFacts
  <2>4. CASE base \in FallbackPosCtrl..Descend
    <3>1. mode' \in Modes
      BY <1>1, <1>6, <2>1 DEF modifyUserIntendedMode, Modes
    <3>2. QED
      BY <1>1, <1>3, <1>8, <2>1, <2>4, <3>1, PossibleFacts
  <2>5. QED
    BY <1>8, <2>2, <2>3, <2>4, ActionValues
<1>14. QED
  BY <1>2, <1>10, <1>11, <1>12, <1>13 DEF Way

(* Nothing else than Finish ends an update, and what it selects stays.     *)
NavInv == TableInv /\ NavStateRuns

LEMMA NavStep ==
  ASSUME RclAction > Warn, NavInv, [Next]_vars
  PROVE  NavInv'
<1>0. TableInv'
  BY TableStep DEF NavInv
<1> SUFFICES NavStateRuns'
  BY <1>0 DEF NavInv
<1>1. CASE next' # Between
  BY <1>1 DEF NavStateRuns
<1>2. CASE next' = Between
  <2>1. ~\E c \in Callers : next' = c + 1
    BY <1>2, CallerFacts DEF Between, NoCaller
  <2>2. CASE UNCHANGED <<next, armed, failing, actions, selected, mode, canRun>>
    BY <2>2 DEF NavInv, NavStateRuns, HasEntry
  <2>3. CASE \E run \in RunSets, rcLost \in BOOLEAN, sticks \in BOOLEAN :
               Finish(run, rcLost, sticks)
    BY <2>3, NavFinish DEF NavInv
  <2>4. QED
    BY <1>2, <2>1, <2>2, <2>3
       DEF Next, Begin, CheckFails, CheckClears, CheckSkips, deferFailsafes, updateParams, vars,
           tableVars, Between
<1>3. QED
  BY <1>1, <1>2

(* If the loss of manual control is always answered by an action, an armed *)
(* vehicle is in a mode that can run after every update in which the mode  *)
(* fallback has its entry.                                                 *)
THEOREM FailsafeNavStateRuns ==
  ASSUME RclAction > Warn
  PROVE  Spec => []NavStateRuns
<1>1. Init => NavInv
  BY TableInit DEF NavInv, NavStateRuns, Init
<1>2. NavInv /\ [Next]_vars => NavInv'
  BY NavStep
<1>3. NavInv => NavStateRuns
  BY DEF NavInv
<1>4. QED
  BY <1>1, <1>2, <1>3, PTL DEF Spec
-----------------------------------------------------------------------------
(* The delay before a failsafe action.  The time already held counts       *)
(* against the start delay, so that a failure that arrives when the delay  *)
(* has passed only gets what is left of it; the delay itself started one   *)
(* update before the first one that is held.                               *)
HoldInv ==
  /\ failActT \in Delays /\ startDelay <= failActT /\ delay <= MaxDelay
  /\ dt \in Periods \cup {0} /\ (next = Between => dt = 0)
  /\ startDelay > 0 => held + startDelay <= MaxDelay
  /\ delay > 0 => held + dt + delay <= MaxDelay + MaxPeriod
  /\ held > 0 => deferAge = NotStarted
  /\ HoldDelayBounded

LEMMA BoundFacts ==
  /\ MaxDelay \in Nat /\ \A d \in Delays : d \in Nat /\ d <= MaxDelay
  /\ MaxPeriod \in Nat /\ \A p \in Periods : p \in Nat /\ p <= MaxPeriod
<1>1. MaxDelay \in Delays /\ \A d \in Delays : d <= MaxDelay
  BY FailsafeConstants DEF MaxDelay, Max
<1>2. MaxPeriod \in Periods /\ \A p \in Periods : p <= MaxPeriod
  BY FailsafeConstants DEF MaxPeriod, Max
<1>3. QED
  BY <1>1, <1>2, FailsafeConstants

(* An action is delayed only while the delay runs and nothing is deferred. *)
LEMMA SelectionDelayed ==
  ASSUME NEW t, NEW took, NEW del, NEW run, NEW rcLost, NEW sticks,
         getSelectedAction(t, took, del, run, rcLost, sticks).delayed # None
  PROVE  /\ del > 0
         /\ ~getSelectedAction(t, took, del, run, rcLost, sticks).deferred
BY DEF getSelectedAction, Selection

LEMMA HoldFinish ==
  ASSUME TypeOK, HoldInv, NEW run \in RunSets, NEW rcLost \in BOOLEAN, NEW sticks \in BOOLEAN,
         Finish(run, rcLost, sticks)
  PROVE  HoldInv'
<1>1. /\ delay \in Nat /\ startDelay \in Nat /\ held \in Nat /\ dt \in Nat /\ failActT \in Nat
      /\ MaxDelay \in Nat /\ MaxPeriod \in Nat /\ failActT <= MaxDelay /\ dt <= MaxPeriod
  BY BoundFacts DEF TypeOK, HoldInv
<1> DEFINE fallback == checkModeFallback(mode, run, rcLost)
           option   == FallbackOption(fallback)
           checked  == IF fallback # None THEN Failed(actions, Fallback, option) ELSE actions
           table    == removeNonActivatedActions(checked)
           took     == IF fallback # None THEN TakeoverAfter(actions, Fallback, option)
                       ELSE takeover
           del      == IF selected > Hold \/ "AUTO_LOITER" \notin run \/ took THEN 0 ELSE delay
           s        == getSelectedAction(table, took, del, run, rcLost, sticks)
<1>2. /\ delay' = del /\ startDelay' = StartDelayAfter(s.delayed # None)
      /\ deferAge' = IF ~s.deferred THEN NotStarted
                     ELSE IF deferAge = NotStarted THEN 0 ELSE deferAge
      /\ held' = IF s.delayed # None THEN held + dt ELSE 0
  BY DEF Finish
<1> HIDE DEF fallback, option, checked, table, took
<1>3. /\ delay' = del /\ startDelay' = StartDelayAfter(s.delayed # None)
      /\ s.delayed # None => deferAge' = NotStarted /\ del > 0
      /\ held' = IF s.delayed # None THEN held + dt ELSE 0
  <2>1. s.delayed # None => del > 0 /\ ~s.deferred
    <3> HIDE DEF del
    <3>1. QED
      BY SelectionDelayed
  <2> HIDE DEF s, del
  <2>2. QED
    BY <1>2, <2>1
<1>4. del = 0 \/ del = delay
  OBVIOUS
<1>5. dt' = 0 /\ next' = Between /\ failActT' = failActT
  BY DEF Finish
<1> HIDE DEF s, del
<1>6. CASE s.delayed # None
  <2>1. startDelay' = IF startDelay - dt >= 0 THEN startDelay - dt ELSE 0
    BY <1>1, <1>3, <1>6, Max2 DEF StartDelayAfter
  <2>2. held' = held + dt /\ delay' = delay /\ delay > 0 /\ deferAge' = NotStarted
    BY <1>1, <1>3, <1>4, <1>6
  <2>3. QED
    BY <1>1, <1>5, <2>1, <2>2 DEF HoldInv, HoldDelayBounded
<1>7. CASE ~(s.delayed # None)
  <2>1. dt \div 4 \in Nat
    BY <1>1
  <2>2. startDelay' \in Nat /\ startDelay' <= failActT
    <3>1. startDelay' = IF startDelay + (dt \div 4) <= failActT THEN startDelay + (dt \div 4)
                        ELSE failActT
      BY <1>1, <1>3, <1>7, <2>1, Min2 DEF StartDelayAfter
    <3>2. QED
      BY <1>1, <2>1, <3>1
  <2>3. held' = 0 /\ delay' <= MaxDelay /\ delay' \in Nat
    BY <1>1, <1>3, <1>4, <1>7 DEF HoldInv
  <2>4. failActT' \in Delays /\ dt' \in Periods \cup {0} /\ (next' = Between => dt' = 0)
    BY <1>5 DEF HoldInv
  <2>5. startDelay' <= failActT' /\ held' + startDelay' <= MaxDelay
    <3>1. startDelay' <= failActT' /\ startDelay' <= MaxDelay
      BY <1>1, <1>5, <2>2
    <3>2. 0 + startDelay' <= MaxDelay
      BY <2>2, <3>1
    <3>3. QED
      BY <2>3, <3>1, <3>2
  <2>6. held' + dt' + delay' <= MaxDelay + MaxPeriod
    <3>1. delay' <= MaxDelay + MaxPeriod
      BY <1>1, <2>3
    <3>2. 0 + 0 + delay' <= MaxDelay + MaxPeriod
      BY <2>3, <3>1
    <3>3. QED
      BY <1>5, <2>3, <3>2
  <2>7. held' <= MaxDelay + MaxPeriod /\ ~(held' > 0)
    BY <1>1, <2>3
  <2>8. QED
    BY <2>3, <2>4, <2>5, <2>6, <2>7 DEF HoldInv, HoldDelayBounded
<1>8. QED
  BY <1>6, <1>7

LEMMA HoldStep == TypeOK /\ HoldInv /\ [Next]_vars => HoldInv'
<1> SUFFICES ASSUME TypeOK, HoldInv, [Next]_vars PROVE HoldInv'
  OBVIOUS
<1>0. /\ delay \in Nat /\ startDelay \in Nat /\ held \in Nat /\ dt \in Nat /\ failActT \in Nat
      /\ MaxDelay \in Nat /\ MaxPeriod \in Nat
  BY BoundFacts DEF TypeOK
<1>1. ASSUME NEW d \in Periods, NEW arm \in BOOLEAN, NEW request \in BOOLEAN,
             NEW m \in UserModes \cup {mode}, Begin(d, arm, request, m)
      PROVE  HoldInv'
  <2>1. d \in Nat /\ d <= MaxPeriod
    BY BoundFacts
  <2>2. /\ next' = 1 /\ next = Between /\ dt' = d
        /\ UNCHANGED <<startDelay, failActT, held>>
        /\ deferAge = NotStarted => deferAge' = NotStarted
        /\ delay' = IF deferAge = NotStarted THEN Max({delay - d, 0}) ELSE delay
    BY <1>1 DEF Begin
  <2>3. Max({delay - d, 0}) = IF delay - d >= 0 THEN delay - d ELSE 0
    BY <1>0, <2>1, Max2
  <2>4. QED
    BY <1>0, <2>1, <2>2, <2>3 DEF HoldInv, HoldDelayBounded, Between
<1>2. ASSUME NEW c \in Callers, NEW o \in Options[c], CheckFails(c, o)
      PROVE  HoldInv'
  <2>1. UNCHANGED <<startDelay, failActT, held, dt, deferAge>> /\ next' # Between
    BY <1>2, CallerFacts DEF CheckFails, deferVars, Between, NoCaller
  <2>2. delay' = delay \/ (delay = 0 /\ delay' = startDelay)
    BY <1>2 DEF CheckFails, DelayAfter
  <2>3. failActT <= MaxDelay /\ dt <= MaxPeriod
    BY BoundFacts DEF HoldInv
  <2>4. QED
    BY <1>0, <2>1, <2>2, <2>3 DEF HoldInv, HoldDelayBounded
<1>3. ASSUME NEW c \in Callers, CheckClears(c) \/ CheckSkips(c)
      PROVE  HoldInv'
  <2>1. UNCHANGED <<delay, startDelay, failActT, held, dt, deferAge>> /\ next' # Between
    BY <1>3, CallerFacts DEF CheckClears, CheckSkips, deferVars, tableVars, Between, NoCaller
  <2>2. QED
    BY <2>1 DEF HoldInv, HoldDelayBounded
<1>4. ASSUME NEW run \in RunSets, NEW rcLost \in BOOLEAN, NEW sticks \in BOOLEAN,
             Finish(run, rcLost, sticks)
      PROVE  HoldInv'
  BY <1>4, HoldFinish
<1>5. ASSUME NEW enabled \in BOOLEAN, NEW timeout \in Timeouts, deferFailsafes(enabled, timeout)
      PROVE  HoldInv'
  <2>1. UNCHANGED <<startDelay, failActT, held, dt, deferAge, next>> /\ delay' \in {0, delay}
    BY <1>5 DEF deferFailsafes
  <2>2. CASE delay' = delay
    BY <2>1, <2>2 DEF HoldInv, HoldDelayBounded
  <2>3. CASE delay' = 0
    <3>1. delay' <= MaxDelay /\ ~(delay' > 0)
      BY <1>0, <2>3
    <3>2. QED
      BY <2>1, <3>1 DEF HoldInv, HoldDelayBounded
  <2>4. QED
    BY <2>1, <2>2, <2>3
<1>6. ASSUME NEW p \in Delays, updateParams(p)
      PROVE  HoldInv'
  <2>1. /\ UNCHANGED <<delay, dt, deferAge, next>> /\ failActT' = p /\ startDelay' = p
        /\ held' = 0 /\ next = Between
    BY <1>6 DEF updateParams, tableVars, deferVars
  <2>2. QED
    BY <1>0, <2>1, BoundFacts DEF HoldInv, HoldDelayBounded
<1>7. CASE UNCHANGED vars
  BY <1>7 DEF vars, tableVars, deferVars, HoldInv, HoldDelayBounded
<1>8. QED
  BY <1>1, <1>2, <1>3, <1>4, <1>5, <1>6, <1>7 DEF Next

(* Whatever fails, clears or changes meanwhile, the vehicle is held before *)
(* a failsafe action for COM_FAIL_ACT_T and one update at most: no series  *)
(* of failures starts the delay anew.                                      *)
THEOREM FailsafeHoldDelay == Spec => []HoldDelayBounded
<1>1. Init => HoldInv
  <2> SUFFICES ASSUME Init PROVE HoldInv
    OBVIOUS
  <2>1. /\ failActT \in Delays /\ startDelay = failActT /\ delay = 0 /\ dt = 0 /\ held = 0
        /\ failActT \in Nat /\ failActT <= MaxDelay
    BY BoundFacts DEF Init
  <2>2. QED
    BY <2>1, BoundFacts DEF HoldInv, HoldDelayBounded
<1>2. HoldInv => HoldDelayBounded
  BY DEF HoldInv
<1>3. QED
  BY <1>1, <1>2, HoldStep, FailsafeTypeCorrectness, PTL DEF Spec
-----------------------------------------------------------------------------
(* Failures that a full table leaves out.  An entry that stands in the way *)
(* of a failure missed before is one of this update, and stays until its   *)
(* end unless a more severe one takes its place.                           *)
Below(e) == \A c \in CallerIds : missed[c] > None => e.opt.action < missed[c]
StandsFor(e, a) == Valid(e) /\ e.activated /\ e.opt.action >= a
Standing(t, a) == \E i \in Slots : StandsFor(t[i], a)

MissedInv ==
  /\ TableInv
  /\ \A i \in Slots : Valid(actions[i]) => actions[i].activated \/ Below(actions[i])
  /\ next # Between => \A c \in CallerIds : failing[c] > None =>
       c < next /\ (missed[c] > None /\ failing[c] >= missed[c] => Standing(actions, failing[c]))

LEMMA EntryAction ==
  ASSUME NEW e \in Entry
  PROVE  e.opt.action \in Int
BY ActionValues DEF Entry, Option

(* The failure of a caller that has not been checked in this update leaves *)
(* what stands standing.                                                   *)
LEMMA StandingKept ==
  ASSUME NEW t \in [Slots -> Entry], NEW c \in CallerIds, NEW o \in Option, NEW a \in Int,
         \A i \in Slots : Valid(t[i]) /\ t[i].activated => t[i].id # c,
         Standing(t, a)
  PROVE  Standing(Failed(t, c, o), a)
<1>1. PICK i \in Slots : StandsFor(t[i], a)
  BY DEF Standing
<1>2. t[i] \in Entry /\ t[i].id # c /\ Valid(t[i]) /\ t[i].activated /\ t[i].opt.action >= a
  BY <1>1 DEF StandsFor
<1> DEFINE f == Failed(t, c, o)[i]
<1>3. f = t[i] \/ (f.id = c /\ f.activated /\ f.opt.action = o.action
                   /\ o.action > t[i].opt.action)
  BY <1>2, FailedEntry
<1>4. o.action \in Int /\ t[i].opt.action \in Int
  BY <1>2, EntryAction, ActionValues DEF Option
<1>5. c # NoCaller
  BY CallerFacts
<1> HIDE DEF f
<1>6. StandsFor(f, a)
  BY <1>1, <1>2, <1>3, <1>4, <1>5 DEF StandsFor, Valid
<1>7. QED
  BY <1>6 DEF Standing, f

(* A failure that was missed before is not missed again, unless it has     *)
(* become less severe.                                                     *)
LEMMA FailureStands ==
  ASSUME NEW t \in [Slots -> Entry], NEW c \in CallerIds, NEW o \in Option,
         \A i \in Slots : Valid(t[i]) => t[i].activated \/ o.action > t[i].opt.action
  PROVE  Standing(Failed(t, c, o), o.action)
<1>0. o.action \in Int /\ c # NoCaller
  BY ActionValues, CallerFacts DEF Option
<1>1. CASE HasEntry(t, c)
  <2>1. PICK i \in Slots : t[i].id = c
    BY <1>1 DEF HasEntry
  <2>2. t[i] \in Entry /\ Failed(t, c, o)[i] = Updated(t[i], o)
    BY <1>1, <2>1, FailedFacts
  <2>3. StandsFor(Failed(t, c, o)[i], o.action)
    BY <1>0, <2>1, <2>2, UpdatedFacts DEF StandsFor, Valid
  <2>4. QED
    BY <2>3 DEF Standing
<1>2. CASE ~HasEntry(t, c) /\ Candidates(t, o) # {}
  <2> DEFINE i == Max(Candidates(t, o))
  <2>1. i \in Slots
    BY <1>2, CandidateFacts
  <2>2. Failed(t, c, o)[i] = NewEntry(c, o)
    BY <1>2, <2>1, FailedFacts
  <2> HIDE DEF i
  <2>3. StandsFor(Failed(t, c, o)[i], o.action)
    BY <1>0, <2>2, NewEntryFacts DEF StandsFor, Valid
  <2>4. QED
    BY <2>1, <2>3 DEF Standing
<1>3. CASE ~HasEntry(t, c) /\ Candidates(t, o) = {}
  <2>1. 1 \in Slots
    BY FailsafeConstants DEF Slots
  <2>2. Valid(t[1]) /\ ~(o.action > t[1].opt.action)
    BY <1>3, <2>1 DEF Candidates
  <2>3. t[1] \in Entry /\ Failed(t, c, o) = t
    BY <1>3, <2>1, FailedFacts
  <2>4. t[1].opt.action \in Int
    BY <2>3, EntryAction
  <2>5. StandsFor(t[1], o.action)
    BY <1>0, <2>1, <2>2, <2>4 DEF StandsFor
  <2>6. QED
    BY <2>1, <2>3, <2>5 DEF Standing
<1>4. QED
  BY <1>1, <1>2, <1>3

(* The same, for the table of an update.                                   *)
LEMMA MissedStands ==
  ASSUME MissedInv, NEW c \in CallerIds, next = c, NEW o \in Option,
         missed[c] > None, o.action >= missed[c]
  PROVE  Standing(Failed(actions, c, o), o.action)
<1>1. actions \in [Slots -> Entry] /\ missed[c] \in Int /\ o.action \in Int
  BY ActionValues DEF MissedInv, TableInv, TypeOK, Option
<1>2. ASSUME NEW i \in Slots, Valid(actions[i]), ~actions[i].activated
      PROVE  o.action > actions[i].opt.action
  <2>1. actions[i].opt.action < missed[c] /\ actions[i].opt.action \in Int
    BY <1>1, <1>2, EntryAction DEF MissedInv, Below
  <2>2. QED
    BY <1>1, <2>1
<1>3. QED
  BY <1>1, <1>2, FailureStands

(* Entries of this update belong to other callers than the one checked.    *)
LEMMA PassedOthers ==
  ASSUME TableInv, NEW c \in CallerIds, next = c
  PROVE  \A i \in Slots : Valid(actions[i]) /\ actions[i].activated => actions[i].id # c
<1>1. c \in Nat
  BY CallerFacts
<1>2. QED
  BY <1>1 DEF TableInv, Passed

LEMMA MissedFails ==
  ASSUME MissedInv, NEW c \in Callers, NEW o \in Options[c], CheckFails(c, o), TableInv'
  PROVE  MissedInv'
<1>1. /\ c \in CallerIds /\ o \in Option /\ c \in Nat /\ c # Between /\ c + 1 # Between
  BY CallerFacts, OptionFacts DEF Between, NoCaller
<1>2. /\ actions \in [Slots -> Entry] /\ next = c /\ next' = c + 1 /\ missed' = missed
      /\ actions' = Failed(actions, c, o) /\ failing' = [failing EXCEPT ![c] = o.action]
      /\ failing \in [CallerIds -> Actions] /\ missed \in [CallerIds -> Actions] /\ TableInv
  BY DEF MissedInv, TableInv, TypeOK, CheckFails
<1>3. ASSUME NEW i \in Slots, Valid(actions'[i])
      PROVE  actions'[i].activated \/ Below(actions[i])'
  <2>1. actions'[i] = actions[i] \/ actions'[i].activated
    BY <1>1, <1>2, FailedEntry
  <2>2. QED
    BY <1>2, <1>3, <2>1 DEF MissedInv, Below
<1>4. ASSUME NEW d \in CallerIds, failing'[d] > None
      PROVE  /\ d < next'
             /\ missed[d] > None /\ failing'[d] >= missed[d] => Standing(actions', failing'[d])
  <2>1. CASE d = c
    <3>1. failing'[d] = o.action
      BY <1>1, <1>2, <2>1
    <3>2. missed[d] > None /\ failing'[d] >= missed[d] => Standing(actions', failing'[d])
      BY <1>1, <1>2, <2>1, <3>1, MissedStands
    <3>3. QED
      BY <1>1, <1>2, <2>1, <3>2
  <2>2. CASE d # c
    <3>1. failing'[d] = failing[d] /\ failing[d] \in Int /\ d \in Nat
      BY <1>1, <1>2, <2>2, CallerFacts, ActionValues
    <3>2. d < c /\ (missed[d] > None /\ failing[d] >= missed[d] => Standing(actions, failing[d]))
      BY <1>1, <1>2, <1>4, <3>1 DEF MissedInv
    <3>3. Standing(actions, failing[d]) => Standing(actions', failing[d])
      BY <1>1, <1>2, <3>1, PassedOthers, StandingKept
    <3>4. QED
      BY <1>1, <1>2, <3>1, <3>2, <3>3
  <2>3. QED
    BY <2>1, <2>2
<1>5. QED
  BY <1>2, <1>3, <1>4 DEF MissedInv

LEMMA MissedClears ==
  ASSUME MissedInv, NEW c \in Callers, CheckClears(c) \/ CheckSkips(c), TableInv'
  PROVE  MissedInv'
<1>1. c \in CallerIds /\ c \in Nat /\ c # Between /\ c + 1 # Between
  BY CallerFacts DEF Between, NoCaller
<1>2. /\ actions \in [Slots -> Entry] /\ next = c /\ next' = c + 1
      /\ missed' = missed /\ failing' = failing /\ TableInv
  BY DEF MissedInv, TableInv, TypeOK, CheckClears, CheckSkips
<1>3. ASSUME NEW i \in Slots
      PROVE  actions'[i] = actions[i] \/ (actions[i].id = c /\ actions'[i] = Removed(actions[i]))
  BY DEF CheckClears, CheckSkips, tableVars
<1>4. ASSUME NEW i \in Slots, Valid(actions'[i])
      PROVE  actions'[i].activated \/ Below(actions[i])'
  <2>1. actions[i] \in Entry
    BY <1>2
  <2>2. \/ actions'[i] = actions[i]
        \/ actions'[i].opt = actions[i].opt /\ actions'[i].activated = actions[i].activated
           /\ actions'[i].id = actions[i].id
    <3>1. CASE actions'[i] = Removed(actions[i])
      <4>1. Removed(actions[i]) # Invalid
        BY <1>4, <3>1, InvalidType
      <4>2. actions'[i] = [actions[i] EXCEPT !.failure = FALSE]
        BY <2>1, <3>1, <4>1, RemovedFacts
      <4>3. QED
        BY <2>1, <4>2 DEF Entry
    <3>2. QED
      BY <1>3, <3>1
  <2>3. QED
    BY <1>2, <1>4, <2>2 DEF MissedInv, Below, Valid
<1>5. ASSUME NEW a, Standing(actions, a)
      PROVE  Standing(actions', a)
  <2>1. PICK i \in Slots : StandsFor(actions[i], a)
    BY <1>5 DEF Standing
  <2>2. actions[i].id # c
    BY <1>1, <1>2, <2>1, PassedOthers DEF StandsFor
  <2>3. actions'[i] = actions[i]
    BY <1>3, <2>2
  <2>4. QED
    BY <2>1, <2>3 DEF Standing, StandsFor
<1>6. ASSUME NEW d \in CallerIds, failing'[d] > None
      PROVE  /\ d < next'
             /\ missed[d] > None /\ failing'[d] >= missed[d] => Standing(actions', failing'[d])
  <2>1. d < c /\ (missed[d] > None /\ failing[d] >= missed[d] => Standing(actions, failing[d]))
    BY <1>1, <1>2, <1>6 DEF MissedInv
  <2>2. d \in Nat
    BY CallerFacts
  <2>3. QED
    BY <1>1, <1>2, <1>5, <2>1, <2>2
<1>7. QED
  BY <1>2, <1>4, <1>6 DEF MissedInv

(* What stands at the end of the checks covers its failure.                *)
LEMMA StandingCovers ==
  ASSUME NEW t \in [Slots -> Entry], NEW a \in Int, Standing(t, a)
  PROVE  Covered(removeNonActivatedActions(t), a)
<1>1. PICK i \in Slots : StandsFor(t[i], a)
  BY DEF Standing
<1> DEFINE r == removeNonActivatedActions(t)[i]
<1>2. r.id = t[i].id /\ r.opt = t[i].opt
  BY <1>1, removeNonActivatedFacts DEF StandsFor
<1>3. QED
  BY <1>1, <1>2 DEF StandsFor, Covered, Valid

(* The failures of an update, the mode fallback's included.                *)
Fails(run, rcLost) == [failing EXCEPT ![Fallback] = checkModeFallback(mode, run, rcLost)]

LEMMA MissedFinish ==
  ASSUME MissedInv, NEW run \in RunSets, NEW rcLost \in BOOLEAN, NEW sticks \in BOOLEAN,
         Finish(run, rcLost, sticks)
  PROVE  /\ missed' = [c \in CallerIds |-> IF Covered(actions', Fails(run, rcLost)[c])
                                           THEN None ELSE Fails(run, rcLost)[c]]
         /\ Fails(run, rcLost) \in [CallerIds -> Actions]
         /\ \A c \in CallerIds : missed[c] > None => missed'[c] < missed[c]
<1> DEFINE a == checkModeFallback(mode, run, rcLost)
           t == Checked(run, rcLost)
           F == Fails(run, rcLost)
<1>1. /\ actions \in [Slots -> Entry] /\ t \in [Slots -> Entry] /\ next = Fallback
      /\ actions' = removeNonActivatedActions(t) /\ a \in Actions /\ FallbackOption(a) \in Option
      /\ FallbackOption(a).action = a /\ TableInv
      /\ failing \in [CallerIds -> Actions] /\ missed \in [CallerIds -> Actions]
  BY FinishTable, OptionFacts DEF MissedInv, TableInv, TypeOK, Final
<1>2. Fallback \in CallerIds /\ Fallback # Between
  BY CallerFacts DEF Between, NoCaller
<1>3. missed' = [c \in CallerIds |-> IF Covered(actions', F[c]) THEN None ELSE F[c]]
  BY DEF Finish, Fails, Checked
<1>4. F \in [CallerIds -> Actions] /\ F[Fallback] = a
      /\ \A c \in CallerIds : c # Fallback => F[c] = failing[c]
  BY <1>1, <1>2 DEF Fails
<1>5. ASSUME NEW c \in CallerIds, missed[c] > None, F[c] >= missed[c]
      PROVE  Covered(actions', F[c])
  <2>1. F[c] \in Int /\ missed[c] \in Int /\ F[c] > None
    BY <1>1, <1>4, <1>5, ActionValues
  <2>2. Standing(t, F[c])
    <3>1. CASE c = Fallback
      <4>1. F[c] = a /\ a # None /\ t = Failed(actions, Fallback, FallbackOption(a))
        BY <1>4, <2>1, <3>1, ActionValues DEF Checked
      <4>2. QED
        BY <1>1, <1>2, <1>5, <3>1, <4>1, MissedStands
    <3>2. CASE c # Fallback
      <4>1. F[c] = failing[c]
        BY <1>4, <3>2
      <4>2. Standing(actions, F[c])
        BY <1>1, <1>2, <1>5, <2>1, <4>1 DEF MissedInv
      <4>3. CASE a = None
        BY <4>2, <4>3 DEF Checked
      <4>4. CASE a # None
        <5>1. t = Failed(actions, Fallback, FallbackOption(a))
          BY <4>4 DEF Checked
        <5>2. QED
          BY <1>1, <1>2, <2>1, <4>2, <5>1, PassedOthers, StandingKept
      <4>5. QED
        BY <4>3, <4>4
    <3>3. QED
      BY <3>1, <3>2
  <2>3. QED
    BY <1>1, <2>1, <2>2, StandingCovers
<1>6. ASSUME NEW c \in CallerIds, missed[c] > None
      PROVE  missed'[c] < missed[c]
  <2>1. F[c] \in Int /\ missed[c] \in Int /\ None \in Int
    BY <1>1, <1>4, ActionValues
  <2>2. CASE Covered(actions', F[c])
    BY <1>3, <1>6, <2>1, <2>2
  <2>3. CASE ~Covered(actions', F[c])
    <3>1. missed'[c] = F[c] /\ ~(F[c] >= missed[c])
      BY <1>3, <1>5, <1>6, <2>3
    <3>2. QED
      BY <2>1, <3>1
  <2>4. QED
    BY <2>2, <2>3
<1>7. QED
  BY <1>3, <1>4, <1>6

LEMMA MissedStep == MissedInv /\ [Next]_vars => MissedInv'
<1> SUFFICES ASSUME MissedInv, [Next]_vars PROVE MissedInv'
  OBVIOUS
<1>0. TableInv /\ TableInv' /\ actions \in [Slots -> Entry]
  BY TableStep DEF MissedInv, TableInv, TypeOK
<1>1. ASSUME NEW d \in Periods, NEW arm \in BOOLEAN, NEW request \in BOOLEAN,
             NEW m \in UserModes \cup {mode}, Begin(d, arm, request, m)
      PROVE  MissedInv'
  <2>1. PICK K : actions' = removeActions(actions, K)
    BY <1>1 DEF Begin
  <2>2. \A i \in Slots : actions'[i] = actions[i] \/ actions'[i] = Invalid
    BY <2>1 DEF removeActions
  <2>3. missed' = missed /\ failing' = NoFailure
    BY <1>1 DEF Begin
  <2>4. \A i \in Slots : Valid(actions'[i]) => actions'[i].activated \/ Below(actions[i])'
    BY <2>2, <2>3, InvalidType DEF MissedInv, Below
  <2>5. \A c \in CallerIds : ~(failing'[c] > None)
    BY <2>3, ActionValues DEF NoFailure
  <2>6. QED
    BY <1>0, <2>4, <2>5 DEF MissedInv
<1>2. ASSUME NEW c \in Callers, NEW o \in Options[c], CheckFails(c, o)
      PROVE  MissedInv'
  BY <1>0, <1>2, MissedFails
<1>3. ASSUME NEW c \in Callers, CheckClears(c) \/ CheckSkips(c)
      PROVE  MissedInv'
  BY <1>0, <1>3, MissedClears
<1>4. ASSUME NEW run \in RunSets, NEW rcLost \in BOOLEAN, NEW sticks \in BOOLEAN,
             Finish(run, rcLost, sticks)
      PROVE  MissedInv'
  <2> DEFINE F == Fails(run, rcLost)
  <2>1. /\ missed' = [c \in CallerIds |-> IF Covered(actions', F[c]) THEN None ELSE F[c]]
        /\ F \in [CallerIds -> Actions]
    BY <1>4, MissedFinish
  <2>2. actions' \in [Slots -> Entry] /\ next' = Between
    BY <1>0, <1>4 DEF TableInv, TypeOK, Finish
  <2> HIDE DEF F
  <2>3. ASSUME NEW i \in Slots, Valid(actions'[i])
        PROVE  Below(actions[i])'
    <3> SUFFICES ASSUME NEW c \in CallerIds, missed'[c] > None
                 PROVE  actions'[i].opt.action < missed'[c]
      BY DEF Below
    <3>1. missed'[c] = F[c] /\ ~Covered(actions', F[c]) /\ F[c] \in Int
      BY <2>1, ActionValues
    <3>2. ~(actions'[i].opt.action >= F[c])
      BY <2>3, <3>1 DEF Covered
    <3>3. actions'[i].opt.action \in Int
      BY <2>2, EntryAction
    <3>4. QED
      BY <3>1, <3>2, <3>3
  <2>4. QED
    BY <1>0, <2>2, <2>3 DEF MissedInv
<1>5. CASE UNCHANGED <<actions, missed, failing, next>>
  BY <1>0, <1>5 DEF MissedInv, Below, Standing, StandsFor
<1>6. QED
  BY <1>1, <1>2, <1>3, <1>4, <1>5
     DEF Next, deferFailsafes, updateParams, vars, tableVars

(* However full the table and whatever the other conditions do, a failure  *)
(* that found no room in one update is in the next one represented by an   *)
(* action at least as severe, unless it has become less severe itself.     *)
THEOREM FailsafeMissedOnce == Spec => MissedOnce
<1> DEFINE Step == next' = Between /\ next # Between =>
             \A c \in CallerIds : missed[c] > None => missed'[c] < missed[c]
<1>1. Init => MissedInv
  <2> SUFFICES ASSUME Init PROVE MissedInv
    OBVIOUS
  <2>1. \A i \in Slots : ~Valid(actions[i])
    BY InvalidType DEF Init
  <2>2. QED
    BY <2>1, TableInit DEF MissedInv, Init
<1>2. MissedInv /\ [Next]_vars => [Step]_vars
  <2> SUFFICES ASSUME MissedInv, Next, next' = Between, next # Between
               PROVE  \A c \in CallerIds : missed[c] > None => missed'[c] < missed[c]
    OBVIOUS
  <2>1. ~\E c \in Callers : next' = c + 1
    BY CallerFacts DEF Between, NoCaller
  <2>2. PICK run \in RunSets, rcLost \in BOOLEAN, sticks \in BOOLEAN :
          Finish(run, rcLost, sticks)
    BY <2>1 DEF Next, Begin, CheckFails, CheckClears, CheckSkips, deferFailsafes, updateParams,
                Between
  <2>3. QED
    BY <2>2, MissedFinish
<1>3. QED
  BY <1>1, <1>2, MissedStep, PTL DEF Spec, MissedOnce
=============================================================================
