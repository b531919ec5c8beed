------------------------------ MODULE Failsafe ------------------------------
(***************************************************************************)
(* The failsafe state machine of the commander (FailsafeBase and the parts *)
(* of Failsafe that decide on a mode fallback).  Commander calls update()  *)
(* periodically; update() clears what an arming or mode change clears,     *)
(* runs one checkFailsafe() per condition in a fixed order, and selects    *)
(* one action out of the bounded table of active actions.                  *)
(*                                                                         *)
(* One update() is a sequence of steps: Begin, one Check per caller, and   *)
(* Finish.  Nothing else runs in between: "next" is the program counter.   *)
(* The fields of an invalid entry are never read, so all are alike.        *)
(***************************************************************************)
EXTENDS Integers, FiniteSetsExt

CONSTANTS
  NumActions,    \* max_num_actions
  NumCallers,    \* callers of checkFailsafe() other than the mode fallback
  Options,       \* [Callers -> the ActionOptions the caller may pass]
  UserModes,     \* modes the user may ask for
  RunSets,       \* what modeCanRun() may hold for
  Delays,        \* values of COM_FAIL_ACT_T, in time units
  Periods,       \* time between two updates
  Timeouts,      \* values of _defer_timeout, 0 for none
  RclAction,     \* manualControlLossFallbackAction()
  MaxAge         \* bound on the age of a deferral that is told apart

(* enum class Action: "Actions further down take precedence".              *)
None == 0
Warn == 1
FallbackPosCtrl == 2
FallbackAltCtrl == 3
FallbackStab == 4
Hold == 5
RTL == 6
Land == 7
Descend == 8
Disarm == 9
Terminate == 10
Actions == None..Terminate

(* enum class UserTakeoverAllowed, ordered by restriction.                 *)
Always == 0
AlwaysModeSwitchOnly == 1
AutoTakeover == 2
Never == 3

ClearConditions == {"WhenConditionClears", "OnModeChangeOrDisarm", "OnDisarm", "Never"}

Modes == {"MANUAL", "POSCTL", "ALTCTL", "STAB", "AUTO_LOITER", "AUTO_RTL", "AUTO_LAND",
          "AUTO_PRECLAND", "DESCEND", "ORBIT", "TERMINATION"}

Callers   == 1..NumCallers
Fallback  == NumCallers + 1      \* _caller_id_mode_fallback
CallerIds == 1..Fallback
NoCaller  == 0                   \* the id of an invalid entry
Slots     == 1..NumActions
Between   == 0                   \* no update() is running
NotStarted == -1

MaxDelay   == Max(Delays)
MaxPeriod  == Max(Periods)

Option == [action : Actions, clear : ClearConditions, takeover : Always..Never,
           deferrable : BOOLEAN]
Entry  == [id : CallerIds \cup {NoCaller}, opt : Option, failure : BOOLEAN,
           activated : BOOLEAN]

(* COM_FAIL_ACT_T and the time between two updates are bounded.            *)
ASSUME FailsafeConstants ==
  /\ NumActions \in Nat \ {0} /\ NumCallers \in Nat
  /\ Options \in [Callers -> SUBSET Option]
  /\ UserModes \subseteq Modes /\ RunSets \subseteq SUBSET Modes
  /\ Delays \subseteq Nat /\ \E d \in Delays : \A e \in Delays : e <= d
  /\ Periods \subseteq Nat \ {0} /\ \E p \in Periods : \A r \in Periods : r <= p
  /\ Timeouts \subseteq Nat /\ MaxAge \in Nat /\ \A t \in Timeouts : t < MaxAge
  /\ RclAction \in Actions

VARIABLES
  next,        \* Between, or the caller that is checked next in update()
  actions,     \* _actions
  armed,       \* _last_armed
  mode,        \* _last_user_intended_mode, what Commander passes next
  updated,     \* user_intended_mode_updated of this update
  dt,          \* time_us - _last_update of this update
  selected,    \* _selected_action
  takeover,    \* _user_takeover_active
  delay,       \* _current_delay
  startDelay,  \* _current_start_delay
  failActT,    \* COM_FAIL_ACT_T
  defer,       \* _defer_failsafes
  deferTimeout,\* _defer_timeout
  deferAge,    \* time since _failsafe_defer_started, or NotStarted
  canRun,      \* history: modes that could run in the last update, none during one
  failing,     \* history: [CallerIds -> the action its failure asks for in this update],
               \* of which only the mode fallback's is kept after it
  missed,      \* history: the part of "failing" that the last update left out
  held         \* history: time spent in the delayed Hold since it was entered

tableVars == <<actions, takeover, delay>>
deferVars == <<defer, deferTimeout, deferAge>>
vars == <<next, tableVars, armed, mode, updated, dt, selected, startDelay, failActT,
          deferVars, canRun, failing, missed, held>>

NoOption == [action |-> None, clear |-> "WhenConditionClears", takeover |-> AutoTakeover,
             deferrable |-> TRUE]
Invalid == [id |-> NoCaller, opt |-> NoOption, failure |-> FALSE, activated |-> FALSE]
Valid(e) == e.id # NoCaller
NoFailure == [c \in CallerIds |-> None]

Init ==
  /\ next = Between /\ actions = [i \in Slots |-> Invalid]
  /\ armed = FALSE /\ mode = "MANUAL" /\ updated = FALSE /\ dt = 0
  /\ selected = None /\ takeover = FALSE
  /\ failActT \in Delays /\ startDelay = failActT /\ delay = 0
  /\ defer = FALSE /\ deferTimeout = 0 /\ deferAge = NotStarted
  /\ canRun = Modes
  /\ failing = NoFailure /\ missed = NoFailure /\ held = 0
-----------------------------------------------------------------------------
(* Mutant: an action is cleared while its condition still fails. *)
removeActions_StillFailing(t, conditions) ==
  [i \in Slots |->
     IF Valid(t[i]) /\ t[i].opt.clear \in conditions
       THEN Invalid ELSE t[i]]

removeActions(t, conditions) ==
  [i \in Slots |->
     IF Valid(t[i]) /\ ~t[i].failure /\ t[i].opt.clear \in conditions
       THEN Invalid ELSE t[i]]

(* Mutant: the deferral never times out. *)
DeferExpired_Never(age) == FALSE

DeferExpired(age) ==
  defer /\ age # NotStarted /\ deferTimeout > 0 /\ age > deferTimeout

(* The first part of update(): time passes, the user may arm, disarm or    *)
(* ask for a mode (which may be the one in force).                         *)
Begin(d, arm, request, m) ==
  /\ next = Between
  /\ request \/ m = mode
  /\ LET age     == IF deferAge = NotStarted THEN NotStarted ELSE Min({deferAge + d, MaxAge})
         arming  == armed # arm
         changed == request \/ (takeover /\ ~arming)
     IN  /\ actions' = removeActions(actions,
                         (IF arming THEN {"OnDisarm", "OnModeChangeOrDisarm"} ELSE {})
                         \cup (IF changed THEN {"OnModeChangeOrDisarm"} ELSE {}))
         /\ takeover' = (takeover /\ ~arming)
         /\ defer' = (defer /\ ~DeferExpired(age))
         /\ deferAge' = age
         /\ delay' = IF deferAge = NotStarted THEN Max({delay - d, 0}) ELSE delay
  /\ armed' = arm /\ mode' = m /\ updated' = request /\ dt' = d
  /\ next' = 1 /\ failing' = NoFailure /\ canRun' = {}
  /\ UNCHANGED <<selected, startDelay, failActT, deferTimeout, missed, held>>
-----------------------------------------------------------------------------
HasEntry(t, c) == \E i \in Slots : t[i].id = c

(* Mutant: a full table takes no new action. *)
Candidates_Free(t, o) == {i \in Slots : ~Valid(t[i])}

(* Where a new action may go: a free entry, or, in a full table, one that  *)
(* is less severe.  The loops keep the last index.                         *)
Candidates(t, o) ==
  LET free == {i \in Slots : ~Valid(t[i])}
  IN  IF free # {} THEN free ELSE {i \in Slots : o.action > t[i].opt.action}

IsAdded(t, c, o) == ~HasEntry(t, c) /\ Candidates(t, o) # {}

TakeoverOf(o) ==
  IF o.takeover # AutoTakeover THEN o.takeover
  ELSE IF failActT > 0 THEN Always ELSE AlwaysModeSwitchOnly

(* Mutant: the entry that is there is not looked for. *)
Failed_NoLookup(t, c, o) ==
  IF Candidates(t, o) # {}
    THEN [t EXCEPT ![Max(Candidates(t, o))] =
            [id |-> c, opt |-> [o EXCEPT !.takeover = TakeoverOf(o)],
             failure |-> TRUE, activated |-> TRUE]]
    ELSE t

(* The table after checkFailsafe() of a failing condition: the entry that  *)
(* is there only has its action updated.                                   *)
Failed(t, c, o) ==
  IF HasEntry(t, c)
    THEN [i \in Slots |->
            IF t[i].id = c
              THEN [t[i] EXCEPT !.opt.action = o.action, !.failure = TRUE, !.activated = TRUE]
              ELSE t[i]]
    ELSE IF Candidates(t, o) # {}
      THEN [t EXCEPT ![Max(Candidates(t, o))] =
              [id |-> c, opt |-> [o EXCEPT !.takeover = TakeoverOf(o)],
               failure |-> TRUE, activated |-> TRUE]]
      ELSE t

(* A new failsafe, other than a fallback, ends the user's takeover.        *)
TakeoverAfter(t, c, o) == takeover /\ ~(IsAdded(t, c, o) /\ o.action >= Hold)

(* Mutant: every new failure starts the delay anew. *)
DelayAfter_Restart(t, c, o) ==
  IF IsAdded(t, c, o) /\ o.takeover = AutoTakeover /\ failActT > 0 /\ o.action # Warn
    THEN failActT ELSE delay

DelayAfter(t, c, o) ==
  IF /\ IsAdded(t, c, o) /\ o.takeover = AutoTakeover /\ failActT > 0
     /\ o.action # Warn /\ delay = 0
    THEN startDelay ELSE delay

(* removeAction(): a latched action only has its state flagged, unless     *)
(* failsafes are being deferred.                                           *)
Removed(e) ==
  IF e.opt.clear = "WhenConditionClears" \/ (defer /\ e.opt.deferrable)
    THEN Invalid ELSE [e EXCEPT !.failure = FALSE]

(* checkFailsafe() of one condition in checkStateAndMode(): it fails, ...  *)
CheckFails(c, o) ==
  /\ next = c
  /\ actions' = Failed(actions, c, o)
  /\ takeover' = TakeoverAfter(actions, c, o)
  /\ delay' = DelayAfter(actions, c, o)
  /\ failing' = [failing EXCEPT ![c] = o.action]
  /\ next' = next + 1
  /\ UNCHANGED <<armed, mode, updated, dt, selected, startDelay, failActT, deferVars,
                 canRun, missed, held>>

(* ... it is valid after it failed in the last update, ...                 *)
CheckClears(c) ==
  /\ next = c /\ HasEntry(actions, c)
  /\ actions' = [i \in Slots |-> IF actions[i].id = c THEN Removed(actions[i]) ELSE actions[i]]
  /\ next' = next + 1
  /\ UNCHANGED <<takeover, delay, armed, mode, updated, dt, selected, startDelay, failActT,
                 deferVars, canRun, failing, missed, held>>

(* ... or the check is left out, or was valid before.                      *)
CheckSkips(c) ==
  /\ next = c
  /\ next' = next + 1
  /\ UNCHANGED <<tableVars, armed, mode, updated, dt, selected, startDelay, failActT,
                 deferVars, canRun, failing, missed, held>>
-----------------------------------------------------------------------------
removeNonActivatedActions(t) ==
  [i \in Slots |->
     LET e == IF Valid(t[i]) /\ ~t[i].activated THEN Removed(t[i]) ELSE t[i]
     IN  [e EXCEPT !.activated = FALSE]]

modeFromAction(a, m) ==
  CASE a = FallbackPosCtrl -> "POSCTL"
    [] a = FallbackAltCtrl -> "ALTCTL"
    [] a = FallbackStab    -> "STAB"
    [] a = Hold            -> "AUTO_LOITER"
    [] a = RTL             -> "AUTO_RTL"
    [] a = Land            -> "AUTO_LAND"
    [] a = Descend         -> "DESCEND"
    [] OTHER               -> m

(* A stick-controlled mode that cannot run is replaced by the next simpler *)
(* one, for which the mode that remains must be able to run.               *)
checkModeFallback(m, run, rcLost) ==
  LET m1 == IF m = "POSCTL" /\ m \notin run THEN "ALTCTL" ELSE m
      m2 == IF m1 = "ALTCTL" /\ m1 \notin run THEN "STAB" ELSE m1
      action == IF m2 = m THEN None
                ELSE IF m2 = "ALTCTL" THEN FallbackAltCtrl ELSE FallbackStab
  IN  IF m2 \notin run THEN RTL
      ELSE IF rcLost /\ action # None THEN RclAction ELSE action

(* The options of the mode fallback, the last check of checkStateAndMode().*)
FallbackOption(a) ==
  [action |-> a, clear |-> "WhenConditionClears", takeover |-> Always, deferrable |-> FALSE]

(* The first action, from a on, whose mode can run.                        *)
Possible(a, run) ==
  IF a \in FallbackPosCtrl..Descend
    THEN Min({b \in a..Descend : modeFromAction(b, "MANUAL") \in run} \cup {Terminate})
    ELSE a

(* Mutant: the fallback of the mode the user took over to is not checked. *)
TakeoverAction_NoFallback(m, run, rcLost) == Warn

TakeoverAction(m, run, rcLost) == Max({Warn, checkModeFallback(m, run, rcLost)})

(* Already landing or returning: a warning is enough.                      *)
AlreadyDoing(m, a, delayed, run) ==
  /\ m \in run
  /\ \/ m \in {"AUTO_LAND", "AUTO_RTL", "AUTO_PRECLAND"} /\ RTL \in {a, delayed}
     \/ m = "AUTO_PRECLAND" /\ Land \in {a, delayed}

Selection(a, delayed, m, took, deferred) ==
  [action |-> a, delayed |-> delayed, mode |-> m, takeover |-> took, deferred |-> deferred]

(* The most restrictive setting among all active actions.                  *)
Restriction(active) == Max({e.opt.takeover : e \in active} \cup {Always})

(* getSelectedAction().  took and del are the takeover and the delay at    *)
(* this point, t the table.                                                *)
getSelectedAction(t, took, del, run, rcLost, sticks) ==
  LET active == {e \in {t[i] : i \in Slots} : Valid(e) /\ e.opt.action # None}
      worst  == Max({e.opt.action : e \in active} \cup {None})
      isDelayed == /\ del > 0 /\ ~took /\ Restriction(active) <= AlwaysModeSwitchOnly
                   /\ worst \notin {None, Warn, Disarm, Terminate, Hold}
      allow   == IF isDelayed THEN AlwaysModeSwitchOnly ELSE Restriction(active)
      base    == IF isDelayed THEN Hold ELSE worst
      byMode  == updated /\ selected > Warn
      granted == /\ base \in {Hold, RTL, Land, Descend}
                 /\ \/ allow = Always /\ (took \/ byMode \/ sticks)
                    \/ allow = AlwaysModeSwitchOnly /\ (took \/ byMode)
      m       == IF granted /\ ~took /\ sticks THEN "POSCTL" ELSE mode
      action  == Possible(IF granted THEN TakeoverAction(m, run, rcLost) ELSE base, run)
      delayed == IF isDelayed /\ ~granted THEN worst ELSE None
  IN  IF mode = "TERMINATION" \/ selected = Terminate
        THEN Selection(Terminate, None, mode, FALSE, FALSE)
      ELSE IF ~armed THEN Selection(None, None, mode, FALSE, FALSE)
      ELSE IF defer /\ worst # None /\ \A e \in active : e.opt.deferrable
        THEN Selection(None, None, mode, FALSE, worst > Warn)
      ELSE IF AlreadyDoing(m, action, delayed, run)
        THEN Selection(Warn, None, m, granted, FALSE)
      ELSE Selection(action, delayed, m, granted, FALSE)

(* modifyUserIntendedMode(): a failsafe that engages ends an orbit.        *)
modifyUserIntendedMode(previous, current, m) ==
  IF previous <= Warn /\ current > Warn /\ m = "ORBIT" THEN "AUTO_LOITER" ELSE m

(* updateStartDelay(): it recovers at a quarter of the rate.               *)
StartDelayAfter(active) ==
  IF active THEN Max({startDelay - dt, 0}) ELSE Min({startDelay + dt \div 4, failActT})

Covered(t, a) == \E i \in Slots : Valid(t[i]) /\ t[i].opt.action >= a

(* The rest of update(), from the check of the mode fallback on.           *)
Finish(run, rcLost, sticks) ==
  /\ next = Fallback
  /\ LET fallback == checkModeFallback(mode, run, rcLost)
         option   == FallbackOption(fallback)
         checked  == IF fallback # None THEN Failed(actions, Fallback, option) ELSE actions
         table    == removeNonActivatedActions(checked)
         took     == IF fallback # None THEN TakeoverAfter(actions, Fallback, option)
                     ELSE takeover
         del      == IF selected > Hold \/ "AUTO_LOITER" \notin run \/ took THEN 0 ELSE delay
         s        == getSelectedAction(table, took, del, run, rcLost, sticks)
         fails    == [failing EXCEPT ![Fallback] = fallback]
     IN  /\ actions' = table /\ takeover' = s.takeover /\ delay' = del
         /\ startDelay' = StartDelayAfter(s.delayed # None)
         /\ deferAge' = IF ~s.deferred THEN NotStarted
                        ELSE IF deferAge = NotStarted THEN 0 ELSE deferAge
         /\ mode' = modifyUserIntendedMode(selected, s.action, s.mode)
         /\ selected' = s.action
         /\ failing' = [NoFailure EXCEPT ![Fallback] = fallback]
         /\ missed' = [c \in CallerIds |-> IF Covered(table, fails[c]) THEN None ELSE fails[c]]
         /\ held' = IF s.delayed # None THEN held + dt ELSE 0
  /\ canRun' = run /\ next' = Between /\ updated' = FALSE /\ dt' = 0
  /\ UNCHANGED <<armed, failActT, defer, deferTimeout>>
-----------------------------------------------------------------------------
(* deferFailsafes(), called by Commander after update().                   *)
deferFailsafes(enabled, timeout) ==
  /\ next = Between
  /\ ~(enabled /\ selected > Warn)
  /\ delay' = IF ~enabled /\ defer /\ deferAge = NotStarted THEN 0 ELSE delay
  /\ defer' = enabled /\ deferTimeout' = timeout
  /\ UNCHANGED <<next, actions, takeover, armed, mode, updated, dt, selected, startDelay,
                 failActT, deferAge, canRun, failing, missed, held>>

(* updateParams(); what is told apart is the time since the last one.      *)
updateParams(delayParam) ==
  /\ next = Between
  /\ failActT' = delayParam /\ startDelay' = delayParam /\ held' = 0
  /\ UNCHANGED <<next, tableVars, armed, mode, updated, dt, selected, deferVars, canRun,
                 failing, missed>>

Next ==
  \/ \E d \in Periods, arm \in BOOLEAN, request \in BOOLEAN, m \in UserModes \cup {mode} :
       Begin(d, arm, request, m)
  \/ \E c \in Callers : \E o \in Options[c] : CheckFails(c, o)
  \/ \E c \in Callers : CheckClears(c)
  \/ \E c \in Callers : CheckSkips(c)
  \/ \E run \in RunSets, rcLost \in BOOLEAN, sticks \in BOOLEAN : Finish(run, rcLost, sticks)
  \/ \E enabled \in BOOLEAN, timeout \in Timeouts : deferFailsafes(enabled, timeout)
  \/ \E delayParam \in Delays : updateParams(delayParam)

Spec == Init /\ [][Next]_vars
-----------------------------------------------------------------------------
(* Every variable stays in its type; no delay wraps.                       *)
TypeOK ==
  /\ next \in {Between} \cup CallerIds /\ actions \in [Slots -> Entry]
  /\ armed \in BOOLEAN /\ mode \in Modes /\ updated \in BOOLEAN /\ dt \in Nat
  /\ selected \in Actions /\ takeover \in BOOLEAN
  /\ delay \in Nat /\ startDelay \in Nat /\ failActT \in Nat
  /\ defer \in BOOLEAN /\ deferTimeout \in Nat /\ deferAge \in Nat \cup {NotStarted}
  /\ canRun \subseteq Modes /\ failing \in [CallerIds -> Actions]
  /\ missed \in [CallerIds -> Actions] /\ held \in Nat

(* A failure that a full table leaves out is, if it persists, represented  *)
(* by an action at least as severe after the next update: it can only be   *)
(* missed again as a less severe one.                                      *)
MissedOnce ==
  [][next' = Between /\ next # Between =>
       \A c \in CallerIds : missed[c] > None => missed'[c] < missed[c]]_vars

(* One entry per caller: checkFailsafe() never duplicates an id.           *)
OneEntryPerCaller ==
  \A i, j \in Slots : Valid(actions[i]) /\ actions[i].id = actions[j].id => i = j

(* A latched action stays until the condition has cleared and the user has *)
(* disarmed or changed the mode; it is dropped earlier only in favour of a *)
(* more severe one, or while failsafes are deferred.                       *)
LatchedStays ==
  [][\A i \in Slots :
       LET e == actions[i]
       IN  Valid(e) /\ e.opt.clear # "WhenConditionClears" /\ actions'[i].id # e.id =>
             \/ Valid(actions'[i]) /\ actions'[i].opt.action > e.opt.action
             \/ defer /\ e.opt.deferrable /\ ~e.activated
             \/ /\ ~e.failure /\ next = Between
                /\ \/ e.opt.clear # "Never" /\ armed' # armed
                   \/ e.opt.clear = "OnModeChangeOrDisarm" /\ (updated' \/ takeover)]_vars

(* An armed vehicle is never put into, or left in, a mode that cannot run: *)
(* neither by the failsafe, nor by the user taking over, nor by deferring. *)
(* (A mode fallback for which the full table had no room is not acted on.) *)
NavStateRuns ==
  next = Between /\ armed /\ (failing[Fallback] # None => HasEntry(actions, Fallback)) =>
    \/ selected \in {Disarm, Terminate}
    \/ modeFromAction(selected, mode) \in canRun

(* However many failures arrive one after the other, the vehicle is held   *)
(* before the failsafe action for COM_FAIL_ACT_T and one update at most.   *)
HoldDelayBounded ==
  held <= MaxDelay + MaxPeriod

(* Deferred failsafes are executed once the time-out has passed, and those *)
(* that cannot be deferred are not deferred.                               *)
DeferralEnds ==
  [][next' = Between /\ next # Between /\ deferAge' # NotStarted =>
       /\ deferTimeout > 0 => deferAge' <= deferTimeout
       /\ \A i \in Slots : Valid(actions'[i]) /\ actions'[i].opt.action # None =>
            actions'[i].opt.deferrable]_vars
=============================================================================
