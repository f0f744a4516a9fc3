---------------------------- MODULE ReplayProofs ----------------------------
(***************************************************************************)
(* Theorems about the replay, for any plans, speeds and number of timers.  *)
(***************************************************************************)
EXTENDS Replay, TLAPS

LEMMA IntervalType ==
  ASSUME NEW speed \in Nat \ {0} PROVE Interval(speed) \in Nat
  BY BaseIntervalAssumption DEF Interval

(* Tk's timers stay what they are when one is taken out or put in.         *)
TimersOK(ts) == DOMAIN ts \subseteq TimerIds /\ ts \in [DOMAIN ts -> Nat]

LEMMA WithoutOK ==
  ASSUME TimersOK(timers), NEW id
  PROVE  TimersOK(Without(id)) /\ DOMAIN Without(id) = DOMAIN timers \ {id}
  BY DEF TimersOK, Without

LEMMA ScheduleOK ==
  ASSUME NEW pending, TimersOK(pending), DOMAIN pending # TimerIds,
         speed_mult \in Nat \ {0}, Schedule(pending)
  PROVE  /\ TimersOK(timers')
         /\ after_id' \in TimerIds
         /\ after_id' \in DOMAIN timers'
<1> DEFINE id == CHOOSE i \in TimerIds : i \notin DOMAIN pending
<1>1. id \in TimerIds
  BY DEF TimersOK
<1>2. Interval(speed_mult) \in Nat
  BY IntervalType
<1>3. /\ timers' = With(pending, id, Interval(speed_mult))
      /\ after_id' = id
  BY DEF Schedule
<1> HIDE DEF id
<1> QED
  BY <1>1, <1>2, <1>3 DEF TimersOK, With

----------------------------------------------------------------------------
(* The inductive invariant: the three invariants together.                 *)
Inv == TypeOK /\ PlayingHasATick /\ ShownIsCurrent

LEMMA InitInv == Init => Inv
<1> SUFFICES ASSUME Init PROVE Inv
  OBVIOUS
<1>1. DOMAIN timers = {} /\ timers \in [{} -> Nat]
  BY DEF Init
<1>2. TypeOK
  BY <1>1, HalfSpeedsAssumption, NodesAssumption DEF Init, TypeOK
<1>3. PlayingHasATick
  BY DEF Init, PlayingHasATick
<1>4. ShownIsCurrent
  BY DEF Init, ShownIsCurrent
<1> QED
  BY <1>2, <1>3, <1>4 DEF Inv

(* What Pause leaves of the timers.                                        *)
LEMMA PauseOK ==
  ASSUME TypeOK, Pause
  PROVE  /\ is_playing' = FALSE /\ after_id' = 0
         /\ DOMAIN timers' \subseteq TimerIds /\ timers' \in [DOMAIN timers' -> Nat]
  BY WithoutOK DEF TypeOK, Pause, TimersOK

(* The buttons that hold the replay at a week of the snapshots.            *)
LEMMA HoldOK ==
  ASSUME Inv, NEW index \in Nat, HoldAt(index), index = 0 \/ index <= Last
  PROVE  Inv'
<1>1. /\ is_playing' = FALSE /\ after_id' = 0
      /\ DOMAIN timers' \subseteq TimerIds /\ timers' \in [DOMAIN timers' -> Nat]
  BY PauseOK DEF HoldAt, Inv
<1>2. TypeOK'
  BY <1>1 DEF HoldAt, Inv, TypeOK
<1>3. PlayingHasATick'
  BY <1>1 DEF PlayingHasATick
<1>4. ShownIsCurrent'
  BY DEF HoldAt, ShownIsCurrent, Render, Last
<1> QED
  BY <1>2, <1>3, <1>4 DEF Inv

(* Starting a timer, whether by Play or by a tick.                         *)
LEMMA TickingOK ==
  ASSUME TypeOK, NEW pending, TimersOK(pending), DOMAIN pending # TimerIds,
         Schedule(pending)
  PROVE  /\ TimersOK(timers')
         /\ after_id' \in TimerIds
         /\ after_id' \in DOMAIN timers'
<1>1. speed_mult \in Nat \ {0}
  BY HalfSpeedsAssumption DEF TypeOK
<1> QED
  BY <1>1, ScheduleOK

LEMMA NextInv == Inv /\ [Next]_vars => Inv'
<1> SUFFICES ASSUME Inv, [Next]_vars PROVE Inv'
  OBVIOUS
<1> USE DEF Inv
<1>1. CASE OnPlay
  <2>1. /\ TimersOK(timers')
        /\ after_id' \in TimerIds
        /\ after_id' \in DOMAIN timers'
    BY <1>1, TickingOK DEF OnPlay, TypeOK, TimersOK
  <2>2. TypeOK' /\ PlayingHasATick'
    BY <1>1, <2>1 DEF OnPlay, TypeOK, PlayingHasATick, TimersOK
  <2>3. ShownIsCurrent'
    BY <1>1 DEF OnPlay, ShownIsCurrent, Shown, Last
  <2> QED
    BY <2>2, <2>3
<1>2. CASE OnPause
  <2>1. TypeOK' /\ PlayingHasATick'
    BY <1>2, PauseOK DEF OnPause, TypeOK, PlayingHasATick
  <2>2. ShownIsCurrent'
    BY <1>2 DEF OnPause, ShownIsCurrent, Shown, Last
  <2> QED
    BY <2>1, <2>2
<1>3. CASE OnStop
  BY <1>3, HoldOK DEF OnStop
<1>4. CASE OnForward
  <2>1. Last \in Int /\ current_index \in Nat
    BY WeeksOfAssumption DEF TypeOK, Last
  <2>2. CASE current_index < Last
    BY <1>4, <2>1, <2>2, HoldOK DEF OnForward
  <2>3. CASE ~(current_index < Last)
    BY <1>4, <2>1, <2>3, HoldOK DEF OnForward, ShownIsCurrent
  <2> QED
    BY <2>2, <2>3
<1>5. CASE OnBack
  <2>1. Last \in Int /\ current_index \in Nat
    BY WeeksOfAssumption DEF TypeOK, Last
  <2>2. CASE current_index > 0
    <3>1. current_index - 1 \in Nat /\ current_index - 1 <= Last
      BY <2>1, <2>2 DEF ShownIsCurrent
    <3> QED
      BY <1>5, <2>2, <3>1, HoldOK DEF OnBack
  <2>3. CASE ~(current_index > 0)
    BY <1>5, <2>1, <2>3, HoldOK DEF OnBack, ShownIsCurrent
  <2> QED
    BY <2>2, <2>3
<1>6. CASE OnSpeedChanged
  BY <1>6 DEF OnSpeedChanged, TypeOK, PlayingHasATick, ShownIsCurrent, Shown, Last
<1>7. CASE OnModeChanged
  <2>1. TypeOK' /\ PlayingHasATick'
    BY <1>7 DEF OnModeChanged, TypeOK, PlayingHasATick
  <2>2. ShownIsCurrent'
    BY <1>7 DEF OnModeChanged, ShownIsCurrent, Render, Last
  <2> QED
    BY <2>1, <2>2
<1>8. CASE OnNodeSelected
  <2>1. TypeOK' /\ PlayingHasATick'
    BY <1>8 DEF OnNodeSelected, TypeOK, PlayingHasATick
  <2>2. ShownIsCurrent'
    BY <1>8 DEF OnNodeSelected, ShownIsCurrent, Render, Last
  <2> QED
    BY <2>1, <2>2
<1>9. CASE SetContext
  <2>1. TypeOK' /\ PlayingHasATick'
    BY <1>9 DEF SetContext, TypeOK, PlayingHasATick
  <2>2. ShownIsCurrent'
    BY <1>9 DEF SetContext, ShownIsCurrent, Render
  <2> QED
    BY <2>1, <2>2
<1>10. CASE Elapse
  <2>1. DOMAIN timers' = DOMAIN timers /\ timers' \in [DOMAIN timers -> Nat]
    BY <1>10 DEF Elapse, TypeOK
  <2>2. TypeOK' /\ PlayingHasATick'
    BY <1>10, <2>1 DEF Elapse, TypeOK, PlayingHasATick
  <2>3. ShownIsCurrent'
    BY <1>10 DEF Elapse, ShownIsCurrent, Shown, Last
  <2> QED
    BY <2>2, <2>3
<1>11. CASE Tick
  <2>1. PICK id \in DOMAIN timers : Fires(id)
    BY <1>11 DEF Tick
  <2>2. TimersOK(Without(id)) /\ DOMAIN Without(id) = DOMAIN timers \ {id}
    BY WithoutOK DEF TypeOK, TimersOK
  <2>3. CASE IgnoreTick(id)
    <3>1. TypeOK' /\ PlayingHasATick'
      BY <2>2, <2>3 DEF IgnoreTick, TypeOK, PlayingHasATick, TimersOK, state
    <3>2. ShownIsCurrent'
      BY <2>3 DEF IgnoreTick, ShownIsCurrent, Shown, Last, state
    <3> QED
      BY <3>1, <3>2
  <2>4. CASE TickForward(id)
    <3>1. DOMAIN Without(id) # TimerIds
      BY <2>1, <2>2 DEF TypeOK
    <3>2. /\ TimersOK(timers')
          /\ after_id' \in TimerIds
          /\ after_id' \in DOMAIN timers'
      BY <2>2, <2>4, <3>1, TickingOK DEF TickForward
    <3>3. TypeOK' /\ PlayingHasATick'
      BY <2>4, <3>2 DEF TickForward, TypeOK, PlayingHasATick, TimersOK
    <3>4. Last \in Int /\ Last' = Last
      BY <2>4, WeeksOfAssumption DEF TickForward, TypeOK, Last
    <3>5. ShownIsCurrent'
      BY <2>4, <3>4 DEF TickForward, TypeOK, ShownIsCurrent, Render
    <3> QED
      BY <3>3, <3>5
  <2>5. CASE TickAtEnd(id)
    <3>1. TypeOK' /\ PlayingHasATick'
      BY <2>5 DEF TickAtEnd, TypeOK, PlayingHasATick
    <3>2. ShownIsCurrent'
      BY <2>5 DEF TickAtEnd, ShownIsCurrent, Shown, Last
    <3> QED
      BY <3>1, <3>2
  <2> QED
    BY <2>1, <2>3, <2>4, <2>5 DEF Fires
<1>12. CASE UNCHANGED vars
  BY <1>12 DEF vars, TypeOK, PlayingHasATick, ShownIsCurrent, Shown, Last
<1> QED
  BY <1>1, <1>2, <1>3, <1>4, <1>5, <1>6, <1>7, <1>8, <1>9, <1>10, <1>11, <1>12
     DEF Next

LEMMA Inductive == Spec => []Inv
  BY InitInv, NextInv, PTL DEF Spec

----------------------------------------------------------------------------

(* The controller's state keeps its types; no timer is ever lost from the  *)
(* table, whichever chain it belongs to.                                   *)
THEOREM TypeCorrect == Spec => []TypeOK
  BY Inductive, PTL DEF Inv

(* While the replay plays, the remembered timer is pending; at rest none   *)
(* is remembered.                                                          *)
THEOREM NeverFrozen == Spec => []PlayingHasATick
  BY Inductive, PTL DEF Inv

(* The panel shows the week and the snapshots the controller is at.        *)
THEOREM ViewIsCurrent == Spec => []ShownIsCurrent
  BY Inductive, PTL DEF Inv

(* The steps of the replay are those of a player of weekly frames: the     *)
(* week changes by one and only while it plays, it stops by itself on the  *)
(* last week only, and a new plan begins at its first week - with any      *)
(* number of lost timers.  (That it goes on is left to TLC.)               *)
THEOREM StepsOfThePlayer == Spec => Player!Moves
<1>1. Init => Player!Init
  BY WeeksOfAssumption DEF Init, Player!Init, Last
<1>2. Inv /\ [Next]_vars => [Player!Next]_(Player!vars)
  <2> SUFFICES ASSUME Inv, [Next]_vars PROVE [Player!Next]_(Player!vars)
    OBVIOUS
  <2>a. /\ Last \in Nat \cup {-1} /\ current_index \in Nat
        /\ current_index = 0 \/ current_index <= Last
    BY WeeksOfAssumption DEF Inv, TypeOK, ShownIsCurrent, Last
  <2>b. snapshots' = snapshots => Last' = Last
    BY DEF Last
  <2>1. CASE OnPlay
    <3>1. Player!Play
      BY <2>1, <2>a, <2>b, WeeksOfAssumption DEF OnPlay, Player!Play, Last, Inv, TypeOK
    <3> QED
      BY <3>1 DEF Player!Next
  <2>2. CASE OnPause
    <3>1. Player!Hold
      BY <2>2, <2>b DEF OnPause, Pause, Player!Hold
    <3> QED
      BY <3>1 DEF Player!Next
  <2>3. CASE OnStop \/ OnForward \/ OnBack
    <3>1. Player!Hold
      BY <2>3, <2>a, <2>b
         DEF OnStop, OnForward, OnBack, HoldAt, Pause, Player!Hold
    <3> QED
      BY <3>1 DEF Player!Next
  <2>4. CASE OnSpeedChanged \/ OnModeChanged \/ OnNodeSelected \/ Elapse
    BY <2>4, <2>b
       DEF OnSpeedChanged, OnModeChanged, OnNodeSelected, Elapse, Player!vars
  <2>5. CASE SetContext
    <3>1. Last' \in Nat \cup {-1}
      BY <2>5, WeeksOfAssumption DEF SetContext, Last
    <3>2. Player!Load
      BY <2>5, <3>1 DEF SetContext, Player!Load
    <3> QED
      BY <3>2 DEF Player!Next
  <2>6. CASE Tick
    <3>1. PICK id \in DOMAIN timers : Fires(id)
      BY <2>6 DEF Tick
    <3>2. CASE IgnoreTick(id)
      BY <3>2, <2>b DEF IgnoreTick, Player!vars, state
    <3>3. CASE TickForward(id) \/ TickAtEnd(id)
      <4>1. Player!Move
        BY <3>3, <2>a, <2>b DEF TickForward, TickAtEnd, Player!Move
      <4> QED
        BY <4>1 DEF Player!Next
    <3> QED
      BY <3>1, <3>2, <3>3 DEF Fires
  <2>7. CASE UNCHANGED vars
    BY <2>7, <2>b DEF vars, Player!vars
  <2> QED
    BY <2>1, <2>2, <2>3, <2>4, <2>5, <2>6, <2>7 DEF Next
<1> QED
  BY <1>1, <1>2, Inductive, PTL DEF Spec, Player!Moves
=============================================================================
