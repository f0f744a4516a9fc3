------------------------------- MODULE Replay -------------------------------
(***************************************************************************)
(* The replay of the business animation: AnimationController of            *)
(* pysi/gui/business_animation/animation_controller.py and the parts of    *)
(* BusinessAnimationPanel that drive it.                                   *)
(*                                                                         *)
(* Everything runs on Tk's event loop: an action is one callback, a button *)
(* of the panel, a refresh from the cockpit or a timer that has come due.  *)
(* What interleaves is the order of callbacks.  The controller remembers   *)
(* only the last timer it started; an earlier one may still be pending.    *)
(***************************************************************************)
EXTENDS Integers, FiniteSets

CONSTANTS
  Contexts,      \* the plans the cockpit hands over
  WeeksOf,       \* snapshots built from each, 0 when building them fails
  Modes, Nodes,  \* what the view can show, "none" for no node
  HalfSpeeds,    \* the speeds offered, as multiples of 0.5
  BaseInterval,  \* base_interval_ms, in steps of the model's clock
  TimerIds       \* bound: timers that may be pending at once

ASSUME WeeksOfAssumption      == WeeksOf \in [Contexts -> Nat]
ASSUME HalfSpeedsAssumption   == HalfSpeeds \subseteq Nat \ {0} /\ 2 \in HalfSpeeds
ASSUME BaseIntervalAssumption == BaseInterval \in Nat \ {0}
ASSUME TimerIdsAssumption     == 0 \notin TimerIds
ASSUME NodesAssumption        == "none" \in Nodes

VARIABLES
  snapshots,         \* the plan whose weekly snapshots the controller holds
  current_index, is_playing, speed_mult, mode, selected_node_id, \* ReplayState
  after_id,          \* _after_id, 0 for None
  timers,            \* Tk: the pending timers, each with the time it has left
  view,              \* what the panel shows
  touched            \* history: flips with every Pause, Stop and step

state == << snapshots, current_index, is_playing, speed_mult, mode,
            selected_node_id >>
vars  == << snapshots, current_index, is_playing, speed_mult, mode,
            selected_node_id, after_id, timers, view, touched >>

Last      == WeeksOf[snapshots] - 1
Interval(speed) == (2 * BaseInterval) \div speed

(* render_current: with no snapshots it raises, and the view stays as it   *)
(* was (set_context catches the exception, Tk reports those of the         *)
(* buttons).                                                               *)
Shown == [snapshots |-> snapshots, index |-> current_index, mode |-> mode,
          node |-> selected_node_id]
Render == view' = IF WeeksOf[snapshots'] > 0 THEN Shown' ELSE view

Init ==
  /\ snapshots \in { c \in Contexts : WeeksOf[c] > 0 }   \* the demo snapshots
  /\ current_index = 0
  /\ is_playing = FALSE
  /\ speed_mult = 2
  /\ mode \in Modes
  /\ selected_node_id = "none"
  /\ after_id = 0
  /\ timers = << >>
  /\ view = Shown
  /\ touched = FALSE

----------------------------------------------------------------------------
(* The timers                                                              *)

Without(id) == [i \in DOMAIN timers \ {id} |-> timers[i]]
With(ts, id, left) ==
  [i \in DOMAIN ts \cup {id} |-> IF i = id THEN left ELSE ts[i]]

(* _schedule_next starts a timer and remembers it in place of the last.    *)
Schedule(pending) ==
  LET id == CHOOSE i \in TimerIds : i \notin DOMAIN pending
  IN /\ timers' = With(pending, id, Interval(speed_mult))
     /\ after_id' = id

(* pause: only the timer that is remembered is cancelled.                  *)
Pause ==
  /\ is_playing' = FALSE
  /\ timers' = Without(after_id)
  /\ after_id' = 0

----------------------------------------------------------------------------
(* The buttons                                                             *)

(* Fault: the flag is set and no timer started.                            *)
OnPlayFlagOnly ==
  /\ WeeksOf[snapshots] > 0
  /\ is_playing' = TRUE
  /\ UNCHANGED << snapshots, current_index, speed_mult, mode,
                  selected_node_id, after_id, timers, view, touched >>
(* play does not ask whether it plays already.                             *)
OnPlay ==
  /\ WeeksOf[snapshots] > 0
  /\ DOMAIN timers # TimerIds                            \* bound
  /\ is_playing' = TRUE
  /\ Schedule(timers)
  /\ UNCHANGED << snapshots, current_index, speed_mult, mode,
                  selected_node_id, view, touched >>

OnPause ==
  /\ Pause
  /\ touched' = ~touched
  /\ UNCHANGED << snapshots, current_index, speed_mult, mode,
                  selected_node_id, view >>

(* stop, step_forward and step_backward pause, move and draw.              *)
HoldAt(index) ==
  /\ Pause
  /\ current_index' = index
  /\ touched' = ~touched
  /\ UNCHANGED << snapshots, speed_mult, mode, selected_node_id >>
  /\ Render

OnStop == HoldAt(0)
OnForward == HoldAt(IF current_index < Last THEN current_index + 1
                                            ELSE current_index)
OnBack == HoldAt(IF current_index > 0 THEN current_index - 1
                                         ELSE current_index)

(* A new speed counts from the next timer on.                              *)
OnSpeedChanged ==
  /\ speed_mult' \in HalfSpeeds
  /\ UNCHANGED << snapshots, current_index, is_playing, mode,
                  selected_node_id, after_id, timers, view, touched >>

OnModeChanged ==
  /\ mode' \in Modes
  /\ UNCHANGED << snapshots, current_index, is_playing, speed_mult,
                  selected_node_id, after_id, timers, touched >>
  /\ Render

(* A click on a node of the view, or update_selection from the cockpit.    *)
OnNodeSelected ==
  /\ selected_node_id' \in Nodes
  /\ UNCHANGED << snapshots, current_index, is_playing, speed_mult, mode,
                  after_id, timers, touched >>
  /\ Render

----------------------------------------------------------------------------
(* The cockpit and the clock                                               *)

(* Fault: a refresh keeps the week it was on.                              *)
SetContextKeepsIndex ==
  /\ snapshots' \in Contexts
  /\ selected_node_id' \in Nodes
  /\ UNCHANGED << current_index, is_playing, speed_mult, mode, after_id,
                  timers, touched >>
  /\ Render
(* set_context: new snapshots, back to the first week; a replay that plays *)
(* goes on, its timer is not touched.                                      *)
SetContext ==
  /\ snapshots' \in Contexts
  /\ selected_node_id' \in Nodes
  /\ current_index' = 0
  /\ UNCHANGED << is_playing, speed_mult, mode, after_id, timers, touched >>
  /\ Render

(* Tk's clock.  A timer that is due may fire late.                         *)
Elapse ==
  /\ \E id \in DOMAIN timers : timers[id] > 0
  /\ timers' = [id \in DOMAIN timers |->
                  IF timers[id] > 0 THEN timers[id] - 1 ELSE 0]
  /\ UNCHANGED << snapshots, current_index, is_playing, speed_mult, mode,
                  selected_node_id, after_id, view, touched >>

(* _tick of a timer that is due, whichever chain it belongs to.            *)
IgnoreTick(id) ==
  /\ ~is_playing
  /\ timers' = Without(id)
  /\ UNCHANGED << state, after_id, view, touched >>

(* Fault: the tick does not look at is_playing.                            *)
TickForwardAlways(id) ==
  /\ current_index < Last
  /\ current_index' = current_index + 1
  /\ Schedule(Without(id))
  /\ UNCHANGED << snapshots, is_playing, speed_mult, mode, selected_node_id,
                  touched >>
  /\ Render
(* Fault: the tick does not schedule the next one.                         *)
TickForwardOnce(id) ==
  /\ is_playing
  /\ current_index < Last
  /\ current_index' = current_index + 1
  /\ timers' = Without(id)
  /\ UNCHANGED << snapshots, is_playing, speed_mult, mode, selected_node_id,
                  after_id, touched >>
  /\ Render
TickForward(id) ==
  /\ is_playing
  /\ current_index < Last
  /\ current_index' = current_index + 1
  /\ Schedule(Without(id))
  /\ UNCHANGED << snapshots, is_playing, speed_mult, mode, selected_node_id,
                  touched >>
  /\ Render

TickAtEnd(id) ==
  /\ is_playing
  /\ current_index >= Last
  /\ is_playing' = FALSE
  /\ timers' = [i \in DOMAIN timers \ {id, after_id} |-> timers[i]]
  /\ after_id' = 0
  /\ UNCHANGED << snapshots, current_index, speed_mult, mode,
                  selected_node_id, view, touched >>

Fires(id) ==
  /\ timers[id] = 0
  /\ IgnoreTick(id) \/ TickForward(id) \/ TickAtEnd(id)

Tick == \E id \in DOMAIN timers : Fires(id)

Next ==
  \/ OnPlay \/ OnPause \/ OnStop \/ OnForward \/ OnBack
  \/ OnSpeedChanged \/ OnModeChanged \/ OnNodeSelected
  \/ SetContext \/ Elapse \/ Tick

(* Time passes and Tk runs a timer that is due.  Users are free to do      *)
(* nothing.                                                                *)
Spec == Init /\ [][Next]_vars /\ WF_vars(Elapse) /\ WF_vars(Tick)

----------------------------------------------------------------------------
(* Properties                                                              *)

(* The types of the controller's state, and the remembered timer's: the    *)
(* index is a week of the snapshots whenever there are any.                *)
TypeOK ==
  /\ snapshots \in Contexts
  /\ current_index \in Nat
  /\ is_playing \in BOOLEAN
  /\ speed_mult \in HalfSpeeds
  /\ mode \in Modes
  /\ selected_node_id \in Nodes
  /\ after_id \in TimerIds \cup {0}
  /\ DOMAIN timers \subseteq TimerIds
  /\ timers \in [DOMAIN timers -> Nat]
  /\ touched \in BOOLEAN

(* A replay that plays has a tick to come, and it is one Pause can cancel; *)
(* a replay that rests remembers none.  Without this a replay would freeze *)
(* while its flag says that it plays, or move on after Pause.              *)
PlayingHasATick ==
  IF is_playing THEN after_id \in DOMAIN timers ELSE after_id = 0

(* The index is inside the snapshots and what the panel shows is that week *)
(* of those snapshots, after every order of refreshes, ticks and clicks -  *)
(* unless the last refresh brought no snapshots at all.                    *)
ShownIsCurrent ==
  /\ current_index = 0 \/ current_index <= Last
  /\ WeeksOf[snapshots] > 0 => view = Shown

(* A replay that is started ends, unless the cockpit goes on refreshing it *)
(* for ever: if refreshes cease, playing leads to not playing.             *)
ReplayEnds == (<>[][~SetContext]_vars) => (is_playing ~> ~is_playing)

(* The watcher's view of it: weeks go by one at a time and only while it   *)
(* plays, it stops by itself only on the last week, and while it plays it  *)
(* goes on, also when lost timers tick into it.                            *)
Player == INSTANCE ReplayHead WITH
            last <- Last, pos <- current_index, playing <- is_playing,
            touched <- touched
ImplementsReplayHead == Player!Spec

=============================================================================
