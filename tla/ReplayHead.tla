----------------------------- MODULE ReplayHead -----------------------------
(***************************************************************************)
(* What a player of weekly frames promises the person who watches it,      *)
(* without timers: a head on a list of weeks that moves by itself, one     *)
(* week at a time, while it plays and only then, and that stops by itself  *)
(* only on the last week.                                                  *)
(***************************************************************************)
EXTENDS Integers

VARIABLES
  last,     \* the last position of the list, -1 when it is empty
  pos,      \* the position shown
  playing,
  touched   \* flips when the watcher takes the head in hand

vars == << last, pos, playing, touched >>

Init == /\ last \in Nat
        /\ pos = 0
        /\ playing = FALSE
        /\ touched = FALSE

(* What the watcher does.                                                  *)
Play == /\ last >= 0
        /\ playing' = TRUE
        /\ UNCHANGED << last, pos, touched >>

Hold == /\ playing' = FALSE
        /\ touched' = ~touched
        /\ \/ pos' \in {pos, 0}
           \/ pos' = pos + 1 /\ pos < last
           \/ pos' = pos - 1 /\ pos > 0
        /\ UNCHANGED last

Load == /\ last' \in Nat \cup {-1}
        /\ pos' = 0
        /\ UNCHANGED << playing, touched >>

(* What the head does by itself.                                           *)
Move == /\ playing
        /\ IF pos < last THEN pos' = pos + 1 /\ UNCHANGED playing
                         ELSE playing' = FALSE /\ UNCHANGED pos
        /\ UNCHANGED << last, touched >>

Next == Play \/ Hold \/ Load \/ Move

(* Weak fairness of Move, which is enabled exactly while it plays, written *)
(* without ENABLED so that TLC can evaluate it under a refinement mapping. *)
KeepsMoving == []<>(~playing) \/ []<><< Move >>_vars

Moves == Init /\ [][Next]_vars
Spec  == Moves /\ KeepsMoving
=============================================================================
