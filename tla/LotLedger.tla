----------------------------- MODULE LotLedger -----------------------------
(***************************************************************************)
(* What a planning stage promises about the lots it is given.              *)
(*                                                                         *)
(* Every demand-anchored lot starts in the slot it is due in.  A stage may *)
(* move a lot, once, to one of the slots that are alternatives to the one  *)
(* it is due in, if there is room; it may postpone a lot only when neither *)
(* its own slot nor any alternative has room for it.  When the stage ends  *)
(* no slot holds more lots than its capacity.  No lot is ever lost: each   *)
(* is in exactly one slot, or recorded as postponed.                       *)
(***************************************************************************)
EXTENDS Integers, FiniteSets

CONSTANTS
  Lots,              \* the lots of one demand plan
  Slots,             \* where a lot can be planned: a node and a week
  Postponed          \* the place of a lot that is only a backlog record

VARIABLES
  due,           \* the slot each lot is due in
  alternatives,  \* the other slots it may move to
  capacity,      \* how many lots each slot can take
  place,         \* where each lot is now
  closed         \* the stage has ended

given  == << due, alternatives, capacity >>
ledger == << due, alternatives, capacity, place, closed >>

Load(slot) == Cardinality({ l \in Lots : place[l] = slot })

HasRoom(slot) == Load(slot) < capacity[slot]

Open ==
  /\ due \in [Lots -> Slots]
  /\ alternatives \in [Lots -> SUBSET Slots]
  /\ capacity \in [Slots -> Nat]
  /\ place = due
  /\ closed = FALSE

(* A lot waiting in an overfull slot moves to an alternative with room.    *)
Move(l, slot) ==
  /\ ~closed
  /\ place[l] = due[l]
  /\ Load(due[l]) > capacity[due[l]]
  /\ HasRoom(slot)
  /\ place' = [place EXCEPT ![l] = slot]
  /\ UNCHANGED << given, closed >>

(* It is postponed when no alternative has room.                           *)
Postpone(l) ==
  /\ ~closed
  /\ place[l] = due[l]
  /\ Load(due[l]) > capacity[due[l]]
  /\ \A slot \in alternatives[l] : ~HasRoom(slot)
  /\ place' = [place EXCEPT ![l] = Postponed]
  /\ UNCHANGED << given, closed >>

Close ==
  /\ ~closed
  /\ \A slot \in Slots : Load(slot) <= capacity[slot]
  /\ closed' = TRUE
  /\ UNCHANGED << given, place >>

Step ==
  \/ \E l \in Lots : \E slot \in alternatives[l] : Move(l, slot)
  \/ \E l \in Lots : Postpone(l)
  \/ Close

Spec == Open /\ [][Step]_ledger
=============================================================================
