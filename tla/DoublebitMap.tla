---------------------------- MODULE DoublebitMap ----------------------------
(***************************************************************************)
(* mm/doublebit_map.cc: a map with two bits for each page, which tell a    *)
(* page on its own from the first and the last page of a run, so that a    *)
(* run can be given back by its first page alone.                          *)
(*                                                                         *)
(* The map is a function from the slots to their two bits.  initialize     *)
(* passes memset its arguments in the wrong order and clears nothing; the  *)
(* memory the map lies in is clear when the machine starts.  The map has   *)
(* bytes_len bytes of four slots and the search runs over eight slots for  *)
(* each: the slots here are all those the search sees.                     *)
(***************************************************************************)
EXTENDS Integers, FiniteSets, FiniteSetsExt

CONSTANT NSLOTS       \* slots the search runs over: bytes_len * 8

ASSUME SlotsAssumption == NSLOTS \in Nat

Slots == 0 .. NSLOTS - 1

SLOT_FREE == 0
SLOT_USED_SINGLE == 1
SLOT_SEQ_START == 2
SLOT_SEQ_END == 3
SlotValues == {SLOT_FREE, SLOT_USED_SINGLE, SLOT_SEQ_START, SLOT_SEQ_END}

\* Mark a run of cnt slots; the inner ones look like single ones.
sync(map, start, cnt) ==
  [i \in Slots |->
     CASE i \notin start .. start + cnt - 1 -> map[i]
       [] i = start /\ cnt > 1 -> SLOT_SEQ_START
       [] i = start + cnt - 1 /\ cnt > 1 -> SLOT_SEQ_END
       [] OTHER -> SLOT_USED_SINGLE]

\* The first run of cnt free slots, -1 when there is none.
get_free_slots(map, cnt) ==
  LET fits == {i \in Slots : \A j \in i .. i + cnt - 1 :
                               j \in Slots /\ map[j] = SLOT_FREE}
  IN  IF fits = {} THEN -1 ELSE Min(fits)

\* A faulty variant, for the check that a property notices it: the last slot
\* of a run is forgotten.
RunLength_NoEnd(map, idx) ==
  IF map[idx] = SLOT_USED_SINGLE THEN 1
  ELSE IF map[idx] # SLOT_SEQ_START THEN 0
  ELSE Min({j \in Slots : j > idx /\ map[j] = SLOT_SEQ_END}) - idx

\* How many slots free_slots gives back: one, the run up to its end, or none
\* when the slot is not the first of anything.
RunLength(map, idx) ==
  IF map[idx] = SLOT_USED_SINGLE THEN 1
  ELSE IF map[idx] # SLOT_SEQ_START THEN 0
  ELSE Min({j \in Slots : j > idx /\ map[j] = SLOT_SEQ_END}) - idx + 1

free_slots(map, idx) ==
  [i \in Slots |-> IF i \in idx .. idx + RunLength(map, idx) - 1
                   THEN SLOT_FREE ELSE map[i]]

=============================================================================
