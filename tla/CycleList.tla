------------------------------ MODULE CycleList ------------------------------
(***************************************************************************)
(* The doubly linked list of lib/cycle_list.cc, pointer by pointer.  The   *)
(* links are part of the elements (pcb.ready_elem) and are never cleared:  *)
(* an element that left the list still points to its old neighbours.       *)
(*                                                                         *)
(* The ghost variable inside records which elements the callers have put   *)
(* in and not taken out.  The callers insert only what is outside and      *)
(* remove only what is inside, never from an empty list: for the ready     *)
(* lists this is ReadyListsMatchStatus of module Process.                  *)
(***************************************************************************)
EXTENDS Naturals, FiniteSets, Sequences, SequencesExt

CONSTANTS
  Elems,        \* the elements
  HEAD, TAIL,   \* the two sentinels of the list object
  NIL           \* the null pointer

ASSUME ElemsAssumption ==
  /\ HEAD # TAIL
  /\ {HEAD, TAIL} \cap Elems = {}
  /\ NIL \notin Elems \cup {HEAD, TAIL}
  /\ IsFiniteSet(Elems)

VARIABLES next, prev, inside

listVars == <<next, prev, inside>>

Nodes == Elems \cup {HEAD, TAIL}

\* initialize(); the links of an element are zero at first.
ListInit ==
  /\ next = [n \in Nodes |-> IF n = HEAD THEN TAIL ELSE NIL]
  /\ prev = [n \in Nodes |-> IF n = TAIL THEN HEAD ELSE NIL]
  /\ inside = {}

\* A faulty variant, for the check that a property notices it: the last element not linked.
AppendElem_NoLink(e) ==
  /\ next' = [next EXCEPT ![e] = TAIL]
  /\ prev' = [prev EXCEPT ![e] = prev[TAIL], ![TAIL] = e]
  /\ inside' = inside \cup {e}

\* append(): four assignments, the third through tail.prev.
AppendElem(e) ==
  /\ next' = [next EXCEPT ![e] = TAIL, ![prev[TAIL]] = e]
  /\ prev' = [prev EXCEPT ![e] = prev[TAIL], ![TAIL] = e]
  /\ inside' = inside \cup {e}

\* push().
PushElem(e) ==
  /\ next' = [next EXCEPT ![e] = next[HEAD], ![HEAD] = e]
  /\ prev' = [prev EXCEPT ![e] = HEAD, ![next[HEAD]] = e]
  /\ inside' = inside \cup {e}

\* A faulty variant, for the check that a property notices it: one direction only.
RemoveElem_OneWay(e) ==
  /\ next' = [next EXCEPT ![prev[e]] = next[e]]
  /\ UNCHANGED prev
  /\ inside' = inside \ {e}

\* A faulty variant, for the check that a property notices it: the links cleared.
RemoveElem_Clears(e) ==
  /\ next' = [next EXCEPT ![prev[e]] = next[e], ![e] = NIL]
  /\ prev' = [prev EXCEPT ![next[e]] = prev[e], ![e] = NIL]
  /\ inside' = inside \ {e}

\* remove(): the neighbours skip e, whose own links stay.
RemoveElem(e) ==
  /\ next' = [next EXCEPT ![prev[e]] = next[e]]
  /\ prev' = [prev EXCEPT ![next[e]] = prev[e]]
  /\ inside' = inside \ {e}

IsEmpty == next[HEAD] = TAIL

\* pop(): remove the first element.
PopElem == ~IsEmpty /\ RemoveElem(next[HEAD])

\* next_elem().
NextOf(e) == IF next[e] = TAIL THEN next[HEAD] ELSE next[e]

ListNext ==
  \/ \E e \in Elems \ inside : AppendElem(e) \/ PushElem(e)
  \/ \E e \in inside : RemoveElem(e)
  \/ PopElem

ListSpec == ListInit /\ [][ListNext]_listVars

-----------------------------------------------------------------------------
(* The walk from head to tail (get_length) and the list it visits. *)

\* The n-th node behind HEAD along the links; stays at TAIL or NIL.
NodeAt(links, from, n) ==
  LET at[i \in 0 .. n] ==
        IF i = 0 THEN from
        ELSE IF at[i - 1] \in {HEAD, TAIL, NIL} /\ i > 1 THEN at[i - 1] ELSE links[at[i - 1]]
  IN  at[n]

\* The elements it meets before it leaves them, no more than there are.
Walk(links, from) ==
  LET ends == {n \in 0 .. Cardinality(Elems) : NodeAt(links, from, n + 1) \notin Elems}
  IN  [n \in 1 .. Min(ends \cup {Cardinality(Elems)}) |-> NodeAt(links, from, n)]

List == Walk(next, HEAD)

Abstract == INSTANCE AbstractList WITH list <- List

-----------------------------------------------------------------------------
(* Properties. *)

\* Both directions of links visit exactly the elements inside, in opposite
\* orders, and end at the other sentinel, whatever stale links the elements
\* outside still hold (cycle_list.cc 18-42).
LinksAgree ==
  /\ ToSet(List) = inside
  /\ Len(List) = Cardinality(inside)
  /\ Walk(prev, TAIL) = Reverse(List)
  /\ NodeAt(next, HEAD, Cardinality(inside) + 1) = TAIL
  /\ NodeAt(prev, TAIL, Cardinality(inside) + 1) = HEAD

\* The pointer list is a sequence: every operation does to the walk what the
\* abstract operation does to the sequence.
RefinesAbstractList == Abstract!Spec

\* Right after an element left, its stale next link still names its successor,
\* or wraps to the first element: schedule() calls next_elem on an element it
\* or self_block() has just removed (process.cc 150, 168 and 278).
StaleNextIsSuccessor ==
  [][\A e \in inside \ inside' :
       inside' # {} =>
         LET i == CHOOSE j \in DOMAIN List : List[j] = e
         IN  NextOf(e)' = IF i = Len(List) THEN Head(List') ELSE List[i + 1]]_listVars

=============================================================================
