---------------------------- MODULE AbstractList -----------------------------
(***************************************************************************)
(* What a list of distinct elements promises its users: it is a sequence   *)
(* that grows at either end and gives up its first or any one element.     *)
(***************************************************************************)
EXTENDS Sequences, SequencesExt

CONSTANT Elems

VARIABLE list

Init == list = <<>>

Append_(e) == ~Contains(list, e) /\ list' = Append(list, e)

Push(e) == ~Contains(list, e) /\ list' = <<e>> \o list

Remove_(e) == \E i \in DOMAIN list : list[i] = e /\ list' = RemoveAt(list, i)

Next == \E e \in Elems : Append_(e) \/ Push(e) \/ Remove_(e)

Spec == Init /\ [][Next]_list

=============================================================================
