--------------------------------- MODULE Arp ---------------------------------
(***************************************************************************)
(* net/arp.cc: ArpCacheTable.  A table of NITEMS items, each a hardware    *)
(* address, an internet address and the number of times it was looked up.  *)
(* An item whose hardware address is zero is free.  Operators take a table *)
(* and return one.                                                         *)
(***************************************************************************)
EXTENDS Integers, FiniteSets, FiniteSetsExt

CONSTANTS
  NITEMS,     \* items of the table (5)
  mac_zero,   \* hardware address 0:0:0:0:0:0
  ip_zero     \* internet address 0.0.0.0

ASSUME ArpAssumption == NITEMS \in Nat \ {0}

Items == 0 .. NITEMS - 1

EmptyTable == [i \in Items |-> [mac |-> mac_zero, ip |-> ip_zero, ref |-> 0]]

\* The count is the slot's: a new address inherits it.
set_item(t, slot, mac, ip) == [t EXCEPT ![slot].mac = mac, ![slot].ip = ip]

\* The first index in a set, -1 when there is none.
First(S) == IF S = {} THEN -1 ELSE Min(S)

locate_mac_addr(t, mac) == First({i \in Items : t[i].mac = mac})

locate_ip_addr(t, ip) == First({i \in Items : t[i].ip = ip})

\* A lookup counts as a use of the item it finds.
Touch(t, slot) == IF slot = -1 THEN t ELSE [t EXCEPT ![slot].ref = @ + 1]

\* get_mac_addr: the address, or mac_zero for the null pointer it returns.
get_mac_addr(t, ip) ==
  LET slot == locate_ip_addr(t, ip)
  IN  IF slot = -1 THEN mac_zero ELSE t[slot].mac

\* A faulty variant, for the check that a property notices it: the last slot
\* is not tried.
get_free_slot_ButLast(t) ==
  First({i \in Items : t[i].mac = mac_zero /\ i < NITEMS - 1})

get_free_slot(t) == First({i \in Items : t[i].mac = mac_zero})

remove_less_use_item(t) ==
  Min({i \in Items : \A j \in Items : t[i].ref <= t[j].ref})

\* is_exists looks at the first item of the hardware address only, and that
\* look counts as a use.
append(t, mac, ip) ==
  LET slot == locate_mac_addr(t, mac)
      touched == Touch(t, slot)
      free == get_free_slot(t)
  IN  IF slot # -1 /\ t[slot].ip = ip THEN touched
      ELSE set_item(touched,
                    IF free = -1 THEN remove_less_use_item(touched) ELSE free,
                    mac, ip)

=============================================================================
