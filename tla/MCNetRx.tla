------------------------------- MODULE MCNetRx -------------------------------
(***************************************************************************)
(* A ring of three buffers and up to MaxPackets packets: the ring fills,   *)
(* overflows into address 0, empties and wraps.                            *)
(***************************************************************************)
EXTENDS NetRx

=============================================================================
