-------------------------------- MODULE MCNet --------------------------------
(***************************************************************************)
(* Two processes use one port, one after the other or both at once, and    *)
(* two remote hosts connect to it.  The bytes of the first wrap around the *)
(* end of the sequence numbers; the numbers of the two are further apart   *)
(* than the bytes sent.  One host is heard with two addresses.             *)
(***************************************************************************)
EXTENDS Net, TLC

MCPortOf == [c \in Conns |-> 80]
MCUses == [p \in Procs |-> 80]
MCISN == [c \in Conns |-> IF c = 1 THEN 62 ELSE 20]
MCMaxBytes == [c \in Conns |-> IF c = 1 THEN 3 ELSE 1]
MCHosts == {<<"m1", "i1">>, <<"m1", "i2">>}

ASSUME MCNumbersApart == NumbersApart /\ NumbersApartAfterFin

MCSymmetry == Permutations(Procs)

=============================================================================
