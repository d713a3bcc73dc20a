-------------------------- MODULE MCWirelessQueue --------------------------
(* Several devices sharing the handler queue; one configuration, no vifs.  *)
EXTENDS WirelessDevice, TLC

MCVifsOf == [c \in Config |-> {}]
MCVif == {}
MCIfindex == {0}
Symmetry == Permutations(Dev)
=============================================================================
