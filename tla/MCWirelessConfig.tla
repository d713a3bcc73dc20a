-------------------------- MODULE MCWirelessConfig -------------------------
(* One device whose section and networks change under it.                  *)
EXTENDS WirelessDevice

MCVif == {1, 2}
MCVifsOf == [c \in Config |-> IF c = 1 THEN {1, 2} ELSE {2}]

\* Not all networks are down at a time.
SomeEnabled == \E v \in Vif : netif[v].enabled

ConfigSpec == Init /\ [][Next /\ SomeEnabled']_vars
=============================================================================
