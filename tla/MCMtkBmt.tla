------------------------------ MODULE MCMtkBmt ------------------------------
(***************************************************************************)
(* Instances of the bad block management for TLC.                          *)
(***************************************************************************)
EXTENDS MtkBmt

Plain(backend) ==
    [backend |-> backend, ranges |-> {}, fragile |-> {0, 1}, fading |-> {}, factory |-> {},
     faults |-> 1, cuts |-> 0, boots |-> 2, used |-> {0, 1}, pages |-> 1, debug |-> FALSE, force |-> FALSE]

\* Data that fades, also while it is copied, and replacements that fail
DataDevices ==
    {[Plain("v2") EXCEPT !.fragile = {0} \cup 12 .. 15, !.fading = {0, 1}, !.faults = 2, !.pages = 2],
     [Plain("nmbm") EXCEPT !.fading = {0, 1}, !.factory = {6}, !.cuts = 1, !.pages = 2],
     [Plain("nmbm") EXCEPT !.fragile = {0} \cup 11 .. 14, !.fading = {0} \cup 11 .. 14,
                           !.faults = 3, !.boots = 1, !.used = {0}, !.pages = 2]}

\* Blocks that fail one after the other, those with the tables among them
MapDevices ==
    {[Plain("v2") EXCEPT !.factory = {2}, !.fragile = {0} \cup 12 .. 15, !.faults = 3, !.boots = 3],
     [Plain("nmbm") EXCEPT !.fragile = {0} \cup 6 .. 15, !.faults = 2, !.cuts = 1, !.boots = 3, !.used = {0}],
     [Plain("nmbm") EXCEPT !.fragile = 7 .. 9, !.cuts = 2, !.boots = 4, !.used = {0}, !.force = TRUE]}

\* The debugfs files; "bbt" with and without remap ranges
DebugDevices ==
    {[Plain("v2") EXCEPT !.faults = 2, !.debug = TRUE],
     [Plain("nmbm") EXCEPT !.faults = 2, !.debug = TRUE],
     [Plain("bbt") EXCEPT !.ranges = {<<0, 3>>, <<4, 6>>}, !.fragile = {1, 4}, !.factory = {2},
                          !.faults = 3, !.used = {1, 4}, !.debug = TRUE],
     [Plain("bbt") EXCEPT !.fragile = {1, 4}, !.factory = {2}, !.faults = 2, !.used = {1, 4}, !.debug = TRUE]}

AllDevices == DataDevices \cup MapDevices \cup DebugDevices

\* A block for replacements that is bad from the factory.
SpareBad == {[Plain("nmbm") EXCEPT !.fragile = {}, !.factory = {13}, !.faults = 3, !.used = {0, 1, 2}]}
=============================================================================
