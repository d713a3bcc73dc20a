----------------------------- MODULE NvramStore -----------------------------
(***************************************************************************)
(* What the nvram command promises its callers: a store of variables with  *)
(* a current and a saved version.  An invocation changes the current       *)
(* version in one step, "commit" saves it, a reboot goes back to the saved *)
(* one.  Two failures that the command does not notice limit the promise:  *)
(* a full /tmp spoils the current version until the next reboot, and a     *)
(* failing write to the flash both.                                        *)
(***************************************************************************)
EXTENDS Naturals, Sequences

CONSTANTS
    Var, Val,
    Unset,     \* the value of a variable that is not set
    Arguments  \* the argument lists of the invocations that write

VARIABLES
    current,  \* what "nvram get" answers
    saved,    \* what survives a reboot
    trust,    \* what holds: "full", "saved" (the saved version does), "none"
    reboots

Vars == [Var -> Val \cup {Unset}]

Init == current \in Vars /\ saved = current /\ trust = "full" /\ reboots = 0

\* The arguments that name v, and the one that counts.
Given(args, v) == {i \in DOMAIN args : args[i].name = v}
LastOf(S) == CHOOSE i \in S : \A j \in S : i >= j

Changed(vals, args) ==
    [v \in Var |-> IF Given(args, v) = {} THEN vals[v] ELSE args[LastOf(Given(args, v))].value]

\* An invocation with "set" and "unset" arguments: all of them or none.
Update ==
    /\ trust = "full" /\ UNCHANGED <<trust, reboots, saved>>
    /\ LET old == current IN current' \in {Changed(old, args) : args \in Arguments}

Commit == trust = "full" /\ saved' = current /\ UNCHANGED <<current, trust, reboots>>

Reboot ==
    /\ trust # "none" /\ trust' = "full"
    /\ current' = saved /\ reboots' = reboots + 1 /\ UNCHANGED saved

\* /tmp is full, or was: readers may see anything, what is saved stays.
Spoilt == trust # "none" /\ trust' = "saved" /\ current' \in Vars /\ UNCHANGED <<saved, reboots>>

\* A write to the flash fails, or has failed.
Damaged ==
    /\ trust = "none" \/ trust' = "none"
    /\ trust' \in {"none", "saved", "full"} /\ current' \in Vars /\ saved' \in Vars
    /\ reboots' \in {reboots, reboots + 1}

Next == Update \/ Commit \/ Reboot \/ Spoilt \/ Damaged

Spec == Init /\ [][Next]_<<current, saved, trust, reboots>>
=============================================================================
