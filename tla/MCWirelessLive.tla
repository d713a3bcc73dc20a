--------------------------- MODULE MCWirelessLive ---------------------------
(***************************************************************************)
(* Convergence: after the last of finitely many requests every device      *)
(* reaches the state that its configuration and the requests ask for.      *)
(***************************************************************************)
EXTENDS WirelessDevice

CONSTANT MaxRequests  \* bound on the requests and faults of a behaviour

VARIABLE requests

MCVif == {1}
MCVifsOf == [c \in Config |-> {1}]

LiveInit == Init /\ requests = 0

\* The kernel does not use an ifindex twice.
NewNetif(v) == {n \in [enabled: BOOLEAN, ifindex: Ifindex] : n.ifindex >= netif[v].ifindex}

Request ==
    \/ \E S \in SUBSET Dev : \E data \in [S -> Config] : config_init(S, data)
    \/ up \/ down \/ retry \/ reconf
    \/ \E v \in Vif : \E n \in NewNetif(v) : NetifChange(v, n)
    \/ \E d \in Dev : ProcDies(d)

\* Some device has not seen the networks as they are now.
NetworksUnseen ==
    \E d \in devices :
        LET w == wdev[d]  upd == wdev_update_disabled_vifs(w)
        IN  w.autostart /\ (\/ upd.disabled_vifs # w.disabled_vifs
                           \/ upd.ifindex_cache # w.ifindex_cache)

Progress == HandlerStep \/ (NetworksUnseen /\ check_interfaces)

LiveNext ==
    \/ (HandlerStep \/ ScriptStep \/ config_start \/ check_interfaces) /\ UNCHANGED requests
    \/ Request /\ requests < MaxRequests /\ requests' = requests + 1

\* The script ends or is killed by its timer; timers fire; netifd reports a
\* change of its networks.  A reload is completed by config_start: it is enabled
\* while config_pending holds and the one step that clears it, so []<> says the
\* same of it as WF_vars.
Fairness == WF_vars(Progress) /\ []<>~config_pending

LiveSpec == LiveInit /\ [][LiveNext]_<<vars, requests>> /\ Fairness

\* A device is where it should be: up with the configuration and the bridges
\* of now, or down because it was told to or has given up.
Settled ==
    /\ Idle /\ ~config_pending
    /\ \A d \in devices :
          LET w == wdev[d]
          IN  /\ ~w.delete
              /\ \/ w.state = "up" /\ w.autostart /\ w.handler_config = wdev_config_init(w).handler_config
                 \/ w.state = "down" /\ (~w.autostart \/ w.retry_setup_failed)

\* Once the requests stop, every device settles: none stays pending, none runs
\* with an outdated configuration, and a removed one is gone.
EventuallySettled == <>[]Settled
=============================================================================
