--------------------------- MODULE WirelessDevice ---------------------------
(***************************************************************************)
(* The wireless devices of netifd and the queue of driver-script runs they *)
(* share: wireless-device.uc, driven by the entry points of wireless.uc.   *)
(*                                                                         *)
(* netifd is single threaded.  Every ubus call, timer and process callback *)
(* runs to completion, so each of them is one action here.  The driver     *)
(* script is a process of its own: it is started by __run_next_handler     *)
(* with the configuration of that moment, sends its notifications one by   *)
(* one, and ends (or is killed after DEFAULT_SCRIPT_TIMEOUT) at any time.  *)
(***************************************************************************)
EXTENDS Naturals, FiniteSets

CONSTANTS
    Dev,             \* names of wifi-device sections
    Config,          \* contents a wifi-device section can have
    Vif,             \* interface sections, numbered in file order
    VifsOf,          \* the interface sections each content refers to
    Ifindex,         \* ifindex a network can have, 0 for none
    DEFAULT_RETRY,
    None

ASSUME NoneAssumption == None \notin Dev
ASSUME RetryAssumption == DEFAULT_RETRY \in Nat
ASSUME VifAssumption == /\ Vif \subseteq Nat \ {0}
                        /\ VifsOf \in [Config -> SUBSET Vif]
ASSUME IfindexAssumption == 0 \in Ifindex
ASSUME ConfigAssumption == Config # {}

VARIABLES
    devices,         \* keys of netifd.wireless.devices
    wdev,            \* the device objects
    wdev_handler,    \* queued handler runs: operation and time
    wdev_cur,        \* device whose script runs, or None
    script,          \* that script: what it was started with
    handler_timer,   \* the 1 ms timer is armed
    config_pending,  \* between config_init and config_start
    mld_start,       \* mld_start was sent after the last mld_set
    netif            \* netifd's view of the networks of each interface section

vars == <<devices, wdev, wdev_handler, wdev_cur, script, handler_timer,
          config_pending, mld_start, netif>>

(***************************************************************************)
(* State.                                                                  *)
(***************************************************************************)

\* What the script is started with: the section, the interfaces that are not
\* left out, and the bridge each of them is to join.
HandlerConfig == [config: Config, interfaces: SUBSET Vif, bridge: [Vif -> Ifindex]]

\* handler_data[v] is the netdev filed under interface section v (named by
\* the section the script created it for), 0 for none.  phy stands for the
\* entry under the device's own name.  The last four fields are history:
\* failed runs since the last reset, whether a setup script has touched the
\* radio since the last teardown, the links raised in netifd, and those of
\* them whose entry was dropped from handler_data.
Wdev == [state: {"down", "setup", "up", "teardown"},
         autostart: BOOLEAN, delete: BOOLEAN, config_change: BOOLEAN,
         cancel_setup: BOOLEAN,
         retry: 0..DEFAULT_RETRY, retry_setup_failed: BOOLEAN,
         procs: {"none", "alive", "dead"},
         data: Config, disabled_vifs: SUBSET Vif,
         ifindex_cache: [Vif -> Ifindex],
         handler_config: HandlerConfig,
         handler_data: [Vif -> Vif \cup {0}], phy: BOOLEAN,
         fails: Nat, touched: BOOLEAN,
         links: SUBSET Vif, orphans: SUBSET Vif]

Script == [op: {"none", "setup", "teardown"}, config: HandlerConfig,
           phy: BOOLEAN, notified: BOOLEAN]

\* The time of an entry is given by the queued devices of an earlier time.
Entry == [op: {"none", "setup", "teardown"}, older: SUBSET Dev]

Netif == [Vif -> [enabled: BOOLEAN, ifindex: Ifindex]]

NoEntry == [op |-> "none", older |-> {}]

Queued(q) == {d \in Dev : q[d].op # "none"}

NoConfig == CHOOSE c \in Config : TRUE

NoData == [v \in Vif |-> 0]

NoHandlerConfig == [config |-> NoConfig, interfaces |-> {}, bridge |-> NoData]

NoScript == [op |-> "none", config |-> NoHandlerConfig, phy |-> FALSE, notified |-> FALSE]

Idle == wdev_cur = None /\ Queued(wdev_handler) = {}

(***************************************************************************)
(* Operations of one device.                                               *)
(***************************************************************************)

Netdevs(w) == {w.handler_data[v] : v \in Vif} \ {0}

\* The networks decide which interface sections are left out, and a network
\* whose ifindex moved asks for a new setup.
wdev_update_disabled_vifs(w) ==
    LET vifs     == VifsOf[w.data]
        disabled == {v \in vifs : ~netif[v].enabled}
        changed  == \E v \in vifs \ disabled : netif[v].ifindex # w.ifindex_cache[v]
    IN  [w EXCEPT !.disabled_vifs = disabled,
                  !.ifindex_cache = [v \in Vif |-> IF v \in vifs THEN netif[v].ifindex ELSE @[v]],
                  !.config_change = @ \/ changed \/ disabled # w.disabled_vifs]

Interfaces(w) == VifsOf[w.data] \ w.disabled_vifs

\* Mutant: the entry under the device's own name is dropped with the others.
wdev_config_init_drops_phy(w) ==
    [w EXCEPT !.handler_config =
                  [config |-> w.data, interfaces |-> Interfaces(w),
                   bridge |-> [v \in Vif |-> IF v \in Interfaces(w)
                                             THEN netif[v].ifindex ELSE 0]],
              !.handler_data = NoData, !.phy = FALSE,
              !.orphans = @ \cup (w.links \cap Netdevs(w))]

\* The entry under the device's own name, phy, is kept.
wdev_config_init(w) ==
    [w EXCEPT !.handler_config =
                  [config |-> w.data, interfaces |-> Interfaces(w),
                   bridge |-> [v \in Vif |-> IF v \in Interfaces(w)
                                             THEN netif[v].ifindex ELSE 0]],
              !.handler_data = NoData,
              !.orphans = @ \cup (w.links \cap Netdevs(w))]

wdev_reset(w) ==
    [w EXCEPT !.retry = DEFAULT_RETRY, !.retry_setup_failed = FALSE, !.fails = 0]

setup(w) ==
    IF w.state \in {"up", "down"} /\ w.autostart /\ ~w.retry_setup_failed
    THEN [w EXCEPT !.procs = "none", !.config_change = FALSE, !.state = "setup"]
    ELSE w

teardown(w) ==
    IF w.state \in {"setup", "up"}
    THEN [w EXCEPT !.cancel_setup = FALSE, !.procs = "none", !.state = "teardown"]
    ELSE [w EXCEPT !.cancel_setup = FALSE]

\* Mutants: a retry count that goes below zero; no giving up; a change that
\* came during the run is forgotten.
wdev_setup_cb_negative(w) ==
    IF w.state = "setup" THEN teardown([w EXCEPT !.retry = @ - 1]) ELSE w

wdev_setup_cb_forever(w) ==
    IF w.state = "setup"
    THEN teardown([w EXCEPT !.retry = IF @ > 0 THEN @ - 1 ELSE @, !.fails = @ + 1])
    ELSE w

wdev_setup_cb_forgets(w) ==
    IF w.state = "setup"
    THEN teardown([w EXCEPT !.retry = IF @ > 0 THEN @ - 1 ELSE @,
                            !.retry_setup_failed = @ \/ w.retry = 0,
                            !.fails = @ + 1])
    ELSE w

wdev_setup_cb(w) ==
    CASE w.state = "setup" ->
            teardown([w EXCEPT !.retry = IF @ > 0 THEN @ - 1 ELSE @,
                               !.retry_setup_failed = @ \/ w.retry = 0,
                               !.fails = @ + 1])
      [] w.state = "up" /\ w.config_change -> setup(wdev_config_init(w))
      [] OTHER -> w

\* Mutant: handler_data is cleared before its links are taken down.
LinksDown_cleared(w) ==
    [w EXCEPT !.handler_data = NoData, !.phy = FALSE,
              !.touched = @ /\ ~script.phy, !.state = "down"]

\* The teardown callback up to the point where a deleted device is removed.
LinksDown(w) ==
    [w EXCEPT !.links = @ \ Netdevs(w), !.handler_data = NoData,
              !.phy = FALSE, !.touched = @ /\ ~script.phy, !.state = "down"]

\* Mutant: the new configuration is not prepared.
wdev_teardown_cb_stale(w) ==
    IF w.delete THEN LinksDown(w) ELSE setup(LinksDown(w))

wdev_teardown_cb(w) ==
    LET down == LinksDown(w)
    IN  CASE down.delete -> down
          [] ~down.delete /\ down.config_change -> setup(wdev_config_init(down))
          [] OTHER -> setup(down)

update(w, data) ==
    IF w.data = data
    THEN w
    ELSE [wdev_reset(w) EXCEPT !.data = data, !.ifindex_cache = NoData,
                               !.delete = FALSE, !.config_change = TRUE]

\* update() called without data, by the reconf method.
update_none(w) == [wdev_reset(w) EXCEPT !.config_change = TRUE]

start(w) ==
    LET reset == wdev_reset([w EXCEPT !.autostart = TRUE])
        upd   == wdev_update_disabled_vifs(reset)
    IN  CASE w.delete -> w
          [] ~w.delete /\ w.state # "down" -> reset
          [] OTHER -> setup(IF upd.config_change THEN wdev_config_init(upd) ELSE upd)

retry_setup(w) ==
    IF w.delete \/ w.state # "down" \/ ~w.autostart THEN w ELSE start(w)

stop(w) ==
    LET off == [w EXCEPT !.autostart = FALSE]
    IN  CASE w.state = "setup" -> [off EXCEPT !.cancel_setup = TRUE]
          [] w.state = "up" -> teardown(off)
          [] OTHER -> off

\* Mutant: the new configuration is not deferred.
check_at_once(w) ==
    LET upd == wdev_update_disabled_vifs(w)
    IN  IF upd.config_change THEN setup(wdev_config_init(upd)) ELSE upd

check(w) ==
    LET upd == wdev_update_disabled_vifs(w)
    IN  IF upd.config_change /\ upd.state \in {"up", "down"}
        THEN setup(wdev_config_init(upd))
        ELSE upd

\* destroy() of a device that is not down; one that is down is removed at once.
destroy(w) == stop([w EXCEPT !.delete = TRUE])

\* Mutant: a stop during the setup is overlooked.
wdev_mark_up_always(w) ==
    [wdev_reset(w) EXCEPT !.links = @ \cup Netdevs(w), !.state = "up"]

wdev_mark_up(w) ==
    IF w.cancel_setup \/ ~w.autostart \/ w.delete
    THEN teardown(w)
    ELSE [wdev_reset(w) EXCEPT !.links = @ \cup Netdevs(w), !.state = "up"]

\* The object of a name that is not in use: one without data.
NoWdev ==
    [state |-> "down", autostart |-> TRUE, delete |-> FALSE,
     config_change |-> TRUE, cancel_setup |-> FALSE,
     retry |-> 0, retry_setup_failed |-> FALSE, procs |-> "none",
     data |-> NoConfig, disabled_vifs |-> {}, ifindex_cache |-> NoData,
     handler_config |-> NoHandlerConfig,
     handler_data |-> NoData, phy |-> FALSE,
     fails |-> 0, touched |-> FALSE, links |-> {}, orphans |-> {}]

new(data) ==
    wdev_config_init(wdev_update_disabled_vifs([NoWdev EXCEPT !.data = data]))

(***************************************************************************)
(* The queue of handler runs.                                              *)
(***************************************************************************)

\* setup() and teardown() queue a handler run exactly when they change the
\* state to "setup" or "teardown", so a call is described by the objects W
\* it leaves behind.
QueuedBy(W) == {d \in Dev : /\ W[d].state # wdev[d].state
                            /\ W[d].state \in {"setup", "teardown"}}

\* Mutant: a queued entry is not replaced.
Enqueue_once(q, W, later) ==
    [d \in Dev |-> IF d \in QueuedBy(W) /\ q[d].op = "none"
                   THEN [op |-> W[d].state, older |-> {}] ELSE q[d]]

\* A new entry replaces the one of the same name.  time() counts seconds, so
\* the new entries are later than all others or share the latest time.
Enqueue(q, W, later) ==
    LET added == QueuedBy(W)
        rest  == Queued(q) \ added
        older == {e \in rest : later \/ \E f \in rest : e \in q[f].older}
    IN  [d \in Dev |-> IF d \in added THEN [op |-> W[d].state, older |-> older]
                       ELSE [q[d] EXCEPT !.older = @ \ added]]

Dequeue(q, d) ==
    [e \in Dev |-> IF e = d THEN NoEntry ELSE [q[e] EXCEPT !.older = @ \ {d}]]

__run_next_handler_name(q) == {d \in Queued(q) : q[d].older = {}}

\* A script that cannot be started is one that ends at once.
__run_next_handler(q, W) ==
    \E d \in __run_next_handler_name(q) :
        /\ wdev_cur' = d
        /\ script' = [op |-> q[d].op, config |-> W[d].handler_config,
                      phy |-> W[d].phy, notified |-> FALSE]
        /\ wdev_handler' = Dequeue(q, d)

\* What a call that leaves the objects W does to the queue, the script of cur
\* being the one that runs meanwhile.  The first run of a round sends mld_set.
run_handler(cur, s, W) ==
    /\ wdev' = W
    /\ IF QueuedBy(W) = {}
       THEN wdev_cur' = cur /\ script' = s /\ UNCHANGED wdev_handler
       ELSE \E later \in BOOLEAN :
               LET q == Enqueue(wdev_handler, W, later)
               IN  IF cur = None THEN __run_next_handler(q, W)
                   ELSE wdev_handler' = q /\ wdev_cur' = cur /\ script' = s

RoundStarts(cur, W) == cur = None /\ Queued(wdev_handler) = {} /\ QueuedBy(W) # {}

\* A call that comes from outside the handler queue.
Call(W) ==
    /\ run_handler(wdev_cur, script, W)
    /\ mld_start' = (mld_start /\ ~RoundStarts(wdev_cur, W))

run_next_handler ==
    IF wdev_cur # None THEN UNCHANGED <<wdev_handler, wdev_cur, script, mld_start>>
    ELSE IF Queued(wdev_handler) = {}
         THEN mld_start' = TRUE /\ UNCHANGED <<wdev_handler, wdev_cur, script>>
         ELSE __run_next_handler(wdev_handler, wdev) /\ UNCHANGED mld_start

(***************************************************************************)
(* Actions: handler runs.                                                  *)
(***************************************************************************)

HandlerTimer ==
    /\ handler_timer
    /\ handler_timer' = FALSE
    /\ run_next_handler
    /\ UNCHANGED <<devices, wdev, config_pending, netif>>

\* The script has exited, could not be started or has run into its timeout.
run_handler_cb ==
    /\ wdev_cur # None
    /\ LET d    == wdev_cur
           gone == script.op = "teardown" /\ wdev[d].delete
           done == IF script.op = "setup" THEN wdev_setup_cb(wdev[d])
                   ELSE wdev_teardown_cb(wdev[d])
           W    == [wdev EXCEPT ![d] = IF gone THEN NoWdev ELSE done]
       IN  /\ devices' = IF gone THEN devices \ {d} ELSE devices
           /\ run_handler(None, NoScript, W)
           /\ mld_start' = (mld_start /\ ~RoundStarts(None, W))
    /\ handler_timer' = TRUE
    /\ UNCHANGED <<config_pending, netif>>

wdev_proc_check(d) ==
    /\ d \in devices
    /\ wdev[d].procs = "dead"
    /\ Call([wdev EXCEPT ![d] = teardown(@)])
    /\ UNCHANGED <<devices, handler_timer, config_pending, netif>>

(***************************************************************************)
(* Actions: notifications of the running setup script.  A teardown script  *)
(* sends none, and a setup script sends none after the one that it is up.  *)
(***************************************************************************)

Notifying == wdev_cur \in devices /\ script.op = "setup" /\ ~script.notified

Notify(w, notified) ==
    /\ run_handler(wdev_cur, [script EXCEPT !.notified = notified],
                   [wdev EXCEPT ![wdev_cur] = w])
    /\ UNCHANGED <<devices, handler_timer, config_pending, mld_start, netif>>

NotifyUp ==
    /\ Notifying
    /\ LET w == wdev[wdev_cur]
       IN  Notify(IF w.state = "setup" THEN wdev_mark_up(w) ELSE w, TRUE)

\* The script addresses its interfaces by their position in the configuration
\* it was started with.
VifAt(vifs, idx) == CHOOSE v \in vifs : Cardinality({u \in vifs : u <= v}) = idx

\* ok: the interface has a netdev; otherwise the script reports an error.
wdev_set_data(idx, ok) ==
    /\ Notifying
    /\ LET w    == wdev[wdev_cur]
           vifs == w.handler_config.interfaces
           key  == VifAt(vifs, idx)
           dev  == VifAt(script.config.interfaces, idx)
       IN  /\ idx \in 1..Cardinality(script.config.interfaces)
           /\ idx \in 1..Cardinality(vifs)
           /\ Notify([w EXCEPT !.handler_data[key] = IF ok THEN dev ELSE 0,
                               !.orphans = @ \cup (w.links \cap {w.handler_data[key]})],
                     FALSE)

NotifyPhy ==
    /\ Notifying
    /\ Notify([wdev[wdev_cur] EXCEPT !.phy = TRUE, !.touched = TRUE], FALSE)

wdev_proc_add ==
    /\ Notifying
    /\ wdev[wdev_cur].state \in {"setup", "up"}
    /\ Notify([wdev[wdev_cur] EXCEPT !.procs = IF @ = "none" THEN "alive" ELSE @], FALSE)

\* Every script of the tree gives up with a retry count of 0 (or false).
NotifyRetry ==
    /\ Notifying
    /\ Notify([wdev[wdev_cur] EXCEPT !.retry = 0], FALSE)

(***************************************************************************)
(* Actions: configuration and requests.                                    *)
(***************************************************************************)

\* Mutant: a device is removed whatever its state.
RemovedAtOnce_all(S) == devices \ S

\* Devices without a section that are removed at once.
RemovedAtOnce(S) == {d \in devices \ S : wdev[d].state = "down"}

\* A reload finds the sections S with the contents data.
config_init(S, data) ==
    LET gone == RemovedAtOnce(S)
        W    == [d \in Dev |->
                    CASE d \in devices \cap S -> update(wdev[d], data[d])
                      [] d \in S \ devices -> new(data[d])
                      [] d \in (devices \ S) \ gone -> destroy(wdev[d])
                      [] OTHER -> NoWdev]
    IN  /\ config_pending' = TRUE
        /\ devices' = (devices \ gone) \cup S
        /\ run_handler(wdev_cur, script, W)
        /\ handler_timer' = (handler_timer \/ ~(S \subseteq devices))
        /\ mld_start' = FALSE
        /\ UNCHANGED netif

StartAll == [d \in Dev |-> IF d \in devices /\ wdev[d].autostart
                           THEN check(start(wdev[d])) ELSE wdev[d]]

\* Mutant: no mld_start when no handler had to run.
config_start_no_mld ==
    /\ config_pending
    /\ config_pending' = FALSE
    /\ Call(StartAll)
    /\ UNCHANGED <<devices, handler_timer, netif>>

config_start ==
    /\ config_pending
    /\ config_pending' = FALSE
    /\ run_handler(wdev_cur, script, StartAll)
    /\ mld_start' = ((mld_start \/ Idle) /\ QueuedBy(StartAll) = {})
    /\ UNCHANGED <<devices, handler_timer, netif>>

check_interfaces ==
    /\ ~config_pending
    /\ Call([d \in Dev |-> IF d \in devices /\ wdev[d].autostart
                           THEN check(wdev[d]) ELSE wdev[d]])
    /\ UNCHANGED <<devices, handler_timer, config_pending, netif>>

hotplug(v, add) ==
    /\ wdev' = [d \in Dev |->
                  IF d \in devices /\ wdev[d].autostart /\ v \in Netdevs(wdev[d])
                  THEN [wdev[d] EXCEPT !.links = IF add THEN @ \cup {v} ELSE @ \ {v}]
                  ELSE wdev[d]]
    /\ UNCHANGED <<devices, wdev_handler, wdev_cur, script, handler_timer,
                   config_pending, mld_start, netif>>

\* A ubus method called for one device, or for all of them, that makes the
\* objects those of F.
wdev_call(F) ==
    /\ \E S \in {{d} : d \in devices} \cup {devices} :
          Call([d \in Dev |-> IF d \in S THEN F[d] ELSE wdev[d]])
    /\ UNCHANGED <<devices, handler_timer, config_pending, netif>>

up     == wdev_call([d \in Dev |-> start(wdev[d])])
down   == wdev_call([d \in Dev |-> stop(wdev[d])])
retry  == wdev_call([d \in Dev |-> retry_setup(wdev[d])])
reconf == wdev_call([d \in Dev |-> check(update_none(wdev[d]))])

(***************************************************************************)
(* Actions: the world.                                                     *)
(***************************************************************************)

NetifChange(v, n) ==
    /\ netif' = [netif EXCEPT ![v] = n]
    /\ UNCHANGED <<devices, wdev, wdev_handler, wdev_cur, script, handler_timer,
                   config_pending, mld_start>>

ProcDies(d) ==
    /\ d \in devices
    /\ wdev[d].procs = "alive"
    /\ wdev' = [wdev EXCEPT ![d].procs = "dead"]
    /\ UNCHANGED <<devices, wdev_handler, wdev_cur, script, handler_timer,
                   config_pending, mld_start, netif>>

(***************************************************************************)
(* Specification.                                                          *)
(***************************************************************************)

Init ==
    /\ devices = {}
    /\ wdev = [d \in Dev |-> NoWdev]
    /\ wdev_handler = [d \in Dev |-> NoEntry]
    /\ wdev_cur = None
    /\ script = NoScript
    /\ handler_timer = FALSE
    /\ config_pending = FALSE
    /\ mld_start = FALSE
    /\ netif = [v \in Vif |-> [enabled |-> TRUE, ifindex |-> 0]]

\* Steps of the queue, the scripts and the timers.
HandlerStep ==
    \/ HandlerTimer
    \/ run_handler_cb
    \/ \E d \in Dev : wdev_proc_check(d)

ScriptStep ==
    \/ NotifyUp
    \/ NotifyPhy
    \/ \E idx \in 1..Cardinality(Vif), ok \in BOOLEAN : wdev_set_data(idx, ok)
    \/ wdev_proc_add
    \/ NotifyRetry

\* Requests and events from outside.
RequestStep ==
    \/ \E S \in SUBSET Dev : \E data \in [S -> Config] : config_init(S, data)
    \/ check_interfaces
    \/ up \/ down \/ retry \/ reconf
    \/ \E v \in Vif, n \in [enabled: BOOLEAN, ifindex: Ifindex] : NetifChange(v, n)
    \/ \E v \in Vif, add \in BOOLEAN : hotplug(v, add)
    \/ \E d \in Dev : ProcDies(d)

Next == HandlerStep \/ ScriptStep \/ config_start \/ RequestStep

Spec == Init /\ [][Next]_vars

(***************************************************************************)
(* Properties.                                                             *)
(***************************************************************************)

\* Every variable has its type: the retry counter stays within its bounds and
\* script data is filed under interface sections only.
TypeOK ==
    /\ devices \subseteq Dev
    /\ wdev \in [Dev -> Wdev]
    /\ wdev_handler \in [Dev -> Entry]
    /\ wdev_cur \in Dev \cup {None}
    /\ script \in Script
    /\ handler_timer \in BOOLEAN
    /\ config_pending \in BOOLEAN
    /\ mld_start \in BOOLEAN
    /\ netif \in Netif

\* A device that waits in state "setup" or "teardown" always has the handler
\* run it waits for queued or running: overwriting a queued entry, a script
\* that outlives its notification or a cancelled setup never leave it stuck.
PendingHasRun ==
    \A d \in Dev : wdev[d].state \in {"setup", "teardown"} =>
        \/ wdev_handler[d].op = wdev[d].state
        \/ wdev_cur = d /\ script.op = wdev[d].state /\ ~script.notified

\* No handler run is queued or running for a device that has been removed, or
\* that is down: delete_wdev never drops an object the queue still refers to.
RunHasDevice ==
    \A d \in Dev : (wdev_handler[d].op # "none" \/ wdev_cur = d) =>
        d \in devices /\ wdev[d].state # "down"

\* A device is up only while it is wanted: after stop() or destroy() no late
\* notification of the setup script brings it up.
UpIsWanted ==
    \A d \in devices : wdev[d].state = "up" => wdev[d].autostart /\ ~wdev[d].delete

\* No configuration is lost.  A device with no change recorded has prepared its
\* latest data for the script, and the script that brings it up was started
\* with that: an update during a run is remembered until the run is over.
NoConfigLost ==
    \A d \in devices : ~wdev[d].config_change =>
        /\ wdev[d].handler_config.config = wdev[d].data
        /\ wdev[d].handler_config.interfaces = Interfaces(wdev[d])
        /\ wdev_cur = d /\ script.op = "setup" /\ ~script.notified =>
              script.config = wdev[d].handler_config

\* What the script reports for an interface is filed under the section of that
\* interface, although it names it by position only.
DataFiledRight ==
    \A d \in devices : \A v \in Vif : wdev[d].handler_data[v] \in {0, v}

\* A teardown script knows the phy of a radio that a setup script has touched,
\* also when the configuration was prepared anew in between.
TeardownKnowsPhy ==
    wdev_cur # None /\ script.op = "teardown" /\ wdev[wdev_cur].touched => script.phy

\* When a device is down, every link it raised has been taken down again, but
\* for those whose entry was dropped while the link was up.
LinksTakenDown ==
    \A d \in Dev : wdev[d].state = "down" => wdev[d].links \subseteq wdev[d].orphans

\* The setup script fails at most 1 + DEFAULT_RETRY times in a row; then the
\* device stays down until a request resets its retry count.
GivesUp ==
    \A d \in Dev :
        /\ wdev[d].fails <= DEFAULT_RETRY + 1
        /\ wdev[d].fails = DEFAULT_RETRY + 1 => wdev[d].state \in {"teardown", "down"}

\* When all handler runs are over and no timer is left that would start
\* another, wpa_supplicant has been told to start its MLDs.
MldStarted ==
    Idle /\ ~handler_timer /\ ~config_pending /\ devices # {} => mld_start

\* "Defer applying a new config while a handler run is in progress: the running
\* script keeps its start-time config" (check() in wireless-device.uc).
ConfigDeferred ==
    [][wdev_cur # None /\ ~run_handler_cb =>
          wdev'[wdev_cur].handler_config = wdev[wdev_cur].handler_config]_vars

\* "Bug: PHY is undefined for device": a teardown script is always told the phy
\* (teardown() in wireless/mac80211.sh).
TeardownHasPhy == wdev_cur # None /\ script.op = "teardown" => script.phy

=============================================================================
