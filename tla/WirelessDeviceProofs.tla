------------------------ MODULE WirelessDeviceProofs ------------------------
(***************************************************************************)
(* Proofs about WirelessDevice, for any number of devices, sections,       *)
(* interfaces and retries: first what the operations of wireless-device.uc *)
(* do to one device object, then the inductive invariant of the system.    *)
(***************************************************************************)
EXTENDS WirelessDevice, TLAPS

\* Configuration prepared for the script and the data it is prepared from.
Prepared(w) == /\ w.handler_config.config = w.data
               /\ w.handler_config.interfaces = Interfaces(w)

\* What holds of every device object on its own.
Local(w) ==
    /\ w.state = "up" => w.autostart /\ ~w.delete
    /\ w.retry_setup_failed => w.state \in {"teardown", "down"}
    /\ \/ w.fails + w.retry <= DEFAULT_RETRY
       \/ w.retry_setup_failed /\ w.fails <= DEFAULT_RETRY + 1
    /\ w.touched => w.phy
    /\ w.links \subseteq w.orphans \cup Netdevs(w)
    /\ w.state = "down" => w.handler_data = NoData
    /\ \A v \in Vif : w.handler_data[v] \in {0, v}
    /\ ~w.config_change => Prepared(w)

\* The empty handler_data has the type of both maps it stands for.
LEMMA NoDataType == NoData \in [Vif -> Vif \cup {0}] /\ NoData \in [Vif -> Ifindex]
BY IfindexAssumption DEF NoData

\* The netdevs filed in handler_data are interface sections.
LEMMA NetdevsType ==
    ASSUME NEW w \in Wdev
    PROVE  Netdevs(w) \subseteq Vif
BY DEF Netdevs, Wdev

\* setup() keeps the type of a device object.
LEMMA SetupType ==
    ASSUME NEW w \in Wdev
    PROVE  setup(w) \in Wdev
BY ZenonT(30) DEF setup, Wdev

\* teardown() keeps the type of a device object.
LEMMA TeardownType ==
    ASSUME NEW w \in Wdev
    PROVE  teardown(w) \in Wdev
BY Zenon DEF teardown, Wdev

\* wdev_reset() keeps the type: DEFAULT_RETRY is a legal retry count.
LEMMA ResetType ==
    ASSUME NEW w \in Wdev
    PROVE  wdev_reset(w) \in Wdev
<1>1. DEFAULT_RETRY \in 0..DEFAULT_RETRY
    BY RetryAssumption
<1>2. 0 \in Nat
    OBVIOUS
<1> QED
    BY <1>1, <1>2, Zenon DEF wdev_reset, Wdev

\* wdev_update_disabled_vifs() keeps the type of a device object.
LEMMA UpdateVifsType ==
    ASSUME NEW w \in Wdev, netif \in Netif
    PROVE  wdev_update_disabled_vifs(w) \in Wdev
BY VifAssumption, ZenonT(30) DEF wdev_update_disabled_vifs, Wdev, Netif

\* wdev_config_init() prepares a handler_config of the right type.
LEMMA ConfigInitType ==
    ASSUME NEW w \in Wdev, netif \in Netif
    PROVE  wdev_config_init(w) \in Wdev
BY VifAssumption, NoDataType, IfindexAssumption, ZenonT(30) DEF wdev_config_init, Wdev, Netif, HandlerConfig, Interfaces, Netdevs

\* update() keeps the type, with new data and with none.
LEMMA UpdateType ==
    ASSUME NEW w \in Wdev, NEW data \in Config
    PROVE  update(w, data) \in Wdev /\ update_none(w) \in Wdev
<1>1. ASSUME NEW r \in Wdev
      PROVE  /\ [r EXCEPT !.data = data, !.ifindex_cache = NoData,
                          !.delete = FALSE, !.config_change = TRUE] \in Wdev
             /\ [r EXCEPT !.config_change = TRUE] \in Wdev
    BY NoDataType, Zenon DEF Wdev
<1> QED
    BY <1>1, ResetType, Zenon DEF update, update_none

\* wdev_setup_cb() keeps the type: the retry count is lowered only from above 0.
LEMMA SetupCbType ==
    ASSUME NEW w \in Wdev, netif \in Netif
    PROVE  wdev_setup_cb(w) \in Wdev
<1>1. CASE w.state = "setup"
  <2> DEFINE f == [w EXCEPT !.retry = IF @ > 0 THEN @ - 1 ELSE @,
                            !.retry_setup_failed = @ \/ w.retry = 0,
                            !.fails = @ + 1]
  <2>a. /\ w.retry \in 0..DEFAULT_RETRY
        /\ w.fails \in Nat
      BY DEF Wdev
  <2>b. /\ (IF w.retry > 0 THEN w.retry - 1 ELSE w.retry) \in 0..DEFAULT_RETRY
        /\ w.fails + 1 \in Nat
      BY <2>a, RetryAssumption
  <2>1. f \in Wdev
      BY <2>b, ZenonT(30) DEF Wdev
  <2> QED
      BY <1>1, <2>1, TeardownType DEF wdev_setup_cb
<1>2. CASE w.state # "setup"
    BY <1>2, SetupType, ConfigInitType DEF wdev_setup_cb
<1> QED
    BY <1>1, <1>2

\* Taking the links down keeps the type of a device object.
LEMMA LinksDownType ==
    ASSUME NEW w \in Wdev
    PROVE  LinksDown(w) \in Wdev
BY NoDataType, ZenonT(30) DEF LinksDown, Wdev, Netdevs

\* wdev_teardown_cb() keeps the type of a device object.
LEMMA TeardownCbType ==
    ASSUME NEW w \in Wdev, netif \in Netif
    PROVE  wdev_teardown_cb(w) \in Wdev
BY LinksDownType, ConfigInitType, SetupType DEF wdev_teardown_cb

\* start() and retry_setup() keep the type of a device object.
LEMMA StartType ==
    ASSUME NEW w \in Wdev, netif \in Netif
    PROVE  start(w) \in Wdev /\ retry_setup(w) \in Wdev
<1>1. [w EXCEPT !.autostart = TRUE] \in Wdev
    BY Zenon DEF Wdev
<1>2. wdev_reset([w EXCEPT !.autostart = TRUE]) \in Wdev
    BY <1>1, ResetType
<1> QED
    BY <1>2, UpdateVifsType, ConfigInitType, SetupType DEF start, retry_setup

\* stop() and destroy() keep the type of a device object.
LEMMA StopType ==
    ASSUME NEW w \in Wdev
    PROVE  stop(w) \in Wdev /\ destroy(w) \in Wdev
<1>1. ASSUME NEW u \in Wdev
      PROVE  stop(u) \in Wdev
  <2>1. [u EXCEPT !.autostart = FALSE] \in Wdev
      BY Zenon DEF Wdev
  <2>2. [[u EXCEPT !.autostart = FALSE] EXCEPT !.cancel_setup = TRUE] \in Wdev
      BY Zenon DEF Wdev
  <2> QED
      BY <2>1, <2>2, TeardownType DEF stop
<1>2. [w EXCEPT !.delete = TRUE] \in Wdev
    BY Zenon DEF Wdev
<1> QED
    BY <1>1, <1>2 DEF destroy

\* check() keeps the type of a device object.
LEMMA CheckType ==
    ASSUME NEW w \in Wdev, netif \in Netif
    PROVE  check(w) \in Wdev
BY UpdateVifsType, ConfigInitType, SetupType DEF check

\* wdev_mark_up() keeps the type: links are raised for filed netdevs only.
LEMMA MarkUpType ==
    ASSUME NEW w \in Wdev
    PROVE  wdev_mark_up(w) \in Wdev
<1>a. Netdevs(w) \subseteq Vif
    BY NetdevsType
<1>b. ASSUME NEW r \in Wdev
      PROVE  [r EXCEPT !.links = @ \cup Netdevs(w), !.state = "up"] \in Wdev
    BY <1>a, Zenon DEF Wdev
<1>1. [wdev_reset(w) EXCEPT !.links = @ \cup Netdevs(w), !.state = "up"] \in Wdev
    BY <1>b, ResetType, Zenon
<1> QED
    BY <1>1, TeardownType DEF wdev_mark_up

\* The object of a device that does not exist has the type.
LEMMA NoWdevType == NoWdev \in Wdev
<1>1. NoConfig \in Config
    BY ConfigAssumption DEF NoConfig
<1>2. NoHandlerConfig \in HandlerConfig
    BY <1>1, NoDataType DEF NoHandlerConfig, HandlerConfig
<1>3. 0 \in 0..DEFAULT_RETRY /\ 0 \in Nat
    BY RetryAssumption
<1> QED
    BY <1>1, <1>2, <1>3, NoDataType DEF NoWdev, Wdev

\* new() makes an object of the type.
LEMMA NewType ==
    ASSUME NEW data \in Config, netif \in Netif
    PROVE  new(data) \in Wdev
<1>1. [NoWdev EXCEPT !.data = data] \in Wdev
    BY NoWdevType DEF Wdev
<1> QED
    BY <1>1, UpdateVifsType, ConfigInitType DEF new

(***************************************************************************)
(* What the operations do to an object: they keep Local, and they move its *)
(* state only along the edges that the handler queue is prepared for.      *)
(***************************************************************************)

\* While a run is pending neither the prepared configuration nor what is known
\* of the radio changes.
Frame(w, u) ==
    w.state \in {"setup", "teardown"} =>
        u.handler_config = w.handler_config /\ u.touched = w.touched

Starts(w, u) ==
    /\ Frame(w, u)
    /\ u.state = w.state \/ (w.state \in {"up", "down"} /\ u.state = "setup")

Stops(w, u) ==
    /\ Frame(w, u)
    /\ u.state = w.state \/ (w.state \in {"setup", "up"} /\ u.state = "teardown")

\* Objects that differ in fields of the configuration and the requests only.
Same(w, u) ==
    /\ u.state = w.state /\ u.handler_config = w.handler_config
    /\ u.retry_setup_failed = w.retry_setup_failed
    /\ u.fails = w.fails /\ u.retry = w.retry
    /\ u.touched = w.touched /\ u.phy = w.phy
    /\ u.links = w.links /\ u.orphans = w.orphans /\ u.handler_data = w.handler_data

\* Local survives a change of the fields that Same leaves free.
LEMMA SameLocal ==
    ASSUME NEW w \in Wdev, NEW u \in Wdev, Local(w), Same(w, u),
           u.state = "up" => u.autostart /\ ~u.delete,
           ~u.config_change => Prepared(u)
    PROVE  Local(u) /\ Frame(w, u)
BY DEF Local, Same, Frame, Netdevs

\* setup() of a prepared device keeps Local and moves it to "setup" only.
LEMMA SetupLocal ==
    ASSUME NEW w \in Wdev, Local(w), Prepared(w)
    PROVE  Local(setup(w)) /\ Starts(w, setup(w))
BY DEF setup, Wdev, Local, Prepared, Interfaces, Netdevs, Starts, Frame

\* teardown() keeps Local and moves the device to "teardown" only.
LEMMA TeardownLocal ==
    ASSUME NEW w \in Wdev, Local(w)
    PROVE  Local(teardown(w)) /\ Stops(w, teardown(w))
BY DEF teardown, Wdev, Local, Prepared, Interfaces, Netdevs, Stops, Frame

\* wdev_reset() keeps Local: failures and retries start again together.
LEMMA ResetLocal ==
    ASSUME NEW w \in Wdev, Local(w)
    PROVE  /\ Local(wdev_reset(w))
           /\ wdev_reset(w).state = w.state
           /\ wdev_reset(w).data = w.data
           /\ Frame(w, wdev_reset(w))
BY RetryAssumption DEF wdev_reset, Wdev, Local, Prepared, Interfaces, Netdevs, Frame

\* wdev_update_disabled_vifs() keeps Local: what differs is a recorded change.
LEMMA UpdateVifsLocal ==
    ASSUME NEW w \in Wdev, netif \in Netif, Local(w)
    PROVE  /\ Local(wdev_update_disabled_vifs(w))
           /\ wdev_update_disabled_vifs(w).state = w.state
           /\ Frame(w, wdev_update_disabled_vifs(w))
<1> DEFINE u == wdev_update_disabled_vifs(w)
<1>1. u \in Wdev
    BY UpdateVifsType
<1>2. Same(w, u) /\ u.autostart = w.autostart /\ u.delete = w.delete /\ u.data = w.data
    BY DEF wdev_update_disabled_vifs, Wdev, Same
<1>3. ~u.config_change => u.disabled_vifs = w.disabled_vifs /\ ~w.config_change
    BY Zenon DEF wdev_update_disabled_vifs, Wdev
<1>4. ~u.config_change => Prepared(u)
    BY <1>2, <1>3 DEF Local, Prepared, Interfaces, Same
<1>5. Local(u) /\ Frame(w, u)
    BY <1>1, <1>2, <1>4, SameLocal DEF Local, Same
<1> QED
    BY <1>2, <1>5 DEF Same

\* wdev_config_init() keeps Local and leaves the device prepared.
LEMMA ConfigInitLocal ==
    ASSUME NEW w \in Wdev, Local(w)
    PROVE  /\ Local(wdev_config_init(w))
           /\ Prepared(wdev_config_init(w))
           /\ wdev_config_init(w).state = w.state
           /\ wdev_config_init(w).touched = w.touched
BY DEF wdev_config_init, Wdev, Local, Prepared, Interfaces, Netdevs, NoData

\* update() keeps Local: new data is a recorded change.
LEMMA UpdateLocal ==
    ASSUME NEW w \in Wdev, NEW data \in Config, Local(w)
    PROVE  /\ Local(update(w, data)) /\ Starts(w, update(w, data))
           /\ Local(update_none(w)) /\ Starts(w, update_none(w))
<1>1. ASSUME NEW r \in Wdev, Local(r)
      PROVE  LET u == [r EXCEPT !.data = data, !.ifindex_cache = NoData,
                                !.delete = FALSE, !.config_change = TRUE]
                 n == [r EXCEPT !.config_change = TRUE]
             IN  /\ Local(u) /\ u.state = r.state /\ Frame(r, u)
                 /\ Local(n) /\ n.state = r.state /\ Frame(r, n)
    BY <1>1 DEF Wdev, Local, Prepared, Interfaces, Netdevs, Frame
<1>2. wdev_reset(w) \in Wdev
    BY ResetType
<1> QED
    BY <1>1, <1>2, ResetLocal, Zenon DEF update, update_none, Starts, Frame

\* check() keeps Local and leaves a device with a run under way alone.
LEMMA CheckLocal ==
    ASSUME NEW w \in Wdev, netif \in Netif, Local(w)
    PROVE  Local(check(w)) /\ Starts(w, check(w))
<1> DEFINE upd == wdev_update_disabled_vifs(w)
<1>1. upd \in Wdev /\ Local(upd) /\ upd.state = w.state /\ Frame(w, upd)
    BY UpdateVifsType, UpdateVifsLocal
<1>2. LET ci == wdev_config_init(upd)
      IN  /\ ci \in Wdev /\ Local(ci) /\ Prepared(ci)
          /\ ci.state = upd.state /\ ci.touched = upd.touched
    BY <1>1, ConfigInitType, ConfigInitLocal
<1> QED
    BY <1>1, <1>2, SetupLocal DEF check, Starts, Frame

\* start() and retry_setup() keep Local and can only start a setup.
LEMMA StartLocal ==
    ASSUME NEW w \in Wdev, netif \in Netif, Local(w)
    PROVE  /\ Local(start(w)) /\ Starts(w, start(w))
           /\ Local(retry_setup(w)) /\ Starts(w, retry_setup(w))
<1> DEFINE on == [w EXCEPT !.autostart = TRUE]
           reset == wdev_reset(on)
           upd == wdev_update_disabled_vifs(reset)
           ci == wdev_config_init(upd)
<1>1. on \in Wdev /\ Local(on) /\ on.state = w.state /\ Frame(w, on)
  <2>1. on \in Wdev /\ Same(w, on) /\ on.autostart
      BY Zenon DEF Wdev, Same
  <2>2. on.delete = w.delete /\ on.config_change = w.config_change
      BY DEF Wdev
  <2>3. Prepared(w) => Prepared(on)
      BY DEF Wdev, Prepared, Interfaces
  <2> QED
      BY <2>1, <2>2, <2>3, SameLocal, Zenon DEF Local, Same
<1>2. reset \in Wdev /\ Local(reset) /\ reset.state = w.state /\ Frame(w, reset)
    BY <1>1, ResetType, ResetLocal, Zenon DEF Frame
<1>3. upd \in Wdev /\ Local(upd) /\ upd.state = w.state /\ Frame(w, upd)
    BY <1>2, UpdateVifsType, UpdateVifsLocal DEF Frame
<1>4. ci \in Wdev /\ Local(ci) /\ Prepared(ci) /\ ci.state = w.state
    BY <1>3, ConfigInitType, ConfigInitLocal DEF Frame
<1>5. ~upd.config_change => Prepared(upd)
    BY <1>3 DEF Local
<1>6. Local(w) /\ Starts(w, w)
    BY DEF Starts, Frame
<1>7. CASE w.delete
    BY <1>6, <1>7 DEF start, retry_setup
<1>8. CASE ~w.delete /\ w.state # "down"
    BY <1>2, <1>6, <1>8 DEF start, retry_setup, Starts
<1>9. CASE ~w.delete /\ w.state = "down"
  <2> DEFINE u == IF upd.config_change THEN ci ELSE upd
  <2>1. u \in Wdev /\ Local(u) /\ Prepared(u) /\ u.state = w.state
      BY <1>3, <1>4, <1>5 DEF Frame
  <2>2. Local(setup(u)) /\ Starts(w, setup(u))
      BY <2>1, <1>9, SetupLocal DEF Starts, Frame
  <2>3. start(w) = setup(u)
      BY <1>9 DEF start
  <2> QED
      BY <2>2, <2>3, <1>6 DEF retry_setup
<1> QED
    BY <1>7, <1>8, <1>9

\* stop() and destroy() keep Local and can only start a teardown.
LEMMA StopLocal ==
    ASSUME NEW w \in Wdev, Local(w)
    PROVE  /\ Local(stop(w)) /\ Stops(w, stop(w))
           /\ Local(destroy(w)) /\ Stops(w, destroy(w))
<1> DEFINE off(u) == [u EXCEPT !.autostart = FALSE]
<1>1. ASSUME NEW u \in Wdev, u.state # "up", Local(u)
      PROVE  Local(stop(u)) /\ Stops(u, stop(u))
    BY <1>1 DEF stop, Wdev, Local, Prepared, Interfaces, Netdevs, Stops, Frame
<1>2. ASSUME NEW u \in Wdev, u.state = "up", Local(u)
      PROVE  Local(stop(u)) /\ Stops(u, stop(u))
    BY <1>2 DEF stop, teardown, Wdev, Local, Prepared, Interfaces, Netdevs, Stops, Frame
<1>3. Local(stop(w)) /\ Stops(w, stop(w))
    BY <1>1, <1>2
<1>4. CASE w.state # "up"
  <2>1. LET del == [w EXCEPT !.delete = TRUE]
        IN  del \in Wdev /\ Local(del) /\ del.state = w.state /\ Frame(w, del)
    <3> DEFINE del == [w EXCEPT !.delete = TRUE]
    <3>1. del \in Wdev /\ Same(w, del) /\ del.config_change = w.config_change
        BY Zenon DEF Wdev, Same
    <3>2. Prepared(w) => Prepared(del)
        BY DEF Wdev, Prepared, Interfaces
    <3> QED
        BY <1>4, <3>1, <3>2, SameLocal, Zenon DEF Local, Same
  <2> QED
      BY <2>1, <1>1, <1>3, <1>4, Zenon DEF destroy, Stops, Frame
<1>5. CASE w.state = "up"
  <2>1. Local(destroy(w)) /\ Stops(w, destroy(w))
      BY <1>5 DEF destroy, stop, teardown, Wdev, Local, Prepared, Interfaces, Netdevs, Stops, Frame
  <2> QED
      BY <2>1, <1>3
<1> QED
    BY <1>4, <1>5

\* The end of a setup script keeps Local; a setup that did not come up is torn down.
LEMMA SetupCbLocal ==
    ASSUME NEW w \in Wdev, netif \in Netif, Local(w)
    PROVE  /\ Local(wdev_setup_cb(w))
           /\ w.state = "setup" => wdev_setup_cb(w).state = "teardown"
           /\ w.state = "up" => wdev_setup_cb(w).state \in {"up", "setup"}
           /\ w.state \in {"teardown", "down"} => wdev_setup_cb(w) = w
<1>1. CASE w.state = "setup"
  <2> DEFINE f == [w EXCEPT !.retry = IF @ > 0 THEN @ - 1 ELSE @,
                            !.retry_setup_failed = @ \/ w.retry = 0,
                            !.fails = @ + 1]
  <2>1. wdev_setup_cb(w) = teardown(f)
      BY <1>1 DEF wdev_setup_cb
  <2>2. /\ teardown(f).state = "teardown" /\ ~w.retry_setup_failed
        /\ teardown(f).retry = (IF w.retry > 0 THEN w.retry - 1 ELSE w.retry)
        /\ w.retry = 0 => teardown(f).retry_setup_failed
        /\ teardown(f).fails = w.fails + 1
      BY <1>1, Zenon DEF teardown, Wdev, Local
  <2>3. w.retry \in Nat /\ w.fails \in Nat /\ w.fails + w.retry <= DEFAULT_RETRY
      BY <2>2 DEF Wdev, Local
  <2>4. \/ teardown(f).fails + teardown(f).retry <= DEFAULT_RETRY
        \/ teardown(f).retry_setup_failed /\ teardown(f).fails <= DEFAULT_RETRY + 1
      BY <2>2, <2>3, RetryAssumption
  <2>5. LET u == teardown(f)
        IN  /\ u.touched = w.touched /\ u.phy = w.phy
            /\ u.links = w.links /\ u.orphans = w.orphans
            /\ u.handler_data = w.handler_data
            /\ u.config_change = w.config_change
            /\ Prepared(w) => Prepared(u)
      BY <1>1 DEF teardown, Wdev, Prepared, Interfaces
  <2>6. Local(teardown(f))
      BY <2>2, <2>4, <2>5 DEF Local, Netdevs
  <2> QED
      BY <1>1, <2>1, <2>2, <2>6
<1>2. CASE w.state = "up" /\ w.config_change
  <2>1. LET ci == wdev_config_init(w)
        IN  ci \in Wdev /\ Local(ci) /\ Prepared(ci) /\ ci.state = "up"
      BY <1>2, ConfigInitType, ConfigInitLocal
  <2>2. wdev_setup_cb(w) = setup(wdev_config_init(w))
      BY <1>2 DEF wdev_setup_cb
  <2> QED
      BY <1>2, <2>1, <2>2, SetupLocal DEF Starts
<1>3. CASE w.state \in {"teardown", "down"} \/ (w.state = "up" /\ ~w.config_change)
    BY <1>3 DEF wdev_setup_cb
<1> QED
    BY <1>1, <1>2, <1>3 DEF Wdev

\* The end of a teardown script keeps Local and leaves the device down or set up anew.
LEMMA TeardownCbLocal ==
    ASSUME NEW w \in Wdev, netif \in Netif, Local(w), w.touched => script.phy
    PROVE  /\ Local(wdev_teardown_cb(w))
           /\ wdev_teardown_cb(w).state \in {"down", "setup"}
<1> DEFINE down1 == LinksDown(w)
           ci == wdev_config_init(down1)
<1>1. down1 \in Wdev
    BY LinksDownType
<1>2. /\ down1.state = "down" /\ ~down1.touched /\ down1.handler_data = NoData
      /\ down1.links \subseteq w.orphans /\ down1.orphans = w.orphans
      /\ down1.fails = w.fails /\ down1.retry = w.retry
      /\ down1.retry_setup_failed = w.retry_setup_failed
      /\ down1.config_change = w.config_change
      /\ Prepared(w) => Prepared(down1)
    BY Zenon DEF LinksDown, Wdev, Local, Prepared, Interfaces
<1>3. Local(down1)
    BY <1>2 DEF Local, NoData
<1>4. ci \in Wdev /\ Local(ci) /\ Prepared(ci) /\ ci.state = "down"
    BY <1>1, <1>2, <1>3, ConfigInitType, ConfigInitLocal
<1>5. ~down1.config_change => Prepared(down1)
    BY <1>3 DEF Local
<1> HIDE DEF down1, ci
<1>6. Local(setup(ci)) /\ setup(ci).state \in {"down", "setup"}
    BY <1>4, SetupLocal DEF Starts
<1>7. ~down1.config_change => Local(setup(down1)) /\ setup(down1).state \in {"down", "setup"}
    BY <1>1, <1>2, <1>3, <1>5, SetupLocal DEF Starts
<1>8. wdev_teardown_cb(w) = CASE down1.delete -> down1
                              [] ~down1.delete /\ down1.config_change -> setup(ci)
                              [] OTHER -> setup(down1)
    BY DEF wdev_teardown_cb, down1, ci
<1> QED
    BY <1>2, <1>3, <1>6, <1>7, <1>8

\* The UP notification keeps Local: an unwanted device is torn down instead.
LEMMA MarkUpLocal ==
    ASSUME NEW w \in Wdev, Local(w), w.state = "setup"
    PROVE  Local(wdev_mark_up(w)) /\ wdev_mark_up(w).state \in {"up", "teardown"}
<1>1. CASE w.cancel_setup \/ ~w.autostart \/ w.delete
  <2>1. wdev_mark_up(w) = teardown(w)
      BY <1>1 DEF wdev_mark_up
  <2>2. teardown(w).state = "teardown"
      BY DEF teardown, Wdev
  <2> QED
      BY <2>1, <2>2, TeardownLocal
<1>2. CASE ~(w.cancel_setup \/ ~w.autostart \/ w.delete)
  <2> DEFINE u == wdev_mark_up(w)
  <2>1. u = [wdev_reset(w) EXCEPT !.links = @ \cup Netdevs(w), !.state = "up"]
      BY <1>2 DEF wdev_mark_up
  <2>2. /\ u.state = "up" /\ u.autostart = w.autostart /\ u.delete = w.delete
        /\ u.retry = DEFAULT_RETRY /\ ~u.retry_setup_failed /\ u.fails = 0
        /\ u.touched = w.touched /\ u.phy = w.phy
        /\ u.links = w.links \cup Netdevs(w) /\ u.orphans = w.orphans
        /\ u.handler_data = w.handler_data /\ u.config_change = w.config_change
        /\ Prepared(w) => Prepared(u)
      BY <2>1 DEF wdev_reset, Wdev, Prepared, Interfaces
  <2>3. u.fails + u.retry <= DEFAULT_RETRY
      BY <2>2, RetryAssumption
  <2>4. Local(u)
      BY <1>2, <2>2, <2>3 DEF Local, Netdevs
  <2> QED
      BY <2>2, <2>4
<1> QED
    BY <1>1, <1>2

\* A device that is new, or does not exist, is down and satisfies Local.
LEMMA NewLocal ==
    ASSUME NEW data \in Config, netif \in Netif
    PROVE  /\ Local(NoWdev) /\ NoWdev.state = "down"
           /\ Local(new(data)) /\ new(data).state = "down"
<1>1. NoWdev \in Wdev /\ Local(NoWdev) /\ NoWdev.state = "down"
    BY NoWdevType, RetryAssumption DEF NoWdev, Local, NoData, Netdevs
<1> DEFINE n == [NoWdev EXCEPT !.data = data]
<1>2. n \in Wdev
    BY <1>1 DEF Wdev
<1>3. Same(NoWdev, n) /\ n.config_change
    BY DEF Same, NoWdev
<1>4. n.state = "down"
    BY DEF NoWdev
<1>5. Local(n)
    BY <1>1, <1>2, <1>3, <1>4, SameLocal, Zenon
<1> HIDE DEF n
<1>6. LET u == wdev_update_disabled_vifs(n)
      IN  u \in Wdev /\ Local(u) /\ u.state = "down"
    BY <1>2, <1>4, <1>5, UpdateVifsType, UpdateVifsLocal
<1>7. LET c == wdev_config_init(wdev_update_disabled_vifs(n))
      IN  Local(c) /\ c.state = "down"
    BY <1>6, ConfigInitLocal
<1> QED
    BY <1>1, <1>7 DEF new, n

(***************************************************************************)
(* The inductive invariant.                                                *)
(***************************************************************************)

\* How the state of device d, its queue entry op and the running script s of
\* device cur belong together.
RunOK(d, op, cur, s, w) ==
    /\ op # "none" => op = w.state
    /\ w.state \in {"setup", "teardown"} =>
          op = w.state \/ (cur = d /\ s.op = w.state /\ ~s.notified)
    /\ cur = d => s.op \in {"setup", "teardown"} /\ w.state # "down"
    /\ cur = d /\ s.op = "teardown" =>
          w.state = "teardown" /\ op = "none" /\ (w.touched => s.phy)
    /\ cur = d /\ s.op = "setup" /\ ~s.notified =>
          /\ w.state \in {"setup", "teardown"}
          /\ op # "setup"
          /\ s.config = w.handler_config

Runs == \A d \in Dev : RunOK(d, wdev_handler[d].op, wdev_cur, script, wdev[d])

Objects == \A d \in Dev : Local(wdev[d])

Removed == \A d \in Dev \ devices : wdev[d].state = "down"

IInv == TypeOK /\ Objects /\ Runs /\ Removed

(***************************************************************************)
(* The queue.                                                              *)
(***************************************************************************)

\* Taking the next run from a queue that is in order keeps it in order.
LEMMA NextHandlerKeeps ==
    ASSUME NEW W \in [Dev -> Wdev], NEW q \in [Dev -> Entry], NEW s,
           \A d \in Dev : Local(W[d]) /\ RunOK(d, q[d].op, None, s, W[d]),
           __run_next_handler(q, W)
    PROVE  /\ \A e \in Dev : RunOK(e, wdev_handler'[e].op, wdev_cur', script', W[e])
           /\ wdev_handler' \in [Dev -> Entry]
           /\ wdev_cur' \in Dev \cup {None}
           /\ script' \in Script
<1>1. PICK d \in __run_next_handler_name(q) :
        /\ wdev_cur' = d
        /\ script' = [op |-> q[d].op, config |-> W[d].handler_config,
                      phy |-> W[d].phy, notified |-> FALSE]
        /\ wdev_handler' = Dequeue(q, d)
    BY Zenon DEF __run_next_handler
<1>2. d \in Dev /\ q[d].op # "none"
    BY <1>1 DEF __run_next_handler_name, Queued
<1>3. W[d] \in Wdev /\ W[d].handler_config \in HandlerConfig /\ W[d].phy \in BOOLEAN
    BY <1>2 DEF Wdev
<1>4. script' \in Script
    BY <1>1, <1>2, <1>3 DEF Script, Entry
<1>5. wdev_handler' \in [Dev -> Entry]
    BY <1>1 DEF Dequeue, Entry, NoEntry
<1>6. \A e \in Dev : wdev_handler'[e].op = IF e = d THEN "none" ELSE q[e].op
    BY <1>1 DEF Dequeue, Entry, NoEntry
<1>7. q[d].op = W[d].state /\ W[d].state \in {"setup", "teardown"}
    BY <1>2 DEF RunOK, Entry
<1>8. /\ script'.op = q[d].op /\ script'.config = W[d].handler_config
      /\ script'.phy = W[d].phy /\ script'.notified = FALSE
    BY <1>1
<1>9. ASSUME NEW e \in Dev
      PROVE  RunOK(e, wdev_handler'[e].op, wdev_cur', script', W[e])
  <2>1. CASE e = d
    <3>1. W[d].touched => W[d].phy
        BY <1>2 DEF Local
    <3> QED
        BY <2>1, <3>1, <1>1, <1>6, <1>7, <1>8 DEF RunOK
  <2>2. CASE e # d
      BY <2>2, <1>1, <1>6, NoneAssumption DEF RunOK
  <2> QED
      BY <2>1, <2>2
<1> QED
    BY <1>1, <1>2, <1>4, <1>5, <1>9, Zenon

\* A call leaves the objects W and the queue in order, if what it does not
\* queue is in order and what it queues interrupts a setup script at most.
LEMMA RunHandlerKeeps ==
    ASSUME TypeOK, NEW W \in [Dev -> Wdev], NEW cur \in Dev \cup {None}, NEW s \in Script,
           run_handler(cur, s, W),
           \A d \in Dev : Local(W[d]),
           \A d \in Dev \ QueuedBy(W) : RunOK(d, wdev_handler[d].op, cur, s, W[d]),
           \A d \in QueuedBy(W) : cur = d =>
               /\ s.op = "setup"
               /\ ~s.notified => W[d].state = "teardown" /\ s.config = W[d].handler_config
    PROVE  /\ wdev' = W /\ Objects' /\ Runs'
           /\ wdev_handler' \in [Dev -> Entry]
           /\ wdev_cur' \in Dev \cup {None}
           /\ script' \in Script
<1>1. wdev' = W
    BY DEF run_handler
<1>2. Objects'
    BY <1>1 DEF Objects
<1>3. CASE QueuedBy(W) = {}
  <2>1. wdev_cur' = cur /\ script' = s /\ wdev_handler' = wdev_handler
      BY <1>3 DEF run_handler
  <2>2. Runs'
      BY <1>1, <1>3, <2>1 DEF Runs
  <2> QED
      BY <1>1, <1>2, <2>1, <2>2 DEF TypeOK
<1>4. CASE QueuedBy(W) # {}
  <2>1. PICK later \in BOOLEAN :
          LET q == Enqueue(wdev_handler, W, later)
          IN  IF cur = None THEN __run_next_handler(q, W)
              ELSE wdev_handler' = q /\ wdev_cur' = cur /\ script' = s
      BY <1>4 DEF run_handler
  <2> DEFINE q == Enqueue(wdev_handler, W, later)
  <2>2. q \in [Dev -> Entry]
    <3>1. \A d \in QueuedBy(W) : d \in Dev /\ W[d].state \in {"setup", "teardown"}
        BY DEF QueuedBy
    <3>2. Queued(wdev_handler) \subseteq Dev
        BY DEF Queued
    <3> QED
        BY <3>1, <3>2 DEF Enqueue, Entry, TypeOK
  <2>3. \A d \in Dev : q[d].op = IF d \in QueuedBy(W) THEN W[d].state ELSE wdev_handler[d].op
      BY DEF Enqueue, TypeOK, Entry
  <2>4. \A d \in QueuedBy(W) : d \in Dev /\ W[d].state \in {"setup", "teardown"}
      BY DEF QueuedBy
  <2> HIDE DEF q
  <2>5. \A d \in Dev : RunOK(d, q[d].op, cur, s, W[d])
    <3> SUFFICES ASSUME NEW d \in Dev PROVE RunOK(d, q[d].op, cur, s, W[d])
        OBVIOUS
    <3>1. CASE d \in QueuedBy(W)
        BY <3>1, <2>3, <2>4 DEF RunOK
    <3>2. CASE d \notin QueuedBy(W)
        BY <3>2, <2>3
    <3> QED
        BY <3>1, <3>2
  <2>6. CASE cur # None
      BY <1>1, <1>2, <2>1, <2>2, <2>5, <2>6 DEF Runs, q
  <2>7. CASE cur = None
    <3>1. __run_next_handler(q, W)
        BY <2>1, <2>7 DEF q
    <3> QED
        BY <1>1, <1>2, <2>2, <2>5, <2>7, <3>1, NextHandlerKeeps, Zenon DEF Runs
  <2> QED
      BY <2>6, <2>7
<1> QED
    BY <1>3, <1>4

\* A call that moves every object along Starts or Stops keeps the queue in order.
LEMMA CallKeeps ==
    ASSUME IInv, NEW W \in [Dev -> Wdev], run_handler(wdev_cur, script, W),
           \A d \in Dev : Local(W[d]),
           \A d \in Dev : Starts(wdev[d], W[d]) \/ Stops(wdev[d], W[d])
    PROVE  /\ wdev' = W /\ Objects' /\ Runs'
           /\ wdev_handler' \in [Dev -> Entry]
           /\ wdev_cur' \in Dev \cup {None}
           /\ script' \in Script
<1>1. \A d \in Dev \ QueuedBy(W) :
          W[d].state = wdev[d].state /\ Frame(wdev[d], W[d])
    BY DEF QueuedBy, Starts, Stops
<1>2. \A d \in Dev \ QueuedBy(W) : RunOK(d, wdev_handler[d].op, wdev_cur, script, W[d])
    BY <1>1 DEF IInv, Runs, RunOK, Frame
<1>3. \A d \in QueuedBy(W) : wdev_cur = d =>
          /\ script.op = "setup"
          /\ ~script.notified => W[d].state = "teardown" /\ script.config = W[d].handler_config
    BY DEF QueuedBy, Starts, Stops, Frame, IInv, Runs, RunOK
<1> QED
    BY <1>2, <1>3, RunHandlerKeeps DEF IInv, TypeOK

\* A call that makes no difference to some object.
LEMMA StayOK ==
    ASSUME IInv, NEW d \in Dev
    PROVE  wdev[d] \in Wdev /\ Local(wdev[d]) /\ Starts(wdev[d], wdev[d])
BY DEF IInv, TypeOK, Objects, Starts, Frame

\* A method that moves one object along Starts or Stops, called for some of
\* the devices that exist.
LEMMA SomeKeep ==
    ASSUME IInv, NEW S \in SUBSET devices, NEW W,
           W \in [Dev -> Wdev],
           \A d \in S : Local(W[d]) /\ (Starts(wdev[d], W[d]) \/ Stops(wdev[d], W[d])),
           \A d \in Dev \ S : W[d] = wdev[d],
           run_handler(wdev_cur, script, W),
           mld_start' \in BOOLEAN,
           UNCHANGED <<devices, handler_timer, netif>>,
           config_pending' \in BOOLEAN
    PROVE  IInv'
<1>1. \A d \in Dev : Local(W[d]) /\ (Starts(wdev[d], W[d]) \/ Stops(wdev[d], W[d]))
    BY StayOK DEF IInv, TypeOK
<1>2. /\ wdev' = W /\ Objects' /\ Runs'
      /\ wdev_handler' \in [Dev -> Entry]
      /\ wdev_cur' \in Dev \cup {None}
      /\ script' \in Script
    BY <1>1, CallKeeps
<1>3. Removed'
    BY <1>2 DEF Removed, IInv
<1> QED
    BY <1>2, <1>3 DEF IInv, TypeOK

\* A request that makes the objects of some devices those of F.
LEMMA MethodKeeps ==
    ASSUME IInv, NEW F, NEW S \in SUBSET devices,
           \A d \in Dev : /\ F[d] \in Wdev /\ Local(F[d])
                          /\ Starts(wdev[d], F[d]) \/ Stops(wdev[d], F[d]),
           Call([d \in Dev |-> IF d \in S THEN F[d] ELSE wdev[d]]),
           UNCHANGED <<devices, handler_timer, config_pending, netif>>
    PROVE  IInv'
<1> DEFINE W == [d \in Dev |-> IF d \in S THEN F[d] ELSE wdev[d]]
<1>1. W \in [Dev -> Wdev]
    BY StayOK
<1>2. \A d \in S : Local(W[d]) /\ (Starts(wdev[d], W[d]) \/ Stops(wdev[d], W[d]))
    BY DEF IInv, TypeOK
<1>3. \A d \in Dev \ S : W[d] = wdev[d]
    OBVIOUS
<1>4. run_handler(wdev_cur, script, W) /\ mld_start' \in BOOLEAN
    BY DEF Call
<1>5. config_pending' \in BOOLEAN
    BY DEF IInv, TypeOK
<1> HIDE DEF W
<1> QED
    BY <1>1, <1>2, <1>3, <1>4, <1>5, SomeKeep

\* A ubus method, called for one device or for all of them.
LEMMA WdevCallKeeps ==
    ASSUME IInv, NEW F,
           \A d \in Dev : /\ F[d] \in Wdev /\ Local(F[d])
                          /\ Starts(wdev[d], F[d]) \/ Stops(wdev[d], F[d]),
           wdev_call(F)
    PROVE  IInv'
<1>1. PICK S \in {{d} : d \in devices} \cup {devices} :
          Call([d \in Dev |-> IF d \in S THEN F[d] ELSE wdev[d]])
    BY DEF wdev_call
<1>2. S \in SUBSET devices /\ UNCHANGED <<devices, handler_timer, config_pending, netif>>
    BY DEF wdev_call
<1> QED
    BY <1>1, <1>2, MethodKeeps

\* The ubus method up keeps the invariant.
LEMMA UpKeeps ==
    ASSUME IInv, up
    PROVE  IInv'
<1> DEFINE F == [d \in Dev |-> start(wdev[d])]
<1>1. \A d \in Dev : /\ F[d] \in Wdev /\ Local(F[d])
                     /\ Starts(wdev[d], F[d]) \/ Stops(wdev[d], F[d])
    BY StayOK, StartType, StartLocal DEF IInv, TypeOK
<1>2. wdev_call(F)
    BY DEF up
<1> HIDE DEF F
<1> QED
    BY <1>1, <1>2, WdevCallKeeps

\* The ubus method down keeps the invariant.
LEMMA DownKeeps ==
    ASSUME IInv, down
    PROVE  IInv'
<1> DEFINE F == [d \in Dev |-> stop(wdev[d])]
<1>1. \A d \in Dev : /\ F[d] \in Wdev /\ Local(F[d])
                     /\ Starts(wdev[d], F[d]) \/ Stops(wdev[d], F[d])
    BY StayOK, StopType, StopLocal
<1>2. wdev_call(F)
    BY DEF down
<1> HIDE DEF F
<1> QED
    BY <1>1, <1>2, WdevCallKeeps

\* The ubus method retry keeps the invariant.
LEMMA RetryKeeps ==
    ASSUME IInv, retry
    PROVE  IInv'
<1> DEFINE F == [d \in Dev |-> retry_setup(wdev[d])]
<1>1. \A d \in Dev : /\ F[d] \in Wdev /\ Local(F[d])
                     /\ Starts(wdev[d], F[d]) \/ Stops(wdev[d], F[d])
    BY StayOK, StartType, StartLocal DEF IInv, TypeOK
<1>2. wdev_call(F)
    BY DEF retry
<1> HIDE DEF F
<1> QED
    BY <1>1, <1>2, WdevCallKeeps

\* The ubus method reconf keeps the invariant.
LEMMA ReconfKeeps ==
    ASSUME IInv, reconf
    PROVE  IInv'
<1> DEFINE F == [d \in Dev |-> check(update_none(wdev[d]))]
<1>1. \A d \in Dev : /\ F[d] \in Wdev /\ Local(F[d])
                     /\ Starts(wdev[d], F[d]) \/ Stops(wdev[d], F[d])
  <2> SUFFICES ASSUME NEW d \in Dev
               PROVE  F[d] \in Wdev /\ Local(F[d]) /\ Starts(wdev[d], F[d])
      OBVIOUS
  <2> DEFINE w == wdev[d]
             u == update_none(w)
  <2>1. w \in Wdev /\ Local(w) /\ netif \in Netif
      BY StayOK DEF IInv, TypeOK
  <2>2. u \in Wdev /\ Local(u) /\ Starts(w, u)
      BY <2>1, UpdateType, UpdateLocal, ConfigAssumption
  <2>3. check(u) \in Wdev /\ Local(check(u)) /\ Starts(u, check(u))
      BY <2>1, <2>2, CheckType, CheckLocal
  <2> QED
      BY <2>2, <2>3 DEF Starts, Frame
<1>2. wdev_call(F)
    BY DEF reconf
<1> HIDE DEF F
<1> QED
    BY <1>1, <1>2, WdevCallKeeps

\* check_interfaces() keeps the invariant.
LEMMA CheckInterfacesKeeps ==
    ASSUME IInv, check_interfaces
    PROVE  IInv'
<1> DEFINE F == [d \in Dev |-> check(wdev[d])]
           S == {d \in devices : wdev[d].autostart}
<1>1. \A d \in Dev : /\ F[d] \in Wdev /\ Local(F[d])
                     /\ Starts(wdev[d], F[d]) \/ Stops(wdev[d], F[d])
    BY StayOK, CheckType, CheckLocal DEF IInv, TypeOK
<1>2. [d \in Dev |-> IF d \in devices /\ wdev[d].autostart THEN check(wdev[d]) ELSE wdev[d]]
          = [d \in Dev |-> IF d \in S THEN F[d] ELSE wdev[d]]
    OBVIOUS
<1>3. Call([d \in Dev |-> IF d \in S THEN F[d] ELSE wdev[d]])
    BY <1>2 DEF check_interfaces
<1>4. UNCHANGED <<devices, handler_timer, config_pending, netif>> /\ S \in SUBSET devices
    BY DEF check_interfaces
<1> HIDE DEF F, S
<1> QED
    BY <1>1, <1>3, <1>4, MethodKeeps

\* wdev_proc_check() keeps the invariant: a dead process starts a teardown.
LEMMA ProcCheckKeeps ==
    ASSUME IInv, NEW p \in Dev, wdev_proc_check(p)
    PROVE  IInv'
<1> DEFINE F == [d \in Dev |-> teardown(wdev[d])]
<1>1. \A d \in Dev : /\ F[d] \in Wdev /\ Local(F[d])
                     /\ Starts(wdev[d], F[d]) \/ Stops(wdev[d], F[d])
    BY StayOK, TeardownType, TeardownLocal
<1>2. [wdev EXCEPT ![p] = teardown(@)]
          = [d \in Dev |-> IF d \in {p} THEN F[d] ELSE wdev[d]]
    BY Zenon DEF IInv, TypeOK
<1>3. Call([d \in Dev |-> IF d \in {p} THEN F[d] ELSE wdev[d]])
    BY <1>2 DEF wdev_proc_check
<1>4. UNCHANGED <<devices, handler_timer, config_pending, netif>> /\ {p} \in SUBSET devices
    BY DEF wdev_proc_check
<1> HIDE DEF F
<1> QED
    BY <1>1, <1>3, <1>4, MethodKeeps, Zenon

\* config_start() keeps the invariant, whatever number of devices it starts.
LEMMA ConfigStartKeeps ==
    ASSUME IInv, config_start
    PROVE  IInv'
<1> DEFINE W == StartAll
           S == {d \in devices : wdev[d].autostart}
<1>1. ASSUME NEW d \in Dev
      PROVE  LET u == check(start(wdev[d]))
             IN  u \in Wdev /\ Local(u) /\ Starts(wdev[d], u)
  <2> DEFINE w == wdev[d]
  <2>1. w \in Wdev /\ Local(w) /\ netif \in Netif
      BY StayOK DEF IInv, TypeOK
  <2>2. start(w) \in Wdev /\ Local(start(w)) /\ Starts(w, start(w))
      BY <2>1, StartType, StartLocal
  <2>3. LET u == check(start(w))
        IN  u \in Wdev /\ Local(u) /\ Starts(start(w), u)
      BY <2>1, <2>2, CheckType, CheckLocal
  <2> QED
      BY <2>2, <2>3 DEF Starts, Frame
<1>2. W \in [Dev -> Wdev]
    BY <1>1, StayOK DEF StartAll
<1>3. \A d \in S : Local(W[d]) /\ (Starts(wdev[d], W[d]) \/ Stops(wdev[d], W[d]))
  <2>1. \A d \in S : d \in Dev /\ W[d] = check(start(wdev[d]))
      BY DEF StartAll, IInv, TypeOK
  <2> QED
      BY <1>1, <2>1
<1>4. \A d \in Dev \ S : W[d] = wdev[d]
    BY DEF StartAll
<1>5. run_handler(wdev_cur, script, W) /\ mld_start' \in BOOLEAN
    BY DEF config_start
<1>6. UNCHANGED <<devices, handler_timer, netif>> /\ config_pending' \in BOOLEAN
    BY Zenon DEF config_start
<1>7. S \in SUBSET devices
    OBVIOUS
<1> HIDE DEF W, S
<1> QED
    BY <1>2, <1>3, <1>4, <1>5, <1>6, <1>7, SomeKeep

\* config_init() keeps the invariant: only devices without a run vanish at once.
LEMMA ConfigInitKeeps ==
    ASSUME IInv, NEW S \in SUBSET Dev, NEW data \in [S -> Config], config_init(S, data)
    PROVE  IInv'
<1> DEFINE gone == RemovedAtOnce(S)
           W == [d \in Dev |->
                    CASE d \in devices \cap S -> update(wdev[d], data[d])
                      [] d \in S \ devices -> new(data[d])
                      [] d \in (devices \ S) \ gone -> destroy(wdev[d])
                      [] OTHER -> NoWdev]
           OK(d) == /\ W[d] \in Wdev /\ Local(W[d])
                    /\ Starts(wdev[d], W[d]) \/ Stops(wdev[d], W[d])
<1>0. netif \in Netif /\ devices \subseteq Dev
    BY DEF IInv, TypeOK
<1>1. ASSUME NEW d \in Dev PROVE OK(d)
  <2> DEFINE w == wdev[d]
  <2>1. w \in Wdev /\ Local(w)
      BY StayOK
  <2>2. CASE d \in devices \cap S
    <3>1. data[d] \in Config
        BY <2>2
    <3>2. W[d] = update(w, data[d])
        BY <2>2
    <3> QED
        BY <2>1, <3>1, <3>2, UpdateType, UpdateLocal
  <2>3. CASE d \in S \ devices
    <3>1. data[d] \in Config /\ w.state = "down"
        BY <2>3 DEF IInv, Removed
    <3>2. W[d] = new(data[d])
        BY <2>3
    <3>3. new(data[d]) \in Wdev /\ Local(new(data[d])) /\ new(data[d]).state = "down"
        BY <1>0, <3>1, NewType, NewLocal
    <3> QED
        BY <3>1, <3>2, <3>3 DEF Starts, Frame
  <2>4. CASE d \in (devices \ S) \ gone
    <3>1. W[d] = destroy(w)
        BY <2>4
    <3> QED
        BY <2>1, <3>1, StopType, StopLocal
  <2>5. CASE d \notin S /\ (d \notin devices \/ d \in gone)
    <3>1. w.state = "down"
        BY <2>5 DEF IInv, Removed, RemovedAtOnce
    <3>2. W[d] = NoWdev
        BY <2>5
    <3>3. NoWdev \in Wdev /\ Local(NoWdev) /\ NoWdev.state = "down"
        BY <1>0, NoWdevType, NewLocal, ConfigAssumption
    <3> QED
        BY <3>1, <3>2, <3>3 DEF Starts, Frame
  <2> QED
      BY <2>2, <2>3, <2>4, <2>5
<1>2. W \in [Dev -> Wdev]
    BY <1>1
<1>3. run_handler(wdev_cur, script, W)
    BY DEF config_init
<1>4. ASSUME NEW d \in Dev \ ((devices \ gone) \cup S) PROVE W[d].state = "down"
  <2>1. W[d] = NoWdev
      BY <1>4
  <2> QED
      BY <1>0, <2>1, NewLocal, ConfigAssumption
<1>5. /\ devices' = (devices \ gone) \cup S /\ config_pending' = TRUE
      /\ handler_timer' \in BOOLEAN /\ mld_start' = FALSE /\ netif' = netif
    BY DEF config_init
<1>6. \A d \in Dev : Local(W[d]) /\ (Starts(wdev[d], W[d]) \/ Stops(wdev[d], W[d]))
    BY <1>1
<1> HIDE DEF W, gone
<1>7. /\ wdev' = W /\ Objects' /\ Runs'
      /\ wdev_handler' \in [Dev -> Entry]
      /\ wdev_cur' \in Dev \cup {None}
      /\ script' \in Script
    BY <1>2, <1>3, <1>6, CallKeeps
<1>8. Removed'
    BY <1>4, <1>5, <1>7 DEF Removed
<1> QED
    BY <1>0, <1>2, <1>5, <1>7, <1>8, Zenon DEF IInv, TypeOK

\* The 1 ms timer keeps the invariant: it takes the next run from the queue.
LEMMA HandlerTimerKeeps ==
    ASSUME IInv, HandlerTimer
    PROVE  IInv'
<1>1. /\ devices' = devices /\ wdev' = wdev /\ netif' = netif
      /\ config_pending' = config_pending /\ handler_timer' = FALSE
    BY DEF HandlerTimer
<1>2. Objects' /\ Removed'
    BY <1>1 DEF IInv, Objects, Removed
<1>3. CASE wdev_cur = None /\ Queued(wdev_handler) # {}
  <2>1. __run_next_handler(wdev_handler, wdev) /\ mld_start' = mld_start
      BY <1>3 DEF HandlerTimer, run_next_handler
  <2>2. /\ \A e \in Dev : RunOK(e, wdev_handler'[e].op, wdev_cur', script', wdev[e])
        /\ wdev_handler' \in [Dev -> Entry]
        /\ wdev_cur' \in Dev \cup {None}
        /\ script' \in Script
      BY <1>3, <2>1, NextHandlerKeeps, Zenon DEF IInv, TypeOK, Objects, Runs
  <2> QED
      BY <1>1, <1>2, <2>1, <2>2, Zenon DEF IInv, TypeOK, Runs
<1>4. CASE ~(wdev_cur = None /\ Queued(wdev_handler) # {})
  <2>1. /\ UNCHANGED <<wdev_handler, wdev_cur, script>>
        /\ mld_start' \in {mld_start, TRUE}
      BY <1>4, Zenon DEF HandlerTimer, run_next_handler
  <2> QED
      BY <1>1, <1>2, <2>1, Zenon DEF IInv, TypeOK, Runs
<1> QED
    BY <1>3, <1>4

\* The end of a script keeps the invariant: its callback leaves the state and the
\* queue in step, for the device of the script and for all others.
LEMMA RunHandlerCbKeeps ==
    ASSUME IInv, run_handler_cb
    PROVE  IInv'
<1> DEFINE d == wdev_cur
           w == wdev[d]
           gone == script.op = "teardown" /\ w.delete
           done == IF script.op = "setup" THEN wdev_setup_cb(w) ELSE wdev_teardown_cb(w)
           W == [wdev EXCEPT ![d] = IF gone THEN NoWdev ELSE done]
<1>1. d \in Dev /\ w \in Wdev /\ Local(w) /\ netif \in Netif
    BY StayOK DEF run_handler_cb, IInv, TypeOK
<1>2. RunOK(d, wdev_handler[d].op, d, script, w)
    BY <1>1 DEF IInv, Runs
<1>3. script.op \in {"setup", "teardown"}
    BY <1>2 DEF RunOK
<1>4. Local(NoWdev) /\ NoWdev \in Wdev /\ NoWdev.state = "down"
    BY <1>1, NoWdevType, NewLocal, ConfigAssumption
<1>5. done \in Wdev /\ Local(done)
  <2>1. CASE script.op = "setup"
      BY <1>1, <2>1, SetupCbType, SetupCbLocal
  <2>2. CASE script.op = "teardown"
    <3>1. w.touched => script.phy
        BY <1>2, <2>2 DEF RunOK
    <3> QED
        BY <1>1, <2>2, <3>1, TeardownCbType, TeardownCbLocal
  <2> QED
      BY <1>3, <2>1, <2>2
<1> DEFINE u == IF gone THEN NoWdev ELSE done
<1>6. u \in Wdev /\ Local(u) /\ W = [wdev EXCEPT ![d] = u]
    BY <1>4, <1>5
<1>7. \/ u.state \in {"setup", "teardown"} /\ u.state # w.state
      \/ RunOK(d, wdev_handler[d].op, None, NoScript, u)
  <2>0. d # None
      BY <1>1, NoneAssumption
  <2>1. CASE script.op = "setup"
    <3>1. /\ w.state = "setup" => u.state = "teardown"
          /\ w.state = "up" => u.state \in {"up", "setup"}
          /\ w.state \in {"teardown", "down"} => u = w
        BY <1>1, <2>1, SetupCbLocal
    <3>2. w.state \in {"setup", "up", "teardown"}
        BY <1>1, <1>2 DEF RunOK, Wdev
    <3>3. CASE w.state = "setup"
        BY <3>1, <3>3
    <3>4. CASE w.state = "up"
      <4>1. wdev_handler[d].op = "none"
          BY <1>1, <1>2, <3>4 DEF RunOK, IInv, TypeOK, Entry
      <4> QED
          BY <2>0, <3>1, <3>4, <4>1 DEF RunOK
    <3>5. CASE w.state = "teardown"
        BY <1>2, <2>0, <2>1, <3>1, <3>5 DEF RunOK
    <3> QED
        BY <3>2, <3>3, <3>4, <3>5
  <2>2. CASE script.op = "teardown"
    <3>1. w.state = "teardown" /\ wdev_handler[d].op = "none" /\ (w.touched => script.phy)
        BY <1>2, <2>2 DEF RunOK
    <3>2. u.state \in {"down", "setup"}
        BY <1>1, <1>4, <2>2, <3>1, TeardownCbLocal
    <3> QED
        BY <2>0, <3>1, <3>2 DEF RunOK
  <2> QED
      BY <1>3, <2>1, <2>2
<1>8. run_handler(None, NoScript, W)
    BY DEF run_handler_cb
<1>9. /\ devices' = (IF gone THEN devices \ {d} ELSE devices)
      /\ mld_start' \in BOOLEAN /\ handler_timer' = TRUE
      /\ config_pending' = config_pending /\ netif' = netif
    BY DEF run_handler_cb
<1>10. gone => u.state = "down"
    BY <1>4
<1> HIDE DEF W, u, gone, done
<1>11. W \in [Dev -> Wdev] /\ W[d] = u /\ \A e \in Dev \ {d} : W[e] = wdev[e]
    BY <1>1, <1>6 DEF IInv, TypeOK
<1>12. \A e \in Dev : Local(W[e])
    BY <1>6, <1>11 DEF IInv, Objects
<1>13. \A e \in Dev \ QueuedBy(W) : RunOK(e, wdev_handler[e].op, None, NoScript, W[e])
  <2> SUFFICES ASSUME NEW e \in Dev \ QueuedBy(W)
               PROVE  RunOK(e, wdev_handler[e].op, None, NoScript, W[e])
      OBVIOUS
  <2>1. CASE e = d
      BY <1>7, <1>11, <2>1 DEF QueuedBy
  <2>2. CASE e # d
    <3>1. RunOK(e, wdev_handler[e].op, d, script, wdev[e])
        BY DEF IInv, Runs
    <3> QED
        BY <1>11, <2>2, <3>1, NoneAssumption DEF RunOK
  <2> QED
      BY <2>1, <2>2
<1>14. NoScript \in Script
  <2>1. NoConfig \in Config
      BY ConfigAssumption DEF NoConfig
  <2>2. NoHandlerConfig \in HandlerConfig
      BY <2>1, NoDataType DEF NoHandlerConfig, HandlerConfig
  <2> QED
      BY <2>2 DEF NoScript, Script
<1>15. \A e \in QueuedBy(W) : None # e
    BY NoneAssumption DEF QueuedBy
<1>16. /\ wdev' = W /\ Objects' /\ Runs'
       /\ wdev_handler' \in [Dev -> Entry]
       /\ wdev_cur' \in Dev \cup {None}
       /\ script' \in Script
    BY <1>8, <1>11, <1>12, <1>13, <1>14, <1>15, RunHandlerKeeps DEF IInv
<1>17. Removed'
  <2> SUFFICES ASSUME NEW e \in Dev \ devices' PROVE W[e].state = "down"
      BY <1>16 DEF Removed
  <2>1. CASE e = d /\ gone
      BY <1>10, <1>11, <2>1
  <2>2. CASE e # d
      BY <1>9, <1>11, <2>2 DEF IInv, Removed
  <2>3. CASE e = d /\ ~gone
    <3>1. d \notin devices
        BY <1>9, <2>3
    <3>2. w.state = "down"
        BY <1>1, <3>1 DEF IInv, Removed
    <3> QED
        BY <1>2, <3>2 DEF RunOK
  <2> QED
      BY <2>1, <2>2, <2>3
<1> QED
    BY <1>9, <1>11, <1>16, <1>17 DEF IInv, TypeOK

\* A notification that leaves the state alone, or the last one of a script.
LEMMA NotifyKeeps ==
    ASSUME IInv, Notifying, NEW u \in Wdev, Local(u), NEW notified \in BOOLEAN,
           Notify(u, notified),
           \/ /\ ~notified
              /\ u.state = wdev[wdev_cur].state
              /\ u.handler_config = wdev[wdev_cur].handler_config
           \/ notified /\ wdev[wdev_cur].state = "setup" /\ u.state \in {"up", "teardown"}
           \/ notified /\ wdev[wdev_cur].state = "teardown" /\ u = wdev[wdev_cur]
    PROVE  IInv'
<1> DEFINE d == wdev_cur
           s == [script EXCEPT !.notified = notified]
           W == [wdev EXCEPT ![d] = u]
<1>1. d \in Dev /\ d \in devices
    BY DEF Notifying, IInv, TypeOK
<1>2. RunOK(d, wdev_handler[d].op, d, script, wdev[d])
    BY <1>1 DEF IInv, Runs
<1>3. /\ wdev[d].state \in {"setup", "teardown"} /\ wdev_handler[d].op # "setup"
      /\ script.config = wdev[d].handler_config
      /\ wdev_handler[d].op \in {"none", wdev[d].state}
      /\ wdev[d].state = "teardown" => wdev_handler[d].op = "teardown"
    BY <1>2 DEF RunOK, Notifying
<1>4. /\ s \in Script /\ s.op = "setup" /\ s.config = script.config
      /\ s.notified = notified
    BY DEF Script, IInv, TypeOK, Notifying
<1>5. /\ run_handler(d, s, W)
      /\ UNCHANGED <<devices, handler_timer, config_pending, mld_start, netif>>
    BY DEF Notify
<1>6. W \in [Dev -> Wdev] /\ W[d] = u /\ \A e \in Dev \ {d} : W[e] = wdev[e]
    BY <1>1 DEF IInv, TypeOK
<1> HIDE DEF W, s
<1>7. \A e \in Dev : Local(W[e])
    BY <1>6 DEF IInv, Objects
<1>8. \A e \in Dev \ QueuedBy(W) : RunOK(e, wdev_handler[e].op, d, s, W[e])
  <2> SUFFICES ASSUME NEW e \in Dev \ QueuedBy(W)
               PROVE  RunOK(e, wdev_handler[e].op, d, s, W[e])
      OBVIOUS
  <2>1. CASE e = d
    <3>1. u.state = wdev[d].state \/ u.state \notin {"setup", "teardown"}
        BY <1>6, <2>1 DEF QueuedBy
    <3> QED
        BY <1>3, <1>4, <1>6, <2>1, <3>1 DEF RunOK
  <2>2. CASE e # d
    <3>1. RunOK(e, wdev_handler[e].op, d, script, wdev[e])
        BY DEF IInv, Runs
    <3> QED
        BY <1>6, <2>2, <3>1 DEF RunOK
  <2> QED
      BY <2>1, <2>2
<1>9. \A e \in QueuedBy(W) : d = e =>
          s.op = "setup" /\ (~s.notified => W[e].state = "teardown" /\ s.config = W[e].handler_config)
    BY <1>4, <1>6 DEF QueuedBy
<1>10. /\ wdev' = W /\ Objects' /\ Runs'
       /\ wdev_handler' \in [Dev -> Entry]
       /\ wdev_cur' \in Dev \cup {None}
       /\ script' \in Script
    BY <1>1, <1>4, <1>5, <1>6, <1>7, <1>8, <1>9, RunHandlerKeeps DEF IInv
<1>11. Removed'
    BY <1>1, <1>5, <1>6, <1>10 DEF IInv, Removed
<1> QED
    BY <1>5, <1>6, <1>10, <1>11 DEF IInv, TypeOK

\* The UP notification keeps the invariant.
LEMMA NotifyUpKeeps ==
    ASSUME IInv, NotifyUp
    PROVE  IInv'
<1> DEFINE w == wdev[wdev_cur]
<1>1. Notifying /\ Notify(IF w.state = "setup" THEN wdev_mark_up(w) ELSE w, TRUE)
    BY Zenon DEF NotifyUp
<1>2. wdev_cur \in Dev /\ w \in Wdev /\ Local(w) /\ w.state \in {"setup", "teardown"}
    BY <1>1, StayOK DEF Notifying, IInv, TypeOK, Runs, RunOK
<1>3. CASE w.state = "setup"
  <2>1. /\ wdev_mark_up(w) \in Wdev /\ Local(wdev_mark_up(w))
        /\ wdev_mark_up(w).state \in {"up", "teardown"}
      BY <1>2, <1>3, MarkUpType, MarkUpLocal
  <2>2. Notify(wdev_mark_up(w), TRUE)
      BY <1>1, <1>3, Zenon
  <2> QED
      BY <1>1, <1>3, <2>1, <2>2, NotifyKeeps, Zenon
<1>4. CASE w.state = "teardown"
    BY <1>1, <1>2, <1>4, NotifyKeeps, Zenon
<1> QED
    BY <1>2, <1>3, <1>4

\* The notification of the phy keeps the invariant.
LEMMA NotifyPhyKeeps ==
    ASSUME IInv, NotifyPhy
    PROVE  IInv'
<1> DEFINE w == wdev[wdev_cur]
           u == [w EXCEPT !.phy = TRUE, !.touched = TRUE]
<1>1. Notifying /\ Notify(u, FALSE) /\ w \in Wdev /\ Local(w)
    BY StayOK, Zenon DEF NotifyPhy, Notifying, IInv, TypeOK
<1>2. /\ u \in Wdev /\ u.state = w.state /\ u.handler_config = w.handler_config /\ u.phy
      /\ u.autostart = w.autostart /\ u.delete = w.delete
      /\ u.retry_setup_failed = w.retry_setup_failed
      /\ u.fails = w.fails /\ u.retry = w.retry
      /\ u.links = w.links /\ u.orphans = w.orphans /\ u.handler_data = w.handler_data
      /\ u.config_change = w.config_change
      /\ Prepared(w) => Prepared(u)
    BY <1>1, Zenon DEF Wdev, Prepared, Interfaces
<1>3. Local(u)
    BY <1>1, <1>2 DEF Local, Netdevs
<1> QED
    BY <1>1, <1>2, <1>3, NotifyKeeps, Zenon

\* The notification of a process keeps the invariant.
LEMMA ProcAddKeeps ==
    ASSUME IInv, wdev_proc_add
    PROVE  IInv'
<1> DEFINE w == wdev[wdev_cur]
           u == [w EXCEPT !.procs = IF @ = "none" THEN "alive" ELSE @]
<1>1. Notifying /\ Notify(u, FALSE) /\ w \in Wdev /\ Local(w)
    BY StayOK, Zenon DEF wdev_proc_add, Notifying, IInv, TypeOK
<1>2. /\ u \in Wdev /\ Same(w, u)
      /\ u.autostart = w.autostart /\ u.delete = w.delete /\ u.config_change = w.config_change
      /\ Prepared(w) => Prepared(u)
    BY <1>1 DEF Wdev, Same, Prepared, Interfaces
<1> HIDE DEF u
<1>3. (u.state = "up" => u.autostart /\ ~u.delete) /\ (~u.config_change => Prepared(u))
    BY <1>1, <1>2 DEF Local, Same
<1>4. Local(u)
    BY <1>1, <1>2, <1>3, SameLocal
<1> QED
    BY <1>1, <1>2, <1>4, NotifyKeeps, Zenon DEF Same

\* The notification of a failed setup keeps the invariant.
LEMMA NotifyRetryKeeps ==
    ASSUME IInv, NotifyRetry
    PROVE  IInv'
<1> DEFINE w == wdev[wdev_cur]
           u == [w EXCEPT !.retry = 0]
<1>1. Notifying /\ Notify(u, FALSE) /\ w \in Wdev /\ Local(w)
    BY StayOK, Zenon DEF NotifyRetry, Notifying, IInv, TypeOK
<1>2. 0 \in 0..DEFAULT_RETRY
    BY RetryAssumption
<1>3. /\ u \in Wdev /\ u.state = w.state /\ u.handler_config = w.handler_config
      /\ u.autostart = w.autostart /\ u.delete = w.delete
      /\ u.retry_setup_failed = w.retry_setup_failed
      /\ u.fails = w.fails /\ u.retry = 0
      /\ u.touched = w.touched /\ u.phy = w.phy
      /\ u.links = w.links /\ u.orphans = w.orphans /\ u.handler_data = w.handler_data
      /\ u.config_change = w.config_change
      /\ Prepared(w) => Prepared(u)
    BY <1>1, <1>2 DEF Wdev, Prepared, Interfaces
<1>4. w.fails + w.retry <= DEFAULT_RETRY => u.fails + u.retry <= DEFAULT_RETRY
  <2>1. w.fails \in Nat /\ w.retry \in Nat
      BY <1>1 DEF Wdev
  <2> QED
      BY <1>3, <2>1, RetryAssumption
<1>5. Local(u)
    BY <1>1, <1>3, <1>4 DEF Local, Netdevs
<1> QED
    BY <1>1, <1>3, <1>5, NotifyKeeps, Zenon

\* Interface data of the script keeps the invariant: the position it names is
\* resolved in the configuration the script was started with.
LEMMA SetDataKeeps ==
    ASSUME IInv, NEW idx, NEW ok \in BOOLEAN, wdev_set_data(idx, ok)
    PROVE  IInv'
<1> DEFINE w == wdev[wdev_cur]
           key == VifAt(w.handler_config.interfaces, idx)
           u == [w EXCEPT !.handler_data[key] = IF ok THEN key ELSE 0,
                          !.orphans = @ \cup (w.links \cap {w.handler_data[key]})]
<1>1. Notifying /\ w \in Wdev /\ Local(w)
    BY StayOK DEF wdev_set_data, Notifying, IInv, TypeOK
<1>2. script.config = w.handler_config
    BY <1>1 DEF Notifying, IInv, TypeOK, Runs, RunOK
<1>3. Notify(u, FALSE)
    BY <1>2, Zenon DEF wdev_set_data
<1> HIDE DEF key
<1>4. /\ u.state = w.state /\ u.handler_config = w.handler_config
      /\ u.autostart = w.autostart /\ u.delete = w.delete
      /\ u.retry_setup_failed = w.retry_setup_failed
      /\ u.fails = w.fails /\ u.retry = w.retry
      /\ u.touched = w.touched /\ u.phy = w.phy
      /\ u.links = w.links
      /\ u.config_change = w.config_change
      /\ u.orphans = w.orphans \cup (w.links \cap {w.handler_data[key]})
      /\ u.handler_data = [w.handler_data EXCEPT ![key] = IF ok THEN key ELSE 0]
      /\ Prepared(w) => Prepared(u)
    BY <1>1 DEF Wdev, Prepared, Interfaces
<1>5. u.handler_data \in [Vif -> Vif \cup {0}] /\ u.orphans \in SUBSET Vif
    BY <1>1, <1>4, ZenonT(30) DEF Wdev
<1>6. u \in Wdev
    BY <1>1, <1>5, Zenon DEF Wdev
<1> HIDE DEF u
<1>7. w.handler_data \in [Vif -> Vif \cup {0}]
    BY <1>1 DEF Wdev
<1>8. \A v \in Vif : u.handler_data[v] \in {0, v}
    BY <1>1, <1>4, <1>7 DEF Local
<1>9. u.links \subseteq u.orphans \cup Netdevs(u)
  <2> SUFFICES ASSUME NEW l \in w.links, l \notin w.orphans, l # w.handler_data[key]
               PROVE  l \in Netdevs(u)
      BY <1>4
  <2>1. PICK v \in Vif : w.handler_data[v] = l /\ l # 0
      BY <1>1 DEF Local, Netdevs
  <2>2. u.handler_data[v] = l
      BY <1>4, <1>7, <2>1
  <2> QED
      BY <2>1, <2>2 DEF Netdevs
<1>10. u.state # "down"
    BY <1>1, <1>4 DEF Notifying, IInv, TypeOK, Runs, RunOK
<1>11. Local(u)
    BY <1>1, <1>4, <1>8, <1>9, <1>10 DEF Local
<1> QED
    BY <1>1, <1>3, <1>4, <1>6, <1>11, NotifyKeeps, Zenon

\* The steps of the world around the devices.
LEMMA WorldKeeps ==
    ASSUME IInv,
           \/ \E v \in Vif, n \in [enabled: BOOLEAN, ifindex: Ifindex] : NetifChange(v, n)
           \/ \E v \in Vif, add \in BOOLEAN : hotplug(v, add)
           \/ \E d \in Dev : ProcDies(d)
    PROVE  IInv'
<1>1. ASSUME NEW v \in Vif, NEW n \in [enabled: BOOLEAN, ifindex: Ifindex], NetifChange(v, n)
      PROVE  IInv'
  <2>1. netif' \in Netif
      BY <1>1 DEF NetifChange, Netif, IInv, TypeOK
  <2> QED
      BY <1>1, <2>1, Zenon DEF NetifChange, IInv, TypeOK, Objects, Runs, Removed
<1>2. ASSUME \A d \in Dev : /\ wdev'[d] \in Wdev /\ Local(wdev'[d])
                            /\ wdev'[d].state = wdev[d].state /\ Frame(wdev[d], wdev'[d]),
             wdev' \in [Dev -> Wdev],
             UNCHANGED <<devices, wdev_handler, wdev_cur, script, handler_timer,
                         config_pending, mld_start, netif>>
      PROVE  IInv'
    BY <1>2 DEF IInv, TypeOK, Objects, Runs, RunOK, Removed, Frame
<1>3. ASSUME NEW v \in Vif, NEW add \in BOOLEAN, hotplug(v, add)
      PROVE  IInv'
  <2> DEFINE linked(w) == [w EXCEPT !.links = IF add THEN @ \cup {v} ELSE @ \ {v}]
  <2>1. ASSUME NEW w \in Wdev, Local(w), v \in Netdevs(w)
        PROVE  /\ linked(w) \in Wdev /\ Local(linked(w))
               /\ linked(w).state = w.state /\ Frame(w, linked(w))
      BY <2>1 DEF Wdev, Local, Prepared, Interfaces, Netdevs, Frame
  <2>2. wdev' = [d \in Dev |->
                  IF d \in devices /\ wdev[d].autostart /\ v \in Netdevs(wdev[d])
                  THEN linked(wdev[d]) ELSE wdev[d]]
      BY <1>3 DEF hotplug
  <2>3. \A d \in Dev : wdev[d] \in Wdev /\ Local(wdev[d]) /\ Frame(wdev[d], wdev[d])
      BY StayOK DEF Starts
  <2> HIDE DEF linked
  <2>4. \A d \in Dev : /\ wdev'[d] \in Wdev /\ Local(wdev'[d])
                       /\ wdev'[d].state = wdev[d].state /\ Frame(wdev[d], wdev'[d])
      BY <2>1, <2>2, <2>3
  <2>5. wdev' \in [Dev -> Wdev]
      BY <2>2, <2>4
  <2> QED
      BY <1>2, <1>3, <2>4, <2>5 DEF hotplug
<1>4. ASSUME NEW p \in Dev, ProcDies(p)
      PROVE  IInv'
  <2> DEFINE w == wdev[p]
             u == [w EXCEPT !.procs = "dead"]
  <2>1. w \in Wdev /\ Local(w)
      BY StayOK
  <2>2. /\ u \in Wdev /\ Same(w, u)
        /\ u.autostart = w.autostart /\ u.delete = w.delete /\ u.config_change = w.config_change
        /\ Prepared(w) => Prepared(u)
      BY <2>1 DEF Wdev, Same, Prepared, Interfaces
  <2>3. wdev' = [wdev EXCEPT ![p] = u]
      BY <1>4 DEF ProcDies, IInv, TypeOK
  <2> HIDE DEF u
  <2>4. (u.state = "up" => u.autostart /\ ~u.delete) /\ (~u.config_change => Prepared(u))
      BY <2>1, <2>2 DEF Local, Same
  <2>5. Local(u) /\ Frame(w, u) /\ u.state = w.state
      BY <2>1, <2>2, <2>4, SameLocal DEF Same
  <2>6. \A d \in Dev : /\ wdev'[d] \in Wdev /\ Local(wdev'[d])
                       /\ wdev'[d].state = wdev[d].state /\ Frame(wdev[d], wdev'[d])
      BY StayOK, <2>2, <2>3, <2>5 DEF Starts, IInv, TypeOK
  <2>7. wdev' \in [Dev -> Wdev]
      BY <2>2, <2>3 DEF IInv, TypeOK
  <2> QED
      BY <1>2, <1>4, <2>6, <2>7 DEF ProcDies
<1> QED
    BY <1>1, <1>3, <1>4

\* The invariant holds when netifd has just started.
LEMMA InitHolds == Init => IInv
<1> SUFFICES ASSUME Init PROVE IInv
    OBVIOUS
<1>1. netif \in Netif
    BY IfindexAssumption DEF Init, Netif
<1>2. NoWdev \in Wdev /\ Local(NoWdev) /\ NoWdev.state = "down"
    BY <1>1, NoWdevType, NewLocal, ConfigAssumption
<1>3. NoScript \in Script /\ NoEntry \in Entry
  <2>1. NoConfig \in Config
      BY ConfigAssumption DEF NoConfig
  <2>2. NoHandlerConfig \in HandlerConfig
      BY <2>1, NoDataType DEF NoHandlerConfig, HandlerConfig
  <2> QED
      BY <2>2 DEF NoScript, Script, NoEntry, Entry
<1>4. Runs
  <2>1. \A d \in Dev : wdev_handler[d].op = "none" /\ wdev[d].state = "down" /\ d # wdev_cur
      BY <1>2, NoneAssumption DEF Init, NoEntry
  <2> QED
      BY <2>1 DEF Runs, RunOK
<1> QED
    BY <1>1, <1>2, <1>3, <1>4, Zenon DEF Init, IInv, TypeOK, Objects, Removed

\* Every step keeps the invariant.
LEMMA NextKeeps == IInv /\ [Next]_vars => IInv'
<1> SUFFICES ASSUME IInv, [Next]_vars PROVE IInv'
    OBVIOUS
<1>1. CASE HandlerStep
    BY <1>1, HandlerTimerKeeps, RunHandlerCbKeeps, ProcCheckKeeps DEF HandlerStep
<1>2. CASE ScriptStep
    BY <1>2, NotifyUpKeeps, NotifyPhyKeeps, SetDataKeeps, ProcAddKeeps, NotifyRetryKeeps
       DEF ScriptStep
<1>3. CASE config_start
    BY <1>3, ConfigStartKeeps
<1>4. CASE RequestStep
  <2>1. CASE \E S \in SUBSET Dev : \E data \in [S -> Config] : config_init(S, data)
      BY <2>1, ConfigInitKeeps
  <2>2. CASE check_interfaces \/ up \/ down \/ retry \/ reconf
      BY <2>2, CheckInterfacesKeeps, UpKeeps, DownKeeps, RetryKeeps, ReconfKeeps
  <2> QED
      BY <1>4, <2>1, <2>2, WorldKeeps DEF RequestStep
<1>5. CASE UNCHANGED vars
    BY <1>5 DEF vars, IInv, TypeOK, Objects, Runs, Removed
<1> QED
    BY <1>1, <1>2, <1>3, <1>4, <1>5 DEF Next

(***************************************************************************)
(* The theorems.                                                           *)
(***************************************************************************)

\* The invariant is inductive: it holds initially, and every callback, script
\* notification and request of wireless.uc and wireless-device.uc keeps it.
THEOREM Invariant == Spec => []IInv
BY InitHolds, NextKeeps, PTL DEF Spec

\* Every variable keeps its type; in particular no notification of a script
\* files data under anything but an interface section of the device.
THEOREM TypeCorrect == Spec => []TypeOK
<1>1. IInv => TypeOK
    BY DEF IInv
<1> QED
    BY <1>1, Invariant, PTL

\* However requests, timers and scripts interleave, a device in state "setup"
\* or "teardown" has the run it waits for in the queue of __run_next_handler
\* or running: no device gets stuck.
THEOREM NeverStuck == Spec => []PendingHasRun
<1>1. IInv => PendingHasRun
    BY DEF IInv, Runs, RunOK, PendingHasRun
<1> QED
    BY <1>1, Invariant, PTL

\* delete_wdev never removes a device that the queue or the running script
\* still refers to.
THEOREM RunsOfLiveDevices == Spec => []RunHasDevice
<1>1. IInv => RunHasDevice
    BY DEF IInv, TypeOK, Entry, Runs, RunOK, Removed, RunHasDevice
<1> QED
    BY <1>1, Invariant, PTL

\* No late notification brings up a device after stop() or destroy().
THEOREM UpOnlyIfWanted == Spec => []UpIsWanted
<1>1. IInv => UpIsWanted
    BY DEF IInv, TypeOK, Objects, Local, UpIsWanted
<1> QED
    BY <1>1, Invariant, PTL

\* A change of the configuration during a handler run is never lost: unless
\* config_change records it, what is prepared and what the script was started
\* with is the latest data.
THEOREM ConfigKept == Spec => []NoConfigLost
<1>1. IInv => NoConfigLost
    BY DEF IInv, TypeOK, Objects, Local, Prepared, Runs, RunOK, NoConfigLost
<1> QED
    BY <1>1, Invariant, PTL

\* wdev_set_data files what the script says of an interface under that
\* interface, although the script names it by position.
THEOREM DataFiled == Spec => []DataFiledRight
<1>1. IInv => DataFiledRight
    BY DEF IInv, TypeOK, Objects, Local, DataFiledRight
<1> QED
    BY <1>1, Invariant, PTL

\* A teardown script is told the phy of a radio some setup script has touched.
THEOREM PhyKnown == Spec => []TeardownKnowsPhy
<1>1. IInv => TeardownKnowsPhy
    BY DEF IInv, TypeOK, Runs, RunOK, TeardownKnowsPhy
<1> QED
    BY <1>1, Invariant, PTL

\* A device that is down has no link up that handler_data still named when
\* the teardown callback took the links down.
THEOREM LinksDownWhenDown == Spec => []LinksTakenDown
<1>1. IInv => LinksTakenDown
    BY DEF IInv, TypeOK, Objects, Local, Netdevs, NoData, LinksTakenDown
<1> QED
    BY <1>1, Invariant, PTL

\* The retry count bounds how often in a row a setup script can fail, for
\* every DEFAULT_RETRY.
THEOREM RetriesBounded == Spec => []GivesUp
<1>1. ASSUME IInv, NEW d \in Dev
      PROVE  /\ wdev[d].fails <= DEFAULT_RETRY + 1
             /\ wdev[d].fails = DEFAULT_RETRY + 1 => wdev[d].state \in {"teardown", "down"}
  <2>1. wdev[d].fails \in Nat /\ wdev[d].retry \in Nat
      BY <1>1 DEF IInv, TypeOK, Wdev
  <2>2. Local(wdev[d])
      BY <1>1 DEF IInv, Objects
  <2> QED
      BY <2>1, <2>2, RetryAssumption DEF Local
<1>2. IInv => GivesUp
    BY <1>1 DEF GivesUp
<1> QED
    BY <1>2, Invariant, PTL

\* A call that queues a run leaves the queue busy.
LEMMA QueuedIsBusy ==
    ASSUME NEW W, NEW cur, NEW s, cur \in Dev \cup {None},
           run_handler(cur, s, W), QueuedBy(W) # {}
    PROVE  ~Idle'
<1>1. CASE cur # None
    BY <1>1 DEF run_handler, Idle
<1>2. CASE cur = None
  <2>1. PICK later \in BOOLEAN : __run_next_handler(Enqueue(wdev_handler, W, later), W)
      BY <1>2 DEF run_handler
  <2>2. wdev_cur' \in Dev
      BY <2>1 DEF __run_next_handler, __run_next_handler_name, Queued
  <2> QED
      BY <2>2, NoneAssumption DEF Idle
<1> QED
    BY <1>1, <1>2

\* A call that leaves mld_start as it is when nothing is queued.
LEMMA CallMld ==
    ASSUME TypeOK, MldStarted, NEW W, Call(W),
           UNCHANGED <<devices, handler_timer, config_pending>>
    PROVE  MldStarted'
<1>1. CASE QueuedBy(W) = {}
  <2>1. UNCHANGED <<wdev_cur, wdev_handler>>
      BY <1>1 DEF Call, run_handler
  <2>2. mld_start' = mld_start
      BY <1>1 DEF Call, RoundStarts, TypeOK
  <2> QED
      BY <2>1, <2>2 DEF MldStarted, Idle
<1>2. CASE QueuedBy(W) # {}
  <2>1. run_handler(wdev_cur, script, W) /\ wdev_cur \in Dev \cup {None}
      BY DEF Call, TypeOK
  <2>2. ~Idle'
      BY <1>2, <2>1, QueuedIsBusy
  <2> QED
      BY <2>2 DEF MldStarted
<1> QED
    BY <1>1, <1>2

\* Every step that lets the queue run dry sends mld_start or arms the timer.
LEMMA MldKeeps == TypeOK /\ MldStarted /\ [Next]_vars => MldStarted'
<1> SUFFICES ASSUME TypeOK, MldStarted, [Next]_vars PROVE MldStarted'
    OBVIOUS
<1>1. CASE HandlerTimer
  <2>1. CASE wdev_cur = None /\ Queued(wdev_handler) # {}
    <3>1. __run_next_handler(wdev_handler, wdev)
        BY <1>1, <2>1 DEF HandlerTimer, run_next_handler
    <3>2. wdev_cur' \in Dev
        BY <3>1 DEF __run_next_handler, __run_next_handler_name, Queued
    <3> QED
        BY <3>2, NoneAssumption DEF MldStarted, Idle
  <2>2. CASE wdev_cur # None
      BY <1>1, <2>2 DEF HandlerTimer, run_next_handler, MldStarted, Idle
  <2>3. CASE wdev_cur = None /\ Queued(wdev_handler) = {}
      BY <1>1, <2>3 DEF HandlerTimer, run_next_handler, MldStarted
  <2> QED
      BY <2>1, <2>2, <2>3
<1>2. CASE run_handler_cb
    BY <1>2 DEF run_handler_cb, MldStarted
<1>3. CASE \E d \in Dev : wdev_proc_check(d)
    BY <1>3, CallMld DEF wdev_proc_check
<1>4. CASE ScriptStep
  <2>1. ASSUME NEW u, NEW n, Notifying, Notify(u, n) PROVE MldStarted'
    <3>1. wdev_cur \in Dev
        BY <2>1 DEF Notifying, TypeOK
    <3>2. run_handler(wdev_cur, [script EXCEPT !.notified = n], [wdev EXCEPT ![wdev_cur] = u])
        BY <2>1 DEF Notify
    <3>3. wdev_cur' = wdev_cur
        BY <3>1, <3>2, NoneAssumption DEF run_handler
    <3> QED
        BY <3>1, <3>3, NoneAssumption DEF MldStarted, Idle
  <2> QED
      BY <1>4, <2>1, Zenon DEF ScriptStep, NotifyUp, NotifyPhy, wdev_set_data, wdev_proc_add, NotifyRetry
<1>5. CASE config_start
  <2>1. CASE QueuedBy(StartAll) = {}
    <3>1. UNCHANGED <<wdev_cur, wdev_handler>> /\ mld_start' = (mld_start \/ Idle)
        BY <1>5, <2>1 DEF config_start, run_handler
    <3> QED
        BY <3>1, Zenon DEF MldStarted, Idle
  <2>2. CASE QueuedBy(StartAll) # {}
    <3>1. run_handler(wdev_cur, script, StartAll) /\ wdev_cur \in Dev \cup {None}
        BY <1>5 DEF config_start, TypeOK
    <3>2. ~Idle'
        BY <2>2, <3>1, QueuedIsBusy
    <3> QED
        BY <3>2 DEF MldStarted
  <2> QED
      BY <2>1, <2>2
<1>6. CASE \E S \in SUBSET Dev : \E data \in [S -> Config] : config_init(S, data)
    BY <1>6 DEF config_init, MldStarted
<1>7. CASE check_interfaces
    BY <1>7, CallMld DEF check_interfaces
<1>8. CASE up \/ down \/ retry \/ reconf
    BY <1>8, CallMld, Zenon DEF up, down, retry, reconf, wdev_call
<1>9. CASE \/ \E v \in Vif, n \in [enabled: BOOLEAN, ifindex: Ifindex] : NetifChange(v, n)
           \/ \E v \in Vif, add \in BOOLEAN : hotplug(v, add)
           \/ \E d \in Dev : ProcDies(d)
           \/ UNCHANGED vars
    BY <1>9 DEF NetifChange, hotplug, ProcDies, vars, MldStarted, Idle
<1> QED
    BY <1>1, <1>2, <1>3, <1>4, <1>5, <1>6, <1>7, <1>8, <1>9 DEF Next, HandlerStep, RequestStep

\* Once the queue has run dry and its timer is off, mld_start has followed the
\* last mld_set: no path through run_next_handler and config_start skips it.
THEOREM MldAlwaysStarted == Spec => []MldStarted
<1>1. Init => MldStarted
    BY DEF Init, MldStarted
<1> QED
    BY <1>1, MldKeeps, TypeCorrect, PTL DEF Spec
=============================================================================
