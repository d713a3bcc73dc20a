------------------------------- MODULE Ag71xx -------------------------------
(***************************************************************************)
(* The Ethernet driver of the Atheros AR71xx family: the two descriptor    *)
(* rings shared with the DMA engines, the transmit function, the NAPI      *)
(* poll, the interrupt, and the process-context jobs (open, stop, the      *)
(* restart of a hung engine, link changes).                                *)
(*                                                                         *)
(* These chips have one CPU.  The transmit function and the poll are       *)
(* softirqs and exclude each other; process context runs only when neither *)
(* is active, and what holds ag->lock (interrupts off) is one step.  The   *)
(* engines and the interrupt run between any two steps.  A loop over       *)
(* descriptors is one step where the engine can only add to what the loop  *)
(* finds: its steps during the loop could as well come before or after it. *)
(***************************************************************************)
EXTENDS Integers, Sequences, FiniteSets

CONSTANTS
    RxSize,    \* descriptors of the receive ring, a power of two
    Wrap,      \* where curr and dirty wrap: a multiple of the sizes of the rings (2^32)
    DsPerPkt,  \* AG71XX_TX_RING_DS_PER_PKT
    Weight,    \* AG71XX_NAPI_WEIGHT
    Envs,      \* chips and what happens to them, see Env
    None       \* no packet, no frame; the stop descriptor

ASSUME SizesAssumption == RxSize \in Nat \ {0} /\ Weight \in Nat
ASSUME WrapAssumption == Wrap \in Nat /\ Wrap > RxSize /\ Wrap % RxSize = 0

VARIABLES
    env,   \* the chip and its surroundings, chosen once
    left,  \* what may still happen: link changes, hangs, failing allocations, closes
    tx,    \* tx_ring: curr, dirty, the descriptors, buf[].skb
    rx,    \* rx_ring: curr, dirty, which descriptors are empty, which have a buffer
    hw,    \* registers and state of the engines
    napi,  \* the state of ag->napi
    poll,  \* where ag71xx_poll is
    xmit,  \* where ag71xx_hard_start_xmit is
    dev,   \* the net_device and ag->link, and whether the rings are allocated
    job,   \* the job of process context that holds the rtnl lock
    timer, \* oom_timer, restart_work
    wire,  \* the last frame sent
    bug    \* BUG() or a null pointer

vars == <<env, left, tx, rx, hw, napi, poll, xmit, dev, job, timer, wire, bug>>

-----------------------------------------------------------------------------
(* State *)

\* The size of the transmit ring, desc_split (0: none), whether a link change
\* resets the MAC and whether a hang is looked for; lengths of packets, frames
\* received; the limits of left; undisturbed: nothing is sent and no link
\* changes in the middle of a restart.
Env == [tx_size: Nat, split: Nat, fast_reset: BOOLEAN, tx_hang_workaround: BOOLEAN, lens: SUBSET Nat,
        frames: BOOLEAN, links: Nat, hangs: Nat, ooms: Nat, closes: Nat, undisturbed: BOOLEAN]
Left == [links: Nat, hangs: Nat, ooms: Nat, closes: Nat]

ASSUME EnvsAssumption == Envs \subseteq Env /\ \A e \in Envs : e.split = 0 \/ e.split > 8
ASSUME TxSizesAssumption == \A e \in Envs : e.tx_size > 0 /\ e.tx_size < Wrap /\ Wrap % e.tx_size = 0
\* DsPerPkt descriptors hold the longest packet, and a ring is never smaller.
ASSUME PacketsAssumption ==
    /\ DsPerPkt \in Nat \ {0}
    /\ \A e \in Envs : e.split > 0 => DsPerPkt <= e.tx_size /\ \A len \in e.lens : len <= DsPerPkt * e.split

TxSize == env.tx_size
TxIndex == 0 .. TxSize - 1
RxIndex == 0 .. RxSize - 1
Counter == 0 .. Wrap - 1
Lengths == UNION {e.lens : e \in Envs}
\* A packet goes by the descriptor it starts at.
Packet == [id: UNION {0 .. e.tx_size - 1 : e \in Envs}, len: Lengths]
Segment == [pkt: Packet, len: Nat, more: BOOLEAN]

ASSUME NoneAssumption == None \notin Nat /\ None \notin Packet /\ None \notin [pkt: Packet, got: Nat]

\* What a descriptor holds is read only while it is not empty.
Desc == [empty: BOOLEAN, seg: Segment \cup {None}]
Free == [empty |-> TRUE, seg |-> None]

\* frame: the packet on the wire and its bytes so far.
Hw == [int: BOOLEAN, txe: BOOLEAN, rxe: BOOLEAN, txp: TxIndex \cup {None}, rxp: RxIndex \cup {None},
       ps: Nat, pr: Nat, of: BOOLEAN, hung: BOOLEAN, frame: [pkt: Packet, got: Nat] \cup {None}]

EmptyTx == [curr |-> 0, dirty |-> 0, desc |-> [i \in TxIndex |-> Free], skb |-> [i \in TxIndex |-> None]]
EmptyRx == [curr |-> 0, dirty |-> 0, empty |-> [i \in RxIndex |-> TRUE], buf |-> [i \in RxIndex |-> TRUE]]
NoRx == [curr |-> 0, dirty |-> 0, empty |-> [i \in RxIndex |-> FALSE], buf |-> [i \in RxIndex |-> FALSE]]
NoXmit == [pc |-> "idle", pkt |-> None, len |-> 0, n |-> 0]
NoPoll == [pc |-> "idle", full |-> FALSE]
NoJob == [kind |-> "none", pc |-> "none"]

Used(ring) == (ring.curr - ring.dirty) % Wrap
TxAt(k) == (tx.dirty + k) % TxSize
RxAt(k) == (rx.dirty + k) % RxSize

SoftirqIdle == xmit.pc = "idle" /\ poll.pc = "idle"
Running == ~bug

-----------------------------------------------------------------------------
(* The kernel: NAPI *)

\* A request while the poll is scheduled is remembered; none is accepted while
\* napi_disable waits or after it.
napi_schedule ==
    CASE napi = "idle" /\ job.pc # "disable" -> "sched"
      [] napi = "sched" /\ job.pc # "disable" -> "missed"
      [] OTHER -> napi

napi_complete == IF napi = "missed" THEN "sched" ELSE "idle"

-----------------------------------------------------------------------------
(* Registers *)

hw_stop(h) == [h EXCEPT !.int = FALSE, !.rxe = FALSE, !.txe = FALSE]

dma_reset(h) ==
    [h EXCEPT !.rxe = FALSE, !.txe = FALSE, !.txp = None, !.rxp = None,
              !.pr = 0, !.ps = 0, !.of = FALSE, !.hung = FALSE, !.frame = None]

\* ... and netif_wake_queue.
hw_start(h) == [h EXCEPT !.rxe = TRUE, !.int = TRUE]

\* n acknowledgements of a counter.
Acked(count, n) == IF n < count THEN count - n ELSE 0

-----------------------------------------------------------------------------
(* Transmission *)

ring_min == IF env.split = 0 THEN 2 ELSE 2 * DsPerPkt

\* Mutant: the queue stops when there is no descriptor left.
TxFull_Late == Used(tx) >= TxSize - 1

\* The comparison is unsigned: a ring smaller than ring_min never counts as full.
TxFull == Used(tx) >= (TxSize - ring_min) % Wrap

\* Descriptors from dirty on that the engine is done with, and how many of
\* them tx_packets releases: it moves dirty behind the last one of a packet.
Finished == {k \in 0 .. Used(tx) : \A j \in 0 .. k - 1 : tx.desc[TxAt(j)].empty}
Released(ks) == CHOOSE m \in {0} \cup {k \in ks : k > 0 /\ tx.skb[TxAt(k - 1)] # None} :
                   \A k \in ks : k > m => tx.skb[TxAt(k - 1)] = None

\* The ring without its first m descriptors.
Reaped(m) ==
    [tx EXCEPT !.dirty = (@ + m) % Wrap,
               !.skb = [i \in TxIndex |-> IF \E k \in 0 .. m - 1 : TxAt(k) = i THEN None ELSE @[i]],
               !.desc = [i \in TxIndex |-> IF \E k \in 0 .. m - 1 : TxAt(k) = i THEN Free ELSE @[i]]]

\* Mutant: the queue is woken only when the ring is almost full.
Woken_Late(m) == IF m > 0 /\ Used(tx) - m >= (TxSize * 3) \div 4 THEN "awake" ELSE dev.queue

\* The queue after m descriptors were released.
Woken(m) == IF m > 0 /\ Used(tx) - m < (TxSize * 3) \div 4 THEN "awake" ELSE dev.queue

\* Mutant: the rest of a packet counts as a full segment.
cur_len_Full(split, len) ==
    IF split = 0 THEN len ELSE IF len <= split + 4 /\ len > split THEN split - 4 ELSE split

\* Mutant: the rest may be of any length.
cur_len_Short(split, len) == IF split = 0 \/ len <= split THEN len ELSE split

\* How much of the packet goes into the next descriptor.
cur_len(split, len) ==
    IF split = 0 \/ len <= split THEN len
    ELSE IF len <= split + 4 THEN split - 4 ELSE split

\* The stack hands a packet over; one of at most 4 bytes is dropped.
hard_start_xmit(len) ==
    /\ Running /\ SoftirqIdle
    /\ dev.active /\ dev.queue = "awake"
    /\ len \in env.lens /\ len > 4
    /\ env.undisturbed => job.pc # "reset"
    /\ IF dev.alloc
       THEN /\ xmit' = [pc |-> "fill", pkt |-> [id |-> tx.curr % TxSize, len |-> len], len |-> len, n |-> 0]
            /\ UNCHANGED bug
       ELSE bug' = TRUE /\ UNCHANGED xmit
    /\ UNCHANGED <<env, left, tx, rx, hw, napi, poll, dev, job, timer, wire>>

\* Mutant: the first descriptor is given to the engine before the others.
fill_dma_desc_Early ==
    /\ Running /\ xmit.pc = "fill"
    /\ LET i == (tx.curr + xmit.n) % TxSize
           l == cur_len(env.split, xmit.len)
           seg == [pkt |-> xmit.pkt, len |-> l, more |-> l < xmit.len]
       IN  IF tx.desc[i].empty
           THEN /\ tx' = [tx EXCEPT !.desc[i] = [empty |-> FALSE, seg |-> seg]]
                /\ xmit' = [xmit EXCEPT !.len = @ - l, !.n = @ + 1, !.pc = IF seg.more THEN "fill" ELSE "inject"]
           ELSE xmit' = NoXmit /\ UNCHANGED tx
    /\ UNCHANGED <<env, left, rx, hw, napi, poll, dev, job, timer, wire, bug>>

\* One descriptor; the first one stays empty until the others are filled.
\* Without room the packet is dropped.
fill_dma_desc ==
    /\ Running /\ xmit.pc = "fill"
    /\ LET i == (tx.curr + xmit.n) % TxSize
           l == cur_len(env.split, xmit.len)
           seg == [pkt |-> xmit.pkt, len |-> l, more |-> l < xmit.len]
       IN  IF tx.desc[i].empty
           THEN /\ tx' = [tx EXCEPT !.desc[i] = [empty |-> xmit.n = 0, seg |-> seg]]
                /\ xmit' = [xmit EXCEPT !.len = @ - l, !.n = @ + 1, !.pc = IF seg.more THEN "fill" ELSE "inject"]
           ELSE xmit' = NoXmit /\ UNCHANGED tx
    /\ UNCHANGED <<env, left, rx, hw, napi, poll, dev, job, timer, wire, bug>>

\* The packet is complete: its first descriptor goes to the engine.
Inject ==
    /\ Running /\ xmit.pc = "inject"
    /\ tx' = [tx EXCEPT !.skb[(tx.curr + xmit.n - 1) % TxSize] = xmit.pkt,
                        !.desc[tx.curr % TxSize].empty = FALSE,
                        !.curr = (@ + xmit.n) % Wrap]
    /\ xmit' = [xmit EXCEPT !.pc = "kick"]
    /\ UNCHANGED <<env, left, rx, hw, napi, poll, dev, job, timer, wire, bug>>

\* The queue stops when the next packet might not fit; the engine is started.
Kick ==
    /\ Running /\ xmit.pc = "kick"
    /\ dev' = [dev EXCEPT !.queue = IF TxFull THEN "stopped" ELSE @]
    /\ hw' = [hw EXCEPT !.txe = TRUE]
    /\ xmit' = NoXmit
    /\ UNCHANGED <<env, left, tx, rx, napi, poll, job, timer, wire, bug>>

-----------------------------------------------------------------------------
(* The engines *)

\* A descriptor is sent, or there is none and the engine stops; a frame ends
\* with its last segment, or for want of the next one.
HwTx ==
    /\ Running /\ hw.txe /\ ~hw.hung /\ hw.txp # None
    /\ LET d == tx.desc[hw.txp]
           got == IF hw.frame = None THEN [pkt |-> d.seg.pkt, got |-> d.seg.len]
                                     ELSE [hw.frame EXCEPT !.got = @ + d.seg.len]
       IN  IF d.empty
           THEN /\ hw' = [hw EXCEPT !.txe = FALSE, !.frame = None]
                /\ wire' = IF hw.frame = None THEN wire ELSE hw.frame
                /\ UNCHANGED tx
           ELSE /\ tx' = [tx EXCEPT !.desc[hw.txp] = Free]
                /\ hw' = [hw EXCEPT !.txp = (@ + 1) % TxSize, !.ps = @ + 1,
                                    !.frame = IF d.seg.more THEN got ELSE None]
                /\ wire' = IF d.seg.more THEN wire ELSE got
    /\ UNCHANGED <<env, left, rx, napi, poll, xmit, dev, job, timer, bug>>

\* A frame arrives: it is stored, or the engine stops with an overflow.
HwRx ==
    /\ Running /\ hw.rxe /\ env.frames
    /\ IF hw.rxp # None /\ rx.empty[hw.rxp]
       THEN /\ rx' = [rx EXCEPT !.empty[hw.rxp] = FALSE]
            /\ hw' = [hw EXCEPT !.rxp = (@ + 1) % RxSize, !.pr = @ + 1]
       ELSE hw' = [hw EXCEPT !.rxe = FALSE, !.of = TRUE] /\ UNCHANGED rx
    /\ UNCHANGED <<env, left, tx, napi, poll, xmit, dev, job, timer, wire, bug>>

Hang ==
    /\ Running /\ hw.txe /\ ~hw.hung /\ left.hangs > 0
    /\ hw' = [hw EXCEPT !.hung = TRUE]
    /\ left' = [left EXCEPT !.hangs = @ - 1]
    /\ UNCHANGED <<env, tx, rx, napi, poll, xmit, dev, job, timer, wire, bug>>

\* Mutant: a received packet raises no interrupt.
interrupt_NoRx ==
    /\ Running /\ hw.int /\ (hw.ps > 0 \/ hw.of)
    /\ hw' = [hw EXCEPT !.int = FALSE]
    /\ napi' = napi_schedule
    /\ UNCHANGED <<env, left, tx, rx, poll, xmit, dev, job, timer, wire, bug>>

interrupt ==
    /\ Running /\ hw.int /\ (hw.ps > 0 \/ hw.pr > 0 \/ hw.of)
    /\ hw' = [hw EXCEPT !.int = FALSE]
    /\ napi' = napi_schedule
    /\ UNCHANGED <<env, left, tx, rx, poll, xmit, dev, job, timer, wire, bug>>

-----------------------------------------------------------------------------
(* The poll *)

Polling == Running /\ napi \in {"sched", "missed"}

\* ag71xx_tx_packets(ag, false, limit).  A hang is noticed some time after the
\* last transmission; ag71xx_check_dma_stuck() also goes by the state of the
\* receive engine, so that it may say so while transmission goes on.
PollTx ==
    /\ Polling /\ SoftirqIdle
    /\ LET m == Released(Finished)
       IN  \E dma_stuck \in BOOLEAN :
              /\ dma_stuck => /\ env.tx_hang_workaround /\ dev.link /\ Used(tx) \notin Finished
                              /\ hw.hung \/ left.hangs > 0
              /\ left' = [left EXCEPT !.hangs = IF dma_stuck /\ ~hw.hung THEN @ - 1 ELSE @]
              /\ tx' = Reaped(m)
              /\ hw' = [hw EXCEPT !.ps = Acked(@, m)]
              /\ dev' = [dev EXCEPT !.queue = Woken(m)]
              /\ timer' = [timer EXCEPT !.restart = IF dma_stuck THEN TRUE ELSE @ /\ m = 0]
    /\ poll' = [pc |-> "rx", full |-> FALSE]
    /\ UNCHANGED <<env, rx, napi, xmit, job, wire, bug>>

\* Frames that rx_packets takes, and whether it meets its assertion then.
Taken == CHOOSE k \in 0 .. Weight :
            /\ k <= RxSize - Used(rx)
            /\ \A j \in 0 .. k - 1 : ~rx.empty[RxAt(Used(rx) + j)]
            /\ \/ k = Weight \/ Used(rx) + k = RxSize
               \/ rx.empty[RxAt(Used(rx) + k)]
AssertFails == Taken < Weight /\ Used(rx) + Taken = RxSize

\* Mutant: descriptors are given back before their buffers are there.
Refilled_Early(taken, r) ==
    LET back(i) == \E k \in 0 .. r - 1 : RxAt(k) = i
        gone(i) == \E k \in Used(rx) .. Used(rx) + taken - 1 : RxAt(k) = i
    IN  [curr |-> (rx.curr + taken) % Wrap,
         dirty |-> (rx.dirty + r) % Wrap,
         empty |-> [i \in RxIndex |-> back(i) \/ gone(i) \/ rx.empty[i]],
         buf |-> [i \in RxIndex |-> back(i) \/ (rx.buf[i] /\ ~gone(i))]]

\* ... and the refill of r of the descriptors between dirty and curr.
Refilled(taken, r) ==
    LET back(i) == \E k \in 0 .. r - 1 : RxAt(k) = i
        gone(i) == \E k \in Used(rx) .. Used(rx) + taken - 1 : RxAt(k) = i
    IN  [curr |-> (rx.curr + taken) % Wrap,
         dirty |-> (rx.dirty + r) % Wrap,
         empty |-> [i \in RxIndex |-> back(i) \/ rx.empty[i]],
         buf |-> [i \in RxIndex |-> back(i) \/ (rx.buf[i] /\ ~gone(i))]]

\* ag71xx_rx_packets, and the way out of ag71xx_poll when a buffer is missing:
\* polling ends with the interrupts off and the timer set.
PollRx ==
    /\ Running /\ poll.pc = "rx"
    /\ IF AssertFails
       THEN bug' = TRUE /\ UNCHANGED <<left, rx, hw, napi, poll, timer>>
       ELSE \E r \in 0 .. Used(rx) + Taken :
              /\ r < Used(rx) + Taken => left.ooms > 0
              /\ left' = [left EXCEPT !.ooms = IF r < Used(rx) + Taken THEN @ - 1 ELSE @]
              /\ rx' = Refilled(Taken, r)
              /\ hw' = [hw EXCEPT !.pr = Acked(@, Taken)]
              /\ IF rx'.buf[rx'.dirty % RxSize]
                 THEN poll' = [pc |-> "status", full |-> Taken = Weight] /\ UNCHANGED <<napi, timer>>
                 ELSE /\ timer' = [timer EXCEPT !.oom = TRUE]
                      /\ napi' = napi_complete
                      /\ poll' = NoPoll
              /\ UNCHANGED bug
    /\ UNCHANGED <<env, tx, xmit, dev, job, wire>>

\* Polling goes on, unless napi_disable waits for its end.
More ==
    /\ poll' = NoPoll
    /\ napi' = IF job.pc = "disable" THEN napi_complete ELSE napi

\* Mutant: an overflow is acknowledged only.
PollStatus_NoRestart ==
    /\ Running /\ poll.pc = "status"
    /\ hw' = [hw EXCEPT !.of = FALSE]
    /\ IF poll.full \/ hw.pr > 0 THEN More
       ELSE poll' = [poll EXCEPT !.pc = "txstatus"] /\ UNCHANGED napi
    /\ UNCHANGED <<env, left, tx, rx, xmit, dev, job, timer, wire, bug>>

\* RX_STATUS: after an overflow the engine is started again.
PollStatus ==
    /\ Running /\ poll.pc = "status"
    /\ hw' = [hw EXCEPT !.of = FALSE, !.rxe = @ \/ hw.of]
    /\ IF poll.full \/ hw.pr > 0 THEN More
       ELSE poll' = [poll EXCEPT !.pc = "txstatus"] /\ UNCHANGED napi
    /\ UNCHANGED <<env, left, tx, rx, xmit, dev, job, timer, wire, bug>>

\* Mutant: polling ends with the interrupts off.
PollTxStatus_Off ==
    /\ Running /\ poll.pc = "txstatus"
    /\ IF hw.ps > 0 THEN More /\ UNCHANGED hw
       ELSE /\ napi' = napi_complete
            /\ poll' = NoPoll
            /\ UNCHANGED hw
    /\ UNCHANGED <<env, left, tx, rx, xmit, dev, job, timer, wire, bug>>

\* TX_STATUS, and the end of polling.
PollTxStatus ==
    /\ Running /\ poll.pc = "txstatus"
    /\ IF hw.ps > 0 THEN More /\ UNCHANGED hw
       ELSE /\ napi' = napi_complete
            /\ poll' = NoPoll
            /\ hw' = [hw EXCEPT !.int = TRUE]
    /\ UNCHANGED <<env, left, tx, rx, xmit, dev, job, timer, wire, bug>>

oom_timer_handler ==
    /\ Running /\ SoftirqIdle /\ timer.oom
    /\ timer' = [timer EXCEPT !.oom = FALSE]
    /\ napi' = napi_schedule
    /\ UNCHANGED <<env, left, tx, rx, hw, poll, xmit, dev, job, wire, bug>>

-----------------------------------------------------------------------------
(* Process context *)

Preemptible == Running /\ SoftirqIdle

\* Mutant: reception starts at the first descriptor, too.
Reset_RxFirst(t, h) ==
    /\ tx' = [t EXCEPT !.curr = 0, !.dirty = 0]
    /\ hw' = hw_start([dma_reset(hw_stop(h)) EXCEPT !.txp = 0, !.rxp = 0])

\* fast_reset: the packets in the ring are released, the engine starts at the
\* first descriptor again, reception where it was.
Reset(t, h) ==
    /\ tx' = [t EXCEPT !.curr = 0, !.dirty = 0]
    /\ hw' = hw_start([dma_reset(hw_stop(h)) EXCEPT !.txp = 0, !.rxp = h.rxp])

\* phy_link_adjust with a new state, speed or duplex mode of the link.  The
\* stack uses the device from then on, for a moment even without the link.
link_adjust(link) ==
    /\ Preemptible /\ dev.phy /\ (link \/ dev.link)
    /\ left.links > 0 /\ left' = [left EXCEPT !.links = @ - 1]
    /\ env.undisturbed => job.kind # "restart"
    /\ IF ~link
       THEN /\ hw' = hw_stop(hw)
            /\ dev' = [dev EXCEPT !.link = FALSE]
            /\ UNCHANGED <<tx, timer>>
       ELSE /\ dev' = [dev EXCEPT !.link = TRUE, !.active = TRUE, !.queue = "awake"]
            /\ IF env.fast_reset
               THEN /\ Reset(Reaped(Used(tx)), hw)
                    /\ timer' = [timer EXCEPT !.restart = @ /\ Used(tx) = 0]
               ELSE hw' = hw_start(hw) /\ UNCHANGED <<tx, timer>>
    /\ UNCHANGED <<env, rx, napi, poll, xmit, job, wire, bug>>

\* hw_enable on allocated rings.
Enabled ==
    /\ tx' = EmptyTx /\ rx' = EmptyRx
    /\ hw' = [hw EXCEPT !.txp = 0, !.rxp = 0]
    /\ napi' = "idle"

open ==
    /\ Preemptible /\ job = NoJob /\ ~dev.up
    /\ \/ /\ Enabled
          /\ dev' = [dev EXCEPT !.up = TRUE, !.phy = TRUE, !.alloc = TRUE, !.queue = "awake"]
          /\ UNCHANGED left
       \/ \* no memory: rings_cleanup
          /\ left.ooms > 0 /\ left' = [left EXCEPT !.ooms = @ - 1]
          /\ UNCHANGED <<tx, rx, hw, napi, dev>>
    /\ UNCHANGED <<env, poll, xmit, job, timer, wire, bug>>

\* hw_disable up to napi_disable.
Disable(h) == dma_reset(hw_stop(h))

\* The stack has stopped using the device.
stop ==
    /\ Preemptible /\ job = NoJob /\ dev.up
    /\ left.closes > 0 /\ left' = [left EXCEPT !.closes = @ - 1]
    /\ hw' = Disable(hw)
    /\ dev' = [dev EXCEPT !.up = FALSE, !.active = FALSE, !.phy = FALSE, !.link = FALSE, !.queue = "stopped"]
    /\ job' = [kind |-> "stop", pc |-> "disable"]
    /\ UNCHANGED <<env, tx, rx, napi, poll, xmit, timer, wire, bug>>

\* The watchdog of the stack: the queue stopped for seconds with the link up,
\* long after the poll has seen what was sent.
tx_timeout ==
    /\ Preemptible /\ dev.up /\ dev.active /\ dev.link /\ dev.queue = "stopped" /\ job = NoJob
    /\ \/ hw.hung /\ Released(Finished) = 0
       \/ napi = "disabled"
    /\ ~timer.restart
    /\ timer' = [timer EXCEPT !.restart = TRUE]
    /\ UNCHANGED <<env, left, tx, rx, hw, napi, poll, xmit, dev, job, wire, bug>>

restart_work_func ==
    /\ Preemptible /\ job = NoJob /\ timer.restart
    /\ timer' = [timer EXCEPT !.restart = FALSE]
    /\ hw' = Disable(hw)
    /\ dev' = [dev EXCEPT !.queue = "stopped"]
    /\ job' = [kind |-> "restart", pc |-> "disable"]
    /\ UNCHANGED <<env, left, tx, rx, napi, poll, xmit, wire, bug>>

\* napi_disable returns once no poll is scheduled; the timer is deleted.
NapiDisabled ==
    /\ Preemptible /\ job.pc = "disable" /\ napi = "idle"
    /\ napi' = "disabled"
    /\ timer' = [timer EXCEPT !.oom = FALSE]
    /\ job' = [job EXCEPT !.pc = "cleanup"]
    /\ UNCHANGED <<env, left, tx, rx, hw, poll, xmit, dev, wire, bug>>

rings_cleanup ==
    /\ Preemptible /\ job.pc = "cleanup"
    /\ tx' = EmptyTx /\ rx' = NoRx
    /\ dev' = [dev EXCEPT !.alloc = FALSE]
    /\ job' = IF job.kind = "stop" THEN NoJob ELSE [job EXCEPT !.pc = "enable"]
    /\ UNCHANGED <<env, left, hw, napi, poll, xmit, timer, wire, bug>>

\* The restart: hw_enable, whose result is not looked at; it may have failed
\* before or while the buffers were allocated.
RestartEnable ==
    /\ Preemptible /\ job.pc = "enable"
    /\ \/ /\ Enabled
          /\ dev' = [dev EXCEPT !.alloc = TRUE, !.queue = "awake"]
          /\ UNCHANGED left
       \/ /\ left.ooms > 0 /\ left' = [left EXCEPT !.ooms = @ - 1]
          /\ \/ UNCHANGED <<tx, rx, dev>>
             \/ \E n \in 0 .. RxSize - 1 :
                   /\ tx' = EmptyTx
                   /\ rx' = [NoRx EXCEPT !.empty = [i \in RxIndex |-> i < n], !.buf = [i \in RxIndex |-> i < n]]
                   /\ dev' = [dev EXCEPT !.alloc = TRUE]
          /\ UNCHANGED <<hw, napi>>
    /\ job' = IF dev.link THEN [job EXCEPT !.pc = "flush"] ELSE NoJob
    /\ UNCHANGED <<env, poll, xmit, timer, wire, bug>>

\* ... and __ag71xx_link_adjust without ag->lock: the ring is emptied ...
RestartFlush ==
    /\ Preemptible /\ job.pc = "flush"
    /\ IF env.fast_reset
       THEN /\ hw' = hw_stop(hw)
            /\ tx' = Reaped(Used(tx))
            /\ dev' = [dev EXCEPT !.queue = Woken(Used(tx))]
            /\ timer' = [timer EXCEPT !.restart = @ /\ Used(tx) = 0]
       ELSE UNCHANGED <<hw, tx, dev, timer>>
    /\ job' = [job EXCEPT !.pc = "reset"]
    /\ UNCHANGED <<env, left, rx, napi, poll, xmit, wire, bug>>

\* ... and the engines start.
RestartReset ==
    /\ Preemptible /\ job.pc = "reset"
    /\ IF env.fast_reset THEN Reset(tx, hw) ELSE hw' = hw_start(hw) /\ UNCHANGED tx
    /\ dev' = [dev EXCEPT !.queue = "awake"]
    /\ job' = NoJob
    /\ UNCHANGED <<env, left, rx, napi, poll, xmit, timer, wire, bug>>

-----------------------------------------------------------------------------
Init ==
    /\ env \in Envs
    /\ left = [links |-> env.links, hangs |-> env.hangs, ooms |-> env.ooms, closes |-> env.closes]
    /\ tx = EmptyTx /\ rx = NoRx
    /\ hw = [int |-> FALSE, txe |-> FALSE, rxe |-> FALSE, txp |-> None, rxp |-> None,
             ps |-> 0, pr |-> 0, of |-> FALSE, hung |-> FALSE, frame |-> None]
    /\ napi = "disabled" /\ poll = NoPoll /\ xmit = NoXmit
    /\ dev = [up |-> FALSE, active |-> FALSE, phy |-> FALSE, link |-> FALSE, alloc |-> FALSE, queue |-> "stopped"]
    /\ job = NoJob
    /\ timer = [oom |-> FALSE, restart |-> FALSE]
    /\ wire = None /\ bug = FALSE

Send == \E len \in Lengths : hard_start_xmit(len)
Softirq == fill_dma_desc \/ Inject \/ Kick \/ PollTx \/ PollRx \/ PollStatus \/ PollTxStatus \/ oom_timer_handler
Restart == restart_work_func \/ NapiDisabled \/ rings_cleanup \/ RestartEnable \/ RestartFlush \/ RestartReset

Next ==
    \/ Send \/ Softirq \/ open \/ stop \/ Restart \/ tx_timeout
    \/ HwTx \/ HwRx \/ Hang \/ interrupt
    \/ \E link \in BOOLEAN : link_adjust(link)

\* The engine works unless it hangs, interrupts and softirqs are served, and
\* softirqs leave time for process context and for the watchdog.
Fairness ==
    /\ WF_vars(HwTx) /\ WF_vars(interrupt) /\ WF_vars(Softirq)
    /\ SF_vars(Restart) /\ SF_vars(tx_timeout)

Spec == Init /\ [][Next]_vars /\ Fairness

-----------------------------------------------------------------------------
(* Properties *)

TypeOK ==
    /\ env \in Envs /\ left \in Left
    /\ tx \in [curr: Counter, dirty: Counter, desc: [TxIndex -> Desc], skb: [TxIndex -> Packet \cup {None}]]
    /\ rx \in [curr: Counter, dirty: Counter, empty: [RxIndex -> BOOLEAN], buf: [RxIndex -> BOOLEAN]]
    /\ hw \in Hw
    /\ napi \in {"idle", "sched", "missed", "disabled"}
    /\ poll \in [pc: {"idle", "rx", "status", "txstatus"}, full: BOOLEAN]
    /\ xmit \in [pc: {"idle", "fill", "inject", "kick"}, pkt: Packet \cup {None}, len: Nat, n: Nat]
    /\ dev \in [up: BOOLEAN, active: BOOLEAN, phy: BOOLEAN, link: BOOLEAN, alloc: BOOLEAN, queue: {"awake", "stopped"}]
    /\ job \in [kind: {"none", "stop", "restart"}, pc: {"none", "disable", "cleanup", "enable", "flush", "reset"}]
    /\ timer \in [oom: BOOLEAN, restart: BOOLEAN]
    /\ wire \in [pkt: Packet, got: Nat] \cup {None}
    /\ bug \in BOOLEAN

\* The queue is stopped early enough: fill_dma_desc finds room for every
\* packet that the stack hands over, and none is dropped half-way.
FillNeverFails == xmit.pc = "fill" => tx.desc[(tx.curr + xmit.n) % TxSize].empty

\* No segment is one that makes the engine hang: each has more than 4 bytes, and
\* no more than desc_split (fill_dma_desc shortens the one before the last).
SegmentsLong ==
    \A i \in TxIndex : tx.desc[i].seg # None =>
        tx.desc[i].seg.len > 4 /\ (env.split > 0 => tx.desc[i].seg.len <= env.split)

\* The packets between dirty and curr, oldest first, and those of them sent.
Slots == {k \in 0 .. Used(tx) - 1 : tx.skb[TxAt(k)] # None}
SlotNo(n) == CHOOSE k \in Slots : Cardinality({j \in Slots : j <= k}) = n
Queue == [n \in 1 .. Cardinality(Slots) |-> tx.skb[TxAt(SlotNo(n))]]
Sent == Cardinality({k \in Slots : tx.desc[TxAt(k)].empty})

TxQueue == INSTANCE TxQueue WITH queue <- Queue, sent <- Sent, running <- hw.txe /\ hw.txp # None

\* The ring implements the transmit queue: whole packets in order, each
\* released once, after it was sent or with the engine stopped.
TxQueueSpec == TxQueue!Spec

\* The receive engine is where rx_packets expects it: the descriptors from
\* curr on hold frames up to the engine, and wait for frames from there on.
RxInStep ==
    dev.alloc /\ hw.rxp # None =>
        \E k \in 0 .. RxSize - Used(rx) :
            /\ hw.rxp = RxAt(Used(rx) + k)
            /\ \A j \in 0 .. RxSize - 1 : rx.empty[RxAt(j)] <=> j >= Used(rx) + k

\* A descriptor that the receive engine may use has a buffer, and no engine is
\* at work in rings that are not there.
BuffersThere ==
    /\ \A i \in RxIndex : rx.empty[i] => rx.buf[i]
    /\ ~dev.alloc => ~(hw.txe /\ hw.txp # None) /\ ~(hw.rxe /\ hw.rxp # None)

\* With the link up, whenever no poll is scheduled, an interrupt or the timer
\* of ag71xx_poll's way out can start the next one.
PollOrInterrupt == dev.link /\ napi = "idle" /\ job = NoJob => hw.int \/ timer.oom

\* ag71xx_assert(0) in ag71xx_rx_packets is not reached.
AssertHolds == poll.pc = "rx" => ~AssertFails

\* A stopped queue wakes up again while the link is up, after a hang as well
\* (unless there was no memory for the restart).
QueueWakes ==
    (dev.queue = "stopped" /\ dev.link /\ (env.hangs = 0 \/ env.ooms = 0)) ~> (dev.queue = "awake" \/ ~dev.link)

\* Received frames are noticed: rx_packets runs.  (A reset of the MAC clears the
\* notice, and what was received just before it waits for the next frame.)
Received == (hw.pr > 0 /\ dev.link /\ env.hangs = 0) ~> (poll.pc = "rx" \/ hw.pr = 0 \/ ~dev.link)

\* The receive engine that an overflow stopped is started again.
OverflowEnds == (hw.of /\ dev.link /\ env.hangs = 0) ~> (hw.rxe \/ ~dev.link)
=============================================================================
