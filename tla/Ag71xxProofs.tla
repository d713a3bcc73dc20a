---------------------------- MODULE Ag71xxProofs ----------------------------
(***************************************************************************)
(* Proofs about Ag71xx, for every set of surroundings: when the device is  *)
(* polled, when the engines have a ring to work in, and what the receive   *)
(* engine finds there.                                                     *)
(***************************************************************************)
EXTENDS Ag71xx, WellFoundedInduction, TLAPS

-----------------------------------------------------------------------------
(* Naturals and remainders *)

\* A set of naturals that is not empty has a least element.
LEMMA LeastNatural ==
    ASSUME NEW T \in SUBSET Nat, T # {}
    PROVE  \E x \in T : \A y \in T : x <= y
<1> DEFINE R == OpToRel(<, Nat)
<1>1. \A y \in Nat, x \in Nat : y < x => <<y, x>> \in R
    BY Zenon DEF OpToRel
<1>2. IsWellFoundedOn(R, Nat)
    BY NatLessThanWellFounded, Zenon
<1> HIDE DEF R
<1>3. PICK x \in T : \A y \in T : ~(<<y, x>> \in R)
    BY <1>2, WFMin, Zenon
<1>4. \A y \in T : ~(y < x)
    BY <1>1, <1>3, Zenon
<1> QED
    BY <1>3, <1>4

\* A set of naturals up to a bound that is not empty has a greatest element.
LEMMA GreatestNatural ==
    ASSUME NEW n \in Nat, NEW T \in SUBSET (0 .. n), T # {}
    PROVE  \E x \in T : \A y \in T : x >= y
<1> DEFINE U == {n - y : y \in T}
<1>1. U \in SUBSET Nat /\ U # {}
  <2>1. \A y \in T : n - y \in Nat /\ n - y \in U
      OBVIOUS
  <2> QED
      BY <2>1, Zenon
<1>2. PICK z \in U : \A y \in U : z <= y
    BY <1>1, LeastNatural, Zenon
<1>3. PICK x \in T : z = n - x
    BY <1>2, Zenon
<1>4. \A y \in T : n - x <= n - y
    BY <1>2, <1>3, Zenon
<1> QED
    BY <1>3, <1>4

\* Division with remainder.
LEMMA Remainder ==
    ASSUME NEW W \in Nat \ {0}, NEW a \in Int
    PROVE  (a % W) \in 0 .. W - 1 /\ \E q \in Int : a = q * W + (a % W)
<1>1. (a % W) \in 0 .. W - 1
    BY Z3
<1>2. (a \div W) \in Int /\ a = (a \div W) * W + (a % W)
    BY Z3
<1> QED
    BY <1>1, <1>2, Zenon

\* ... and there is only one.
LEMMA RemainderUnique ==
    ASSUME NEW W \in Nat \ {0}, NEW q \in Int, NEW r \in 0 .. W - 1
    PROVE  (q * W + r) % W = r
BY Z3

\* Two numbers have the same remainder if their difference is a multiple.
LEMMA SameRemainder ==
    ASSUME NEW W \in Nat \ {0}, NEW a \in Int, NEW p \in Int
    PROVE  (a + p * W) % W = a % W
<1> DEFINE r == a % W
<1>1. PICK q \in Int : a = q * W + r
    BY Remainder, Zenon
<1>2. r \in 0 .. W - 1
    BY Remainder, Zenon
<1> HIDE DEF r
<1>3. a + p * W = (q + p) * W + r
    BY <1>1, <1>2
<1>4. ((q + p) * W + r) % W = r
    BY <1>2, RemainderUnique
<1> QED
    BY <1>3, <1>4, Zenon DEF r

\* The index of a ring: remainders may be taken before or after adding.
LEMMA RemainderSum ==
    ASSUME NEW W \in Nat \ {0}, NEW a \in Int, NEW b \in Int
    PROVE  /\ ((a % W) + b) % W = (a + b) % W
           /\ (b - (a % W)) % W = (b - a) % W
<1> DEFINE r == a % W
<1>1. PICK q \in Int : a = q * W + r
    BY Remainder
<1>2. r \in Int
    BY Remainder
<1> HIDE DEF r
<1> DEFINE s == a + b
           d == b - a
           p == -q
<1>3. s \in Int /\ d \in Int /\ p \in Int
    OBVIOUS
<1>4. r + b = s + p * W /\ b - r = d + q * W
    BY <1>1, <1>2
<1> HIDE DEF s, d, p
<1>5. (s + p * W) % W = s % W /\ (d + q * W) % W = d % W
    BY <1>3, SameRemainder, Zenon
<1>6. (r + b) % W = s % W /\ (b - r) % W = d % W
    BY <1>4, <1>5, Zenon
<1> QED
    BY <1>6, Zenon DEF r, s, d

\* A counter that wraps at a multiple of the size of its ring.
LEMMA RemainderRemainder ==
    ASSUME NEW W \in Nat \ {0}, NEW N \in Nat \ {0}, W % N = 0, NEW a \in Int
    PROVE  (a % W) % N = a % N
<1> DEFINE r == a % W
<1>1. PICK q \in Int : a = q * W + r
    BY Remainder, Zenon
<1>2. r \in Int
    BY Remainder
<1>3. PICK p \in Int : W = p * N
    BY Remainder
<1> HIDE DEF r
<1>4. q * W = (q * p) * N /\ q * p \in Int
    BY <1>3
<1>5. a = r + (q * p) * N
    BY <1>1, <1>2, <1>4
<1>6. (r + (q * p) * N) % N = r % N
    BY <1>2, <1>4, SameRemainder, Zenon
<1> QED
    BY <1>5, <1>6, Zenon DEF r

\* Positions less than the size of the ring apart are different slots.
LEMMA RemainderApart ==
    ASSUME NEW N \in Nat \ {0}, NEW a \in Int, NEW b \in Int, a - b < N, b - a < N, a % N = b % N
    PROVE  a = b
<1> DEFINE r == a % N
<1>1. PICK p \in Int : a = p * N + r
    BY Remainder, Zenon
<1>2. PICK q \in Int : b = q * N + r
    BY Remainder, Zenon
<1>3. r \in Int
    BY Remainder
<1> HIDE DEF r
<1>4. a - b = (p - q) * N
    BY <1>1, <1>2, <1>3
<1>5. CASE p - q >= 1
  <2>1. (p - q) * N >= N
      BY <1>5
  <2> QED
      BY <1>4, <2>1
<1>6. CASE q - p >= 1
  <2>1. (q - p) * N >= N
      BY <1>6
  <2>2. (q - p) * N = b - a
      BY <1>4
  <2> QED
      BY <2>2, <2>1
<1>7. CASE p = q
    BY <1>7, <1>1, <1>2, Zenon
<1> QED
    BY <1>5, <1>6, <1>7

-----------------------------------------------------------------------------
(* Control *)

HwShape(h) ==
    h \in [int: BOOLEAN, txe: BOOLEAN, rxe: BOOLEAN, txp: {h.txp}, rxp: {h.rxp},
           ps: {h.ps}, pr: {h.pr}, of: BOOLEAN, hung: BOOLEAN, frame: {h.frame}]

\* Records have their fields, and a closed device, or one that is being closed,
\* has no link.
Control ==
    /\ env \in Envs
    /\ napi \in {"idle", "sched", "missed", "disabled"}
    /\ dev \in [up: BOOLEAN, active: BOOLEAN, phy: BOOLEAN, link: BOOLEAN, alloc: BOOLEAN, queue: {"awake", "stopped"}]
    /\ job \in [kind: {"none", "stop", "restart"}, pc: {"none", "disable", "cleanup", "enable", "flush", "reset"}]
    /\ timer \in [oom: BOOLEAN, restart: BOOLEAN]
    /\ HwShape(hw)
    /\ job.kind = "none" <=> job.pc = "none"
    /\ job.kind = "stop" => ~dev.up
    /\ ~dev.up => ~dev.link /\ ~dev.phy

\* What the operators on the registers do.
LEMMA Registers ==
    ASSUME NEW h, HwShape(h)
    PROVE  /\ HwShape(hw_stop(h)) /\ HwShape(dma_reset(h)) /\ HwShape(hw_start(h)) /\ HwShape(Disable(h))
           /\ hw_start(h).int = TRUE /\ hw_start(h).txe = h.txe /\ hw_start(h).txp = h.txp
           /\ hw_start(h).rxp = h.rxp /\ hw_start(h).hung = h.hung
           /\ hw_stop(h).txe = FALSE /\ hw_stop(h).txp = h.txp /\ hw_stop(h).rxp = h.rxp /\ hw_stop(h).hung = h.hung
           /\ Disable(h).txp = None /\ Disable(h).rxp = None /\ Disable(h).txe = FALSE /\ Disable(h).hung = FALSE
<1>1. HwShape(hw_stop(h)) /\ HwShape(hw_start(h))
    BY Zenon DEF HwShape, hw_stop, hw_start
<1>2. /\ hw_start(h).int = TRUE /\ hw_start(h).txe = h.txe /\ hw_start(h).txp = h.txp
      /\ hw_start(h).rxp = h.rxp /\ hw_start(h).hung = h.hung
    BY Zenon DEF HwShape, hw_start
<1>3. hw_stop(h).txe = FALSE /\ hw_stop(h).txp = h.txp /\ hw_stop(h).rxp = h.rxp /\ hw_stop(h).hung = h.hung
    BY Zenon DEF HwShape, hw_stop
<1>4. ASSUME NEW g, HwShape(g)
      PROVE  /\ HwShape(dma_reset(g))
             /\ dma_reset(g).txp = None /\ dma_reset(g).rxp = None /\ dma_reset(g).txe = FALSE /\ dma_reset(g).hung = FALSE
    BY <1>4, Zenon DEF HwShape, dma_reset
<1> QED
    BY <1>1, <1>2, <1>3, <1>4, Zenon DEF Disable

LEMMA ResetRegisters ==
    ASSUME NEW t, HwShape(hw), Reset(t, hw)
    PROVE  /\ HwShape(hw') /\ hw'.int = TRUE /\ hw'.txe = FALSE
           /\ hw'.rxp = hw.rxp /\ hw'.hung = FALSE
BY ZenonT(60), Zenon DEF HwShape, Reset, hw_stop, dma_reset, hw_start

LEMMA ControlInit == Init => Control /\ PollOrInterrupt
BY DEF Init, Control, HwShape, NoJob, PollOrInterrupt

\* NAPI keeps to its states; a request is accepted unless napi_disable waits.
LEMMA NapiStates ==
    ASSUME Control
    PROVE  /\ napi_schedule \in {"idle", "sched", "missed", "disabled"}
           /\ napi_complete \in {"idle", "sched"}
           /\ job.pc # "disable" => napi_schedule # "idle"
           /\ napi_schedule = "disabled" => napi = "disabled"
BY Zenon DEF Control, napi_schedule, napi_complete

\* The disjuncts of Next, one by one.
LEMMA Steps ==
    ASSUME [Next]_vars
    PROVE  \/ \E len \in Lengths : hard_start_xmit(len)
           \/ fill_dma_desc \/ Inject \/ Kick \/ PollTx \/ PollRx \/ PollStatus \/ PollTxStatus
           \/ oom_timer_handler \/ open \/ stop \/ restart_work_func \/ NapiDisabled \/ rings_cleanup
           \/ RestartEnable \/ RestartFlush \/ RestartReset \/ tx_timeout
           \/ HwTx \/ HwRx \/ Hang \/ interrupt
           \/ \E link \in BOOLEAN : link_adjust(link)
           \/ UNCHANGED vars
BY Zenon DEF Next, Send, Softirq, Restart

LEMMA ControlNext ==
    ASSUME Control, PollOrInterrupt, [Next]_vars
    PROVE  Control' /\ PollOrInterrupt'
<1>0. /\ napi_schedule \in {"idle", "sched", "missed", "disabled"}
      /\ napi_complete \in {"idle", "sched"}
      /\ job.pc # "disable" => napi_schedule # "idle"
    BY NapiStates, Zenon
<1>r. HwShape(hw)
    BY Zenon DEF Control
<1>h. /\ HwShape(hw_stop(hw)) /\ HwShape(hw_start(hw)) /\ HwShape(Disable(hw))
      /\ hw_start(hw).int = TRUE
    BY <1>r, Registers, Zenon
<1> USE DEF Control, PollOrInterrupt, NoJob
<1>1. CASE \E len \in Lengths : hard_start_xmit(len)
    BY <1>1, Zenon DEF hard_start_xmit
<1>2. CASE fill_dma_desc
    BY <1>2 DEF fill_dma_desc
<1>3. CASE Inject
    BY <1>3 DEF Inject
<1>4. CASE Kick
    BY <1>4, Zenon DEF Kick, HwShape
<1>5. CASE PollTx
  <2>1. HwShape(hw') /\ hw'.int = hw.int
      BY <1>5, Zenon DEF PollTx, HwShape
  <2>2. dev' \in [up: {dev.up}, active: BOOLEAN, phy: {dev.phy}, link: {dev.link}, alloc: BOOLEAN, queue: {"awake", "stopped"}]
      BY <1>5 DEF PollTx, Woken
  <2>3. timer' \in [oom: {timer.oom}, restart: BOOLEAN]
      BY <1>5, ZenonT(60) DEF PollTx
  <2> QED
      BY <1>5, <2>1, <2>2, <2>3, Zenon DEF PollTx
<1>6. CASE PollRx
  <2>1. HwShape(hw') /\ hw'.int = hw.int
      BY <1>6 DEF PollRx, HwShape
  <2>2. \/ napi' = napi /\ timer' = timer
        \/ napi' = napi_complete /\ timer' = [timer EXCEPT !.oom = TRUE]
      BY <1>6, Zenon DEF PollRx
  <2>3. UNCHANGED <<env, dev, job>>
      BY <1>6, Zenon DEF PollRx
  <2>4. /\ timer' \in [oom: BOOLEAN, restart: BOOLEAN]
        /\ timer.oom => timer'.oom
        /\ napi' = napi \/ timer'.oom
      BY <2>2, Zenon
  <2>5. Control'
      BY <2>1, <2>2, <2>3, <2>4, <1>0
  <2> QED
      BY <2>1, <2>3, <2>4, <2>5, Zenon
<1>7. CASE PollStatus
  <2>1. HwShape(hw') /\ hw'.int = hw.int
      BY <1>7, Zenon DEF PollStatus, More, HwShape
  <2>2. /\ napi' = napi \/ (job.pc = "disable" /\ napi' = napi_complete)
        /\ UNCHANGED <<env, dev, job, timer>>
      BY <1>7, Zenon DEF PollStatus, More
  <2>3. Control'
      BY <2>1, <2>2, <1>0
  <2> QED
      BY <2>1, <2>2, <2>3, <1>0
<1>8. CASE PollTxStatus
  <2>1. \/ hw' = hw /\ (napi' = napi \/ job.pc = "disable")
        \/ hw' = [hw EXCEPT !.int = TRUE]
      BY <1>8, Zenon DEF PollTxStatus, More
  <2>2. HwShape(hw') /\ (hw' = [hw EXCEPT !.int = TRUE] => hw'.int = TRUE)
      BY <2>1, Zenon DEF HwShape
  <2>3. napi' \in {"idle", "sched", "missed", "disabled"} /\ UNCHANGED <<env, dev, job, timer>>
      BY <1>8, <1>0, Zenon DEF PollTxStatus, More
  <2>4. Control'
      BY <2>2, <2>3
  <2>5. PollOrInterrupt'
      BY <2>1, <2>2, <2>3
  <2> QED
      BY <2>4, <2>5, Zenon
<1>9. CASE oom_timer_handler
  <2>1. napi' = napi_schedule /\ timer' = [timer EXCEPT !.oom = FALSE] /\ UNCHANGED <<env, hw, dev, job>>
      BY <1>9, Zenon DEF oom_timer_handler
  <2>2. Control'
      BY <2>1, <1>0, ZenonT(60)
  <2>3. PollOrInterrupt'
      BY <2>1, <1>0
  <2> QED
      BY <2>2, <2>3
<1>10. CASE open
  <2>1. HwShape(hw')
      BY <1>10, ZenonT(60) DEF open, Enabled, HwShape
  <2>2. \/ dev' = [dev EXCEPT !.up = TRUE, !.phy = TRUE, !.alloc = TRUE, !.queue = "awake"] /\ napi' = "idle"
        \/ UNCHANGED <<dev, napi>>
      BY <1>10, Zenon DEF open, Enabled
  <2>3. ~dev.up /\ UNCHANGED <<env, job, timer>>
      BY <1>10, Zenon DEF open
  <2>4. /\ dev' \in [up: BOOLEAN, active: BOOLEAN, phy: BOOLEAN, link: {FALSE}, alloc: BOOLEAN, queue: {"awake", "stopped"}]
        /\ ~dev'.up => ~dev'.phy
      BY <2>2, <2>3, Zenon
  <2>5. napi' \in {"idle", "sched", "missed", "disabled"}
      BY <2>2, Zenon
  <2>6. Control'
      BY <1>10, <2>1, <2>3, <2>4, <2>5, Zenon DEF open
  <2> QED
      BY <2>4, <2>6, Zenon
<1>11. CASE stop
    BY <1>11, Registers, Zenon DEF stop
<1>12. CASE restart_work_func
    BY <1>12, Registers, Zenon DEF restart_work_func
<1>13. CASE NapiDisabled
    BY <1>13, Zenon DEF NapiDisabled
<1>14. CASE rings_cleanup
    BY <1>14, Zenon DEF rings_cleanup
<1>15. CASE RestartEnable
  <2>1. HwShape(hw') /\ hw'.int = hw.int
      BY <1>15, ZenonT(60), Zenon DEF RestartEnable, Enabled, HwShape
  <2> QED
      BY <1>15, <2>1, ZenonT(60) DEF RestartEnable, Enabled
<1>16. CASE RestartFlush
  <2>0. hw' = hw \/ hw' = hw_stop(hw)
      BY <1>16, Zenon DEF RestartFlush
  <2>1. HwShape(hw')
      BY <2>0, <1>r, <1>h, Zenon
  <2>2. dev' \in [up: {dev.up}, active: BOOLEAN, phy: {dev.phy}, link: {dev.link}, alloc: BOOLEAN, queue: {"awake", "stopped"}]
      BY <1>16 DEF RestartFlush, Woken
  <2>3. timer' \in [oom: BOOLEAN, restart: BOOLEAN]
      BY <1>16, ZenonT(60) DEF RestartFlush
  <2> QED
      BY <1>16, <2>1, <2>2, <2>3, Zenon DEF RestartFlush
<1>17. CASE RestartReset
  <2>1. HwShape(hw') /\ hw'.int = TRUE
      BY <1>17, <1>r, <1>h, ResetRegisters, Zenon DEF RestartReset
  <2> QED
      BY <1>17, <2>1, Zenon DEF RestartReset
<1>18. CASE tx_timeout
    BY <1>18, Zenon DEF tx_timeout
<1>19. CASE HwTx
  <2> DEFINE d == tx.desc[hw.txp]
             got == IF hw.frame = None THEN [pkt |-> d.seg.pkt, got |-> d.seg.len]
                                       ELSE [hw.frame EXCEPT !.got = @ + d.seg.len]
             a == (hw.txp + 1) % TxSize
             b == hw.ps + 1
             c == IF d.seg.more THEN got ELSE None
  <2>0. IF d.empty THEN hw' = [hw EXCEPT !.txe = FALSE, !.frame = None]
                   ELSE hw' = [hw EXCEPT !.txp = a, !.ps = b, !.frame = c]
      BY <1>19, Zenon DEF HwTx
  <2> HIDE DEF d, a, b, c
  <2>1. \/ hw' = [hw EXCEPT !.txe = FALSE, !.frame = None]
        \/ hw' = [hw EXCEPT !.txp = a, !.ps = b, !.frame = c]
      BY <2>0, Zenon
  <2>2. HwShape(hw') /\ hw'.int = hw.int
      BY <2>1, ZenonT(60) DEF HwShape
  <2> QED
      BY <1>19, <2>2 DEF HwTx
<1>20. CASE HwRx
  <2> DEFINE a == (hw.rxp + 1) % RxSize
             b == hw.pr + 1
  <2>1. \/ hw' = [hw EXCEPT !.rxe = FALSE, !.of = TRUE]
        \/ hw' = [hw EXCEPT !.rxp = a, !.pr = b]
      BY <1>20, Zenon DEF HwRx
  <2> HIDE DEF a, b
  <2>2. HwShape(hw') /\ hw'.int = hw.int
      BY <2>1, ZenonT(60), Zenon DEF HwShape
  <2> QED
      BY <1>20, <2>2 DEF HwRx
<1>21. CASE Hang
  <2>1. HwShape(hw') /\ hw'.int = hw.int
      BY <1>21, Zenon DEF Hang, HwShape
  <2> QED
      BY <1>21, <2>1 DEF Hang
<1>22. CASE interrupt
  <2>1. HwShape(hw') /\ hw'.int = FALSE
      BY <1>22, Zenon DEF interrupt, HwShape
  <2>2. napi' = napi_schedule /\ UNCHANGED <<env, dev, job, timer>>
      BY <1>22, Zenon DEF interrupt
  <2>3. Control'
      BY <2>1, <2>2, <1>0
  <2>4. job' = NoJob => napi' # "idle"
      BY <2>2, <1>0
  <2> QED
      BY <2>3, <2>4, Zenon
<1>23. CASE \E link \in BOOLEAN : link_adjust(link)
  <2> PICK link \in BOOLEAN : link_adjust(link)
      BY <1>23, Zenon
  <2>0. IF ~link THEN hw' = hw_stop(hw) ELSE (\E t : Reset(t, hw)) \/ hw' = hw_start(hw)
      BY Zenon DEF link_adjust
  <2>1. HwShape(hw') /\ (link => hw'.int = TRUE)
    <3>1. CASE \E t : Reset(t, hw)
        BY <3>1, <1>r, ResetRegisters, Zenon
    <3>2. CASE hw' = hw_stop(hw) /\ ~link
        BY <3>2, <1>h, Zenon
    <3>3. CASE hw' = hw_start(hw)
        BY <3>3, <1>h, Zenon
    <3> QED
        BY <2>0, <3>1, <3>2, <3>3, Zenon
  <2>2. dev' \in [up: {dev.up}, active: BOOLEAN, phy: {dev.phy}, link: {link}, alloc: BOOLEAN, queue: {"awake", "stopped"}]
    <3>1. dev' = IF link THEN [dev EXCEPT !.link = TRUE, !.active = TRUE, !.queue = "awake"]
                         ELSE [dev EXCEPT !.link = FALSE]
        BY Zenon DEF link_adjust
    <3> QED
        BY <3>1, Zenon
  <2>3. timer' \in [oom: BOOLEAN, restart: BOOLEAN]
      BY Zenon DEF link_adjust
  <2>4. dev.up
      BY Zenon DEF link_adjust
  <2> QED
      BY <2>1, <2>2, <2>3, <2>4, Zenon DEF link_adjust
<1>24. CASE UNCHANGED vars
    BY <1>24 DEF vars
<1> QED
    BY Steps, <1>1, <1>2, <1>3, <1>4, <1>5, <1>6, <1>7, <1>8, <1>9, <1>10, <1>11, <1>12, <1>13, <1>14,
       <1>15, <1>16, <1>17, <1>18, <1>19, <1>20, <1>21, <1>22, <1>23, <1>24, ZenonT(30)

\* With the link up, whenever no poll is scheduled, an interrupt or the timer of
\* ag71xx_poll's way out can start the next one: whatever the restarts, the link
\* changes and the failing allocations do, the device never stands still.
THEOREM NeverStandsStill == Spec => []PollOrInterrupt
<1>1. Init => Control /\ PollOrInterrupt
    BY ControlInit, Zenon
<1>2. Control /\ PollOrInterrupt /\ [Next]_vars => (Control /\ PollOrInterrupt)'
    BY ControlNext, Zenon
<1> QED
    BY <1>1, <1>2, PTL DEF Spec

-----------------------------------------------------------------------------
(* The engines *)

\* Nothing disturbs a restart, or there is none.
Calm == env.undisturbed \/ env.hangs = 0

XmitShape(x) == x \in [pc: {"idle", "fill", "inject", "kick"}, pkt: {x.pkt}, len: {x.len}, n: {x.n}]
LeftShape(l) == l \in [links: {l.links}, hangs: {l.hangs}, ooms: {l.ooms}, closes: {l.closes}]

\* Without a hang there is no restart; the engines have no ring while the rings
\* are being replaced, nor while there is none.
Engines ==
    /\ LeftShape(left) /\ XmitShape(xmit)
    /\ env.hangs = 0 => /\ left.hangs = 0 /\ hw.hung = FALSE /\ timer.restart = FALSE /\ job.kind # "restart"
                        /\ napi = "disabled" => ~dev.up
    /\ Calm /\ job.pc \in {"disable", "cleanup", "enable"} => hw.txp = None /\ hw.rxp = None
    /\ Calm /\ ~dev.alloc => hw.rxp = None /\ (hw.txp = None \/ hw.txe = FALSE) /\ xmit.pc = "idle"

LEMMA EnginesInit == Init => Engines
BY DEF Init, Engines, LeftShape, XmitShape, NoXmit, NoJob

\* A piece of a packet is put into descriptor i.
Puts(i, seg) ==
    /\ seg.len = cur_len(env.split, xmit.len)
    /\ tx' = [tx EXCEPT !.desc[i] = [empty |-> xmit.n = 0, seg |-> seg]]
    /\ xmit' = [xmit EXCEPT !.len = @ - seg.len, !.n = @ + 1,
                           !.pc = IF seg.len < xmit.len THEN "fill" ELSE "inject"]

\* fill_dma_desc drops the packet, or puts the next piece of it into a descriptor.
LEMMA FillStep ==
    ASSUME fill_dma_desc
    PROVE  \/ xmit' = NoXmit /\ tx' = tx
           \/ \E i, seg : Puts(i, seg)
<1> DEFINE i == (tx.curr + xmit.n) % TxSize
           l == cur_len(env.split, xmit.len)
           seg == [pkt |-> xmit.pkt, len |-> l, more |-> l < xmit.len]
<1>1. \/ xmit' = NoXmit /\ tx' = tx
      \/ /\ tx' = [tx EXCEPT !.desc[i] = [empty |-> xmit.n = 0, seg |-> seg]]
         /\ xmit' = [xmit EXCEPT !.len = @ - l, !.n = @ + 1, !.pc = IF seg.more THEN "fill" ELSE "inject"]
    BY Zenon DEF fill_dma_desc
<1>2. seg.len = l /\ seg.more = (l < xmit.len)
    BY Zenon
<1> HIDE DEF i, l, seg
<1>3. l = cur_len(env.split, xmit.len)
    BY Zenon DEF l
<1>4. CASE xmit' = NoXmit /\ tx' = tx
    BY <1>4, Zenon
<1>5. CASE /\ tx' = [tx EXCEPT !.desc[i] = [empty |-> xmit.n = 0, seg |-> seg]]
           /\ xmit' = [xmit EXCEPT !.len = @ - l, !.n = @ + 1, !.pc = IF seg.more THEN "fill" ELSE "inject"]
  <2>1. (IF seg.more THEN "fill" ELSE "inject") = (IF seg.len < xmit.len THEN "fill" ELSE "inject")
      BY <1>2, Zenon
  <2>2. xmit' = [xmit EXCEPT !.len = @ - seg.len, !.n = @ + 1,
                             !.pc = IF seg.len < xmit.len THEN "fill" ELSE "inject"]
      BY <1>5, <1>2, <2>1, Zenon
  <2>3. Puts(i, seg)
      BY <1>5, <1>2, <1>3, <2>2, Zenon DEF Puts
  <2> QED
      BY <2>3, Zenon
<1> QED
    BY <1>1, <1>4, <1>5, Zenon

LEMMA EnginesNext ==
    ASSUME Control, Engines, [Next]_vars
    PROVE  Engines'
<1>r. HwShape(hw)
    BY Zenon DEF Control
<1>h. /\ hw_start(hw).txe = hw.txe /\ hw_start(hw).txp = hw.txp
      /\ hw_start(hw).rxp = hw.rxp /\ hw_start(hw).hung = hw.hung
      /\ hw_stop(hw).txe = FALSE /\ hw_stop(hw).txp = hw.txp /\ hw_stop(hw).rxp = hw.rxp /\ hw_stop(hw).hung = hw.hung
      /\ Disable(hw).txp = None /\ Disable(hw).rxp = None /\ Disable(hw).txe = FALSE /\ Disable(hw).hung = FALSE
    BY <1>r, Registers, Zenon
<1>0. napi_schedule = "disabled" => napi = "disabled"
    BY NapiStates, Zenon
<1>c. napi_complete # "disabled"
    BY NapiStates, Zenon
<1> USE DEF Control, Engines, Calm, NoJob
<1>1. CASE \E len \in Lengths : hard_start_xmit(len)
  <2>1. XmitShape(xmit') /\ (~dev.alloc => xmit' = xmit)
      BY <1>1 DEF hard_start_xmit, XmitShape
  <2> QED
      BY <1>1, <2>1, Zenon DEF hard_start_xmit
<1>2. CASE fill_dma_desc
  <2>1. CASE xmit' = NoXmit
      BY <1>2, <2>1, Zenon DEF fill_dma_desc, XmitShape, NoXmit
  <2>2. CASE \E i, seg : Puts(i, seg)
    <3> PICK i, seg : Puts(i, seg)
        BY <2>2, Zenon
    <3> DEFINE a == xmit.len - seg.len
               b == xmit.n + 1
               c == seg.len < xmit.len
    <3>1. xmit' = [xmit EXCEPT !.len = a, !.n = b, !.pc = IF c THEN "fill" ELSE "inject"]
        BY Zenon DEF Puts
    <3> HIDE DEF a, b, c
    <3>2. XmitShape(xmit')
        BY <3>1, Zenon DEF XmitShape
    <3> QED
        BY <1>2, <3>2, Zenon DEF fill_dma_desc
  <2> QED
      BY <1>2, <2>1, <2>2, FillStep, Zenon
<1>3. CASE Inject
  <2>1. XmitShape(xmit') /\ xmit.pc # "idle"
      BY <1>3, Zenon DEF Inject, XmitShape
  <2> QED
      BY <1>3, <2>1, Zenon DEF Inject
<1>4. CASE Kick
  <2>1. XmitShape(xmit') /\ xmit.pc # "idle"
      BY <1>4, Zenon DEF Kick, XmitShape, NoXmit
  <2>2. hw'.txp = hw.txp /\ hw'.rxp = hw.rxp /\ hw'.hung = hw.hung
      BY <1>4, <1>r, Zenon DEF Kick, HwShape
  <2>3. dev'.alloc = dev.alloc /\ dev'.up = dev.up
      BY <1>4, Zenon DEF Kick
  <2> QED
      BY <1>4, <2>1, <2>2, <2>3, Zenon DEF Kick
<1>5. CASE PollTx
  <2>1. hw'.txp = hw.txp /\ hw'.rxp = hw.rxp /\ hw'.hung = hw.hung /\ hw'.txe = hw.txe
      BY <1>5, <1>r, Zenon DEF PollTx, HwShape
  <2>2. dev'.alloc = dev.alloc /\ dev'.up = dev.up
      BY <1>5, Zenon DEF PollTx
  <2> DEFINE m == Released(Finished)
  <2>3. PICK dma_stuck \in BOOLEAN :
          /\ dma_stuck => hw.hung \/ left.hangs > 0
          /\ left' = [left EXCEPT !.hangs = IF dma_stuck /\ ~hw.hung THEN @ - 1 ELSE @]
          /\ timer' = [timer EXCEPT !.restart = IF dma_stuck THEN TRUE ELSE @ /\ m = 0]
      BY <1>5, ZenonT(60) DEF PollTx
  <2> HIDE DEF m
  <2>4. ~(0 > 0)
      OBVIOUS
  <2>5. env.hangs = 0 => dma_stuck = FALSE
      BY <2>3, <2>4, Zenon
  <2>6. env.hangs = 0 => timer'.restart = FALSE
      BY <2>3, <2>5, ZenonT(60)
  <2>7. LeftShape(left') /\ (env.hangs = 0 => left'.hangs = left.hangs)
    <3> DEFINE h == IF dma_stuck /\ ~hw.hung THEN left.hangs - 1 ELSE left.hangs
    <3>1. left' = [left EXCEPT !.hangs = h]
        BY <2>3, Zenon
    <3>2. env.hangs = 0 => h = left.hangs
        BY <2>5, Zenon
    <3> HIDE DEF h
    <3> QED
        BY <3>1, <3>2, Zenon DEF LeftShape
  <2> QED
      BY <1>5, <2>1, <2>2, <2>6, <2>7, Zenon DEF PollTx
<1>6. CASE PollRx
  <2>1. hw'.txp = hw.txp /\ hw'.rxp = hw.rxp /\ hw'.hung = hw.hung /\ hw'.txe = hw.txe
      BY <1>6, <1>r, Zenon DEF PollRx, HwShape
  <2>2. \/ napi' = napi /\ timer' = timer
        \/ napi' = napi_complete /\ timer' = [timer EXCEPT !.oom = TRUE]
      BY <1>6, Zenon DEF PollRx
  <2>3. LeftShape(left') /\ left'.hangs = left.hangs
      BY <1>6, Zenon DEF PollRx, LeftShape
  <2> QED
      BY <1>6, <1>c, <2>1, <2>2, <2>3 DEF PollRx
<1>7. CASE PollStatus
  <2>1. hw'.txp = hw.txp /\ hw'.rxp = hw.rxp /\ hw'.hung = hw.hung /\ hw'.txe = hw.txe
      BY <1>7, <1>r, Zenon DEF PollStatus, HwShape
  <2> QED
      BY <1>7, <1>c, <2>1, Zenon DEF PollStatus, More
<1>8. CASE PollTxStatus
  <2>1. hw'.txp = hw.txp /\ hw'.rxp = hw.rxp /\ hw'.hung = hw.hung /\ hw'.txe = hw.txe
      BY <1>8, <1>r, Zenon DEF PollTxStatus, HwShape
  <2> QED
      BY <1>8, <1>c, <2>1, Zenon DEF PollTxStatus, More
<1>9. CASE oom_timer_handler
    BY <1>9, <1>0, Zenon DEF oom_timer_handler
<1>10. CASE open
  <2>1. LeftShape(left') /\ left'.hangs = left.hangs
      BY <1>10, Zenon DEF open, LeftShape
  <2>2. hw'.hung = hw.hung
      BY <1>10, <1>r, Zenon DEF open, Enabled, HwShape
  <2> QED
      BY <1>10, <2>1, <2>2, Zenon DEF open, Enabled
<1>11. CASE stop
  <2>1. LeftShape(left') /\ left'.hangs = left.hangs
      BY <1>11, Zenon DEF stop, LeftShape
  <2> QED
      BY <1>11, <1>h, <2>1, Zenon DEF stop, Preemptible, SoftirqIdle
<1>12. CASE restart_work_func
    BY <1>12, <1>h, Zenon DEF restart_work_func, Preemptible, SoftirqIdle
<1>13. CASE NapiDisabled
    BY <1>13, Zenon DEF NapiDisabled
<1>14. CASE rings_cleanup
    BY <1>14, Zenon DEF rings_cleanup, Preemptible, SoftirqIdle
<1>15. CASE RestartEnable
  <2>1. LeftShape(left') /\ left'.hangs = left.hangs
      BY <1>15, ZenonT(60), Zenon DEF RestartEnable, LeftShape
  <2>2. hw'.hung = hw.hung
      BY <1>15, <1>r, ZenonT(60), Zenon DEF RestartEnable, Enabled, HwShape
  <2>3. \/ dev'.alloc /\ dev'.up = dev.up
        \/ dev' = dev /\ hw' = hw
      BY <1>15, ZenonT(60), Zenon DEF RestartEnable
  <2>4. napi' = "idle" \/ napi' = napi
      BY <1>15, ZenonT(60), Zenon DEF RestartEnable, Enabled
  <2>5. job'.pc \notin {"disable", "cleanup", "enable"} /\ (job'.kind = "none" \/ job'.kind = job.kind)
      BY <1>15, Zenon DEF RestartEnable
  <2> QED
      BY <1>15, <2>1, <2>2, <2>3, <2>4, <2>5, ZenonT(60) DEF RestartEnable
<1>16. CASE RestartFlush
  <2>1. /\ hw'.hung = hw.hung /\ hw'.txp = hw.txp /\ hw'.rxp = hw.rxp
        /\ hw'.txe = hw.txe \/ hw'.txe = FALSE
      BY <1>16, <1>h, Zenon DEF RestartFlush
  <2>2. dev'.alloc = dev.alloc /\ dev'.up = dev.up
      BY <1>16, Zenon DEF RestartFlush
  <2>3. timer.restart = FALSE => timer'.restart = FALSE
      BY <1>16, Zenon DEF RestartFlush
  <2> QED
      BY <1>16, <2>1, <2>2, <2>3, Zenon DEF RestartFlush
<1>17. CASE RestartReset
  <2>1. /\ hw.hung = FALSE => hw'.hung = FALSE
        /\ hw'.rxp = hw.rxp
        /\ (hw'.txp = hw.txp /\ hw'.txe = hw.txe) \/ hw'.txe = FALSE
      BY <1>17, <1>r, <1>h, ResetRegisters, Zenon DEF RestartReset
  <2> QED
      BY <1>17, <2>1, Zenon DEF RestartReset
<1>18. CASE tx_timeout
    BY <1>18, Zenon DEF tx_timeout
<1>19. CASE HwTx
  <2> DEFINE d == tx.desc[hw.txp]
             got == IF hw.frame = None THEN [pkt |-> d.seg.pkt, got |-> d.seg.len]
                                       ELSE [hw.frame EXCEPT !.got = @ + d.seg.len]
             a == (hw.txp + 1) % TxSize
             b == hw.ps + 1
             c == IF d.seg.more THEN got ELSE None
  <2>0. IF d.empty THEN hw' = [hw EXCEPT !.txe = FALSE, !.frame = None]
                   ELSE hw' = [hw EXCEPT !.txp = a, !.ps = b, !.frame = c]
      BY <1>19, Zenon DEF HwTx
  <2> HIDE DEF d, a, b, c
  <2>1. hw'.rxp = hw.rxp /\ hw'.hung = hw.hung
      BY <2>0, <1>r, Zenon DEF HwShape
  <2>2. hw.txe /\ hw.txp # None
      BY <1>19, Zenon DEF HwTx
  <2> QED
      BY <1>19, <2>1, <2>2, Zenon DEF HwTx
<1>20. CASE HwRx
  <2> DEFINE a == (hw.rxp + 1) % RxSize
             b == hw.pr + 1
  <2>1. \/ hw' = [hw EXCEPT !.rxe = FALSE, !.of = TRUE]
        \/ hw.rxp # None /\ hw' = [hw EXCEPT !.rxp = a, !.pr = b]
      BY <1>20, Zenon DEF HwRx
  <2> HIDE DEF a, b
  <2>2. /\ hw'.txp = hw.txp /\ hw'.hung = hw.hung /\ hw'.txe = hw.txe
        /\ hw.rxp = None => hw'.rxp = hw.rxp
      BY <2>1, <1>r, Zenon DEF HwShape
  <2> QED
      BY <1>20, <2>2, Zenon DEF HwRx
<1>21. CASE Hang
  <2>1. /\ hw'.txp = hw.txp /\ hw'.rxp = hw.rxp /\ hw'.txe = hw.txe
      BY <1>21, <1>r, Zenon DEF Hang, HwShape
  <2>2. LeftShape(left') /\ env.hangs # 0
      BY <1>21 DEF Hang, LeftShape
  <2> QED
      BY <1>21, <2>1, <2>2, Zenon DEF Hang
<1>22. CASE interrupt
  <2>1. /\ hw'.txp = hw.txp /\ hw'.rxp = hw.rxp /\ hw'.txe = hw.txe /\ hw'.hung = hw.hung
      BY <1>22, <1>r, Zenon DEF interrupt, HwShape
  <2> QED
      BY <1>22, <2>1, <1>0, Zenon DEF interrupt
<1>23. CASE \E link \in BOOLEAN : link_adjust(link)
  <2> PICK link \in BOOLEAN : link_adjust(link)
      BY <1>23, Zenon
  <2>1. /\ hw.hung = FALSE => hw'.hung = FALSE
        /\ hw'.rxp = hw.rxp
        /\ (hw'.txp = hw.txp /\ hw'.txe = hw.txe) \/ hw'.txe = FALSE
      BY <1>r, <1>h, ResetRegisters, Zenon DEF link_adjust
  <2>2. dev'.alloc = dev.alloc /\ dev'.up = dev.up /\ dev.up
      BY Zenon DEF link_adjust
  <2>3. timer.restart = FALSE => timer'.restart = FALSE
      BY Zenon DEF link_adjust
  <2>4. LeftShape(left') /\ left'.hangs = left.hangs
      BY Zenon DEF link_adjust, LeftShape
  <2>5. Calm => job.kind = "none"
      BY <2>2, Zenon DEF link_adjust
  <2> QED
      BY <2>1, <2>2, <2>3, <2>4, <2>5, Zenon DEF link_adjust
<1>24. CASE UNCHANGED vars
    BY <1>24, Zenon DEF vars
<1> QED
    BY Steps, <1>1, <1>2, <1>3, <1>4, <1>5, <1>6, <1>7, <1>8, <1>9, <1>10, <1>11, <1>12, <1>13, <1>14,
       <1>15, <1>16, <1>17, <1>18, <1>19, <1>20, <1>21, <1>22, <1>23, <1>24, ZenonT(60), Zenon

-----------------------------------------------------------------------------
(* The receive ring *)

\* curr is at most a ring ahead of dirty, and empty descriptors have buffers.
RxRing ==
    /\ rx \in [curr: Counter, dirty: Counter, empty: [RxIndex -> BOOLEAN], buf: [RxIndex -> BOOLEAN]]
    /\ Used(rx) <= RxSize
    /\ \A i \in RxIndex : rx.empty[i] => rx.buf[i]

LEMMA RxIndices ==
    ASSUME RxRing
    PROVE  /\ Used(rx) \in 0 .. RxSize
           /\ \A k \in Int : RxAt(k) \in RxIndex
<1>1. Wrap \in Nat \ {0} /\ RxSize \in Nat \ {0}
    BY SizesAssumption, WrapAssumption
<1>2. rx.curr - rx.dirty \in Int /\ rx.dirty \in Int
    BY <1>1 DEF RxRing, Counter
<1>3. Used(rx) \in 0 .. Wrap - 1
    BY <1>1, <1>2, Remainder, Zenon DEF Used
<1>4. ASSUME NEW k \in Int
      PROVE  RxAt(k) \in RxIndex
  <2>1. rx.dirty + k \in Int
      BY <1>2
  <2> QED
      BY <1>1, <2>1, Remainder, Zenon DEF RxAt, RxIndex
<1> QED
    BY <1>1, <1>3, <1>4 DEF RxRing

\* rx_packets takes frames only: as many as there are, up to the limit.
LEMMA TakenFrames ==
    ASSUME RxRing
    PROVE  /\ Taken \in Nat /\ Taken <= RxSize - Used(rx)
           /\ \A j \in 0 .. Taken - 1 : ~rx.empty[RxAt(Used(rx) + j)]
<1> DEFINE u == Used(rx)
           E(k) == rx.empty[RxAt(u + k)]
           T == {k \in Nat : k = Weight \/ u + k = RxSize \/ E(k)}
<1>1. u \in 0 .. RxSize /\ RxSize \in Nat /\ Weight \in Nat
    BY RxIndices, SizesAssumption, Zenon
<1> HIDE DEF u, E
<1>2. Weight \in T /\ RxSize - u \in T
    BY <1>1
<1>3. PICK m \in T : \A y \in T : m <= y
    BY <1>2, LeastNatural, Zenon
<1>4. /\ m \in 0 .. Weight /\ m <= RxSize - u
      /\ \A j \in 0 .. m - 1 : ~E(j)
      /\ m = Weight \/ u + m = RxSize \/ E(m)
  <2>1. m \in Nat /\ m <= Weight /\ m <= RxSize - u
      BY <1>1, <1>2, <1>3, Zenon
  <2>2. ASSUME NEW j \in 0 .. m - 1, E(j)
        PROVE  FALSE
    <3>1. j \in Nat /\ j < m
        BY <2>1
    <3>2. j \in T
        BY <2>2, <3>1, Zenon
    <3> QED
        BY <1>3, <2>1, <3>1, <3>2
  <2>3. m = Weight \/ u + m = RxSize \/ E(m)
      BY <1>3, Zenon
  <2> QED
      BY <1>1, <2>1, <2>2, <2>3
<1>5. \E k \in 0 .. Weight :
          /\ k <= RxSize - u
          /\ \A j \in 0 .. k - 1 : ~E(j)
          /\ k = Weight \/ u + k = RxSize \/ E(k)
    BY <1>4, Zenon
<1>6. /\ Taken \in 0 .. Weight /\ Taken <= RxSize - u
      /\ \A j \in 0 .. Taken - 1 : ~E(j)
    BY <1>5, Zenon DEF Taken, E, u
<1> QED
    BY <1>1, <1>6 DEF E, u

\* The ring after t frames were taken and r descriptors refilled.
LEMMA RefilledRing ==
    ASSUME RxRing, NEW t \in Nat, t <= RxSize - Used(rx),
           \A j \in 0 .. t - 1 : ~rx.empty[RxAt(Used(rx) + j)],
           NEW r \in 0 .. Used(rx) + t
    PROVE  /\ Refilled(t, r) \in [curr: Counter, dirty: Counter, empty: [RxIndex -> BOOLEAN], buf: [RxIndex -> BOOLEAN]]
           /\ Used(Refilled(t, r)) = Used(rx) + t - r
           /\ Refilled(t, r).dirty = (rx.dirty + r) % Wrap
           /\ \A i \in RxIndex : Refilled(t, r).empty[i] = ((\E k \in 0 .. r - 1 : RxAt(k) = i) \/ rx.empty[i])
           /\ \A i \in RxIndex : Refilled(t, r).empty[i] => Refilled(t, r).buf[i]
<1> DEFINE back(i) == \E k \in 0 .. r - 1 : RxAt(k) = i
           gone(i) == \E k \in Used(rx) .. Used(rx) + t - 1 : RxAt(k) = i
           c == (rx.curr + t) % Wrap
           d == (rx.dirty + r) % Wrap
           R == Refilled(t, r)
<1>1. Wrap \in Nat \ {0} /\ Wrap > RxSize /\ RxSize \in Nat
    BY SizesAssumption, WrapAssumption
<1>2. rx.curr \in Int /\ rx.dirty \in Int /\ Used(rx) \in 0 .. RxSize
    BY <1>1, RxIndices DEF RxRing, Counter
<1>3. c \in Counter /\ d \in Counter
  <2>1. rx.curr + t \in Int /\ rx.dirty + r \in Int
      BY <1>2
  <2> QED
      BY <1>1, <2>1, Remainder, Zenon DEF Counter
<1>4. (c - d) % Wrap = Used(rx) + t - r
  <2> DEFINE x == rx.curr + t
             y == rx.dirty + r
             z == rx.curr - rx.dirty
  <2>1. x \in Int /\ y \in Int /\ z \in Int /\ x - y \in Int /\ c \in Int /\ x - y = z + (t - r) /\ t - r \in Int
      BY <1>1, <1>2, <1>3 DEF Counter
  <2>2. (c - d) % Wrap = (c - y) % Wrap
      BY <1>1, <2>1, RemainderSum, Zenon DEF d
  <2>3. (c - y) % Wrap = (x - y) % Wrap
    <3> DEFINE ny == -y
    <3>1. ny \in Int
        BY <2>1
    <3> HIDE DEF ny, x, y
    <3>2. ((x % Wrap) + ny) % Wrap = (x + ny) % Wrap
        BY <1>1, <2>1, <3>1, RemainderSum, Zenon
    <3>3. (x % Wrap) + ny = (x % Wrap) - y /\ x + ny = x - y
        BY <1>1, <2>1, <3>1, Remainder, Zenon DEF ny
    <3> QED
        BY <3>2, <3>3, Zenon DEF x
  <2>4. (z + (t - r)) % Wrap = ((z % Wrap) + (t - r)) % Wrap
      BY <1>1, <2>1, RemainderSum, Zenon
  <2>5. z % Wrap = Used(rx)
      BY Zenon DEF Used
  <2>6. Used(rx) + (t - r) \in 0 .. Wrap - 1 /\ Used(rx) + (t - r) = Used(rx) + t - r
      BY <1>1, <1>2
  <2>7. (Used(rx) + (t - r)) % Wrap = Used(rx) + (t - r)
    <3> DEFINE v == Used(rx) + (t - r)
    <3> HIDE DEF v
    <3>1. v \in 0 .. Wrap - 1
        BY <2>6, Zenon DEF v
    <3>2. (0 * Wrap + v) % Wrap = v /\ 0 * Wrap + v = v
        BY <1>1, <3>1, RemainderUnique
    <3> QED
        BY <3>2, Zenon DEF v
  <2> QED
      BY <2>1, <2>2, <2>3, <2>4, <2>5, <2>6, <2>7, Zenon
<1> HIDE DEF c, d
<1>5. R = [curr |-> c, dirty |-> d, empty |-> [i \in RxIndex |-> back(i) \/ rx.empty[i]],
           buf |-> [i \in RxIndex |-> back(i) \/ (rx.buf[i] /\ ~gone(i))]]
    BY Zenon DEF Refilled, c, d
<1>6. ASSUME NEW i \in RxIndex, rx.empty[i]
      PROVE  rx.buf[i] /\ ~gone(i)
  <2>1. \A k \in Used(rx) .. Used(rx) + t - 1 : \E j \in 0 .. t - 1 : k = Used(rx) + j
    <3> TAKE k \in Used(rx) .. Used(rx) + t - 1
    <3>1. k - Used(rx) \in 0 .. t - 1 /\ k = Used(rx) + (k - Used(rx))
        BY <1>2
    <3> QED
        BY <3>1, Zenon
  <2> QED
      BY <1>6, <2>1, Zenon DEF RxRing
<1> HIDE DEF back, gone
<1>7. R \in [curr: Counter, dirty: Counter, empty: [RxIndex -> BOOLEAN], buf: [RxIndex -> BOOLEAN]]
    BY <1>3, <1>5
<1>8. /\ R.curr = c /\ R.dirty = d
      /\ \A i \in RxIndex : R.empty[i] = (back(i) \/ rx.empty[i]) /\ R.buf[i] = (back(i) \/ (rx.buf[i] /\ ~gone(i)))
    BY <1>5
<1>9. Used(R) = Used(rx) + t - r
    BY <1>4, <1>8, Zenon DEF Used
<1> QED
    BY <1>6, <1>7, <1>8, <1>9, Zenon DEF back, d

LEMMA EmptyRings ==
    ASSUME NEW n \in Nat
    PROVE  LET part == [NoRx EXCEPT !.empty = [i \in RxIndex |-> i < n], !.buf = [i \in RxIndex |-> i < n]]
           IN  \A ring \in {EmptyRx, NoRx, part} :
                  /\ ring \in [curr: Counter, dirty: Counter, empty: [RxIndex -> BOOLEAN], buf: [RxIndex -> BOOLEAN]]
                  /\ Used(ring) = 0 /\ ring.dirty = 0
                  /\ \A i \in RxIndex : ring.empty[i] => ring.buf[i]
<1>1. Wrap \in Nat \ {0} /\ 0 \in Counter
    BY SizesAssumption, WrapAssumption DEF Counter
<1>2. (0 - 0) % Wrap = 0
  <2>1. (0 * Wrap + 0) % Wrap = 0
      BY <1>1, RemainderUnique
  <2> QED
      BY <1>1, <2>1
<1>3. ASSUME NEW f \in [RxIndex -> BOOLEAN],
             NEW ring \in [curr: {0}, dirty: {0}, empty: {f}, buf: {f}]
      PROVE  /\ ring \in [curr: Counter, dirty: Counter, empty: [RxIndex -> BOOLEAN], buf: [RxIndex -> BOOLEAN]]
             /\ Used(ring) = 0 /\ ring.dirty = 0
             /\ \A i \in RxIndex : ring.empty[i] => ring.buf[i]
    BY <1>1, <1>2, <1>3, Zenon DEF Used
<1> DEFINE T == [i \in RxIndex |-> TRUE]
           F == [i \in RxIndex |-> FALSE]
           L == [i \in RxIndex |-> i < n]
<1>4. T \in [RxIndex -> BOOLEAN] /\ F \in [RxIndex -> BOOLEAN] /\ L \in [RxIndex -> BOOLEAN]
    OBVIOUS
<1>5. /\ EmptyRx \in [curr: {0}, dirty: {0}, empty: {T}, buf: {T}]
      /\ NoRx \in [curr: {0}, dirty: {0}, empty: {F}, buf: {F}]
    BY Zenon DEF EmptyRx, NoRx
<1> HIDE DEF T, F, L
<1>6. [NoRx EXCEPT !.empty = L, !.buf = L] \in [curr: {0}, dirty: {0}, empty: {L}, buf: {L}]
    BY <1>5, Zenon
<1>7. [NoRx EXCEPT !.empty = [i \in RxIndex |-> i < n], !.buf = [i \in RxIndex |-> i < n]]
        \in [curr: {0}, dirty: {0}, empty: {L}, buf: {L}]
    BY <1>6, Zenon DEF L
<1> DEFINE part == [NoRx EXCEPT !.empty = [i \in RxIndex |-> i < n], !.buf = [i \in RxIndex |-> i < n]]
           Good(ring) ==
               /\ ring \in [curr: Counter, dirty: Counter, empty: [RxIndex -> BOOLEAN], buf: [RxIndex -> BOOLEAN]]
               /\ Used(ring) = 0 /\ ring.dirty = 0
               /\ \A i \in RxIndex : ring.empty[i] => ring.buf[i]
<1>8. ASSUME NEW f \in [RxIndex -> BOOLEAN], NEW ring \in [curr: {0}, dirty: {0}, empty: {f}, buf: {f}]
      PROVE  Good(ring)
    BY <1>3, Zenon
<1> HIDE DEF Good
<1>9. Good(EmptyRx) /\ Good(NoRx)
    BY <1>4, <1>5, <1>8, Zenon
<1>10. Good(part)
  <2> HIDE DEF part
  <2>1. part \in [curr: {0}, dirty: {0}, empty: {L}, buf: {L}]
      BY <1>7, Zenon DEF part
  <2> QED
      BY <1>4, <2>1, <1>8, Zenon
<1>11. \A ring \in {EmptyRx, NoRx, part} : Good(ring)
  <2> HIDE DEF part
  <2> QED
      BY <1>9, <1>10, Zenon
<1> QED
    BY <1>11, Zenon DEF Good

LEMMA RxRingInit == Init => RxRing
<1>1. /\ NoRx \in [curr: Counter, dirty: Counter, empty: [RxIndex -> BOOLEAN], buf: [RxIndex -> BOOLEAN]]
      /\ Used(NoRx) = 0
      /\ \A i \in RxIndex : NoRx.empty[i] => NoRx.buf[i]
  <2>1. 0 \in Nat
      BY Zenon
  <2> QED
      BY <2>1, EmptyRings, Zenon
<1> QED
    BY <1>1, SizesAssumption DEF Init, RxRing

\* Only these touch the receive ring.
LEMMA RxSteps ==
    ASSUME [Next]_vars
    PROVE  PollRx \/ HwRx \/ open \/ rings_cleanup \/ RestartEnable \/ UNCHANGED rx
BY Steps, Zenon DEF hard_start_xmit, fill_dma_desc, Inject, Kick, PollTx, PollStatus, PollTxStatus, oom_timer_handler,
             stop, restart_work_func, NapiDisabled, RestartFlush, RestartReset, tx_timeout, HwTx, Hang, interrupt,
             link_adjust, vars

\* What PollRx does with the ring.
LEMMA PollRxRing ==
    ASSUME RxRing, PollRx
    PROVE  \/ rx' = rx
           \/ \E r \in 0 .. Used(rx) + Taken : rx' = Refilled(Taken, r)
BY Zenon DEF PollRx

LEMMA RxRingNext ==
    ASSUME RxRing, [Next]_vars
    PROVE  RxRing'
<1>1. CASE PollRx
  <2>1. CASE rx' = rx
      BY <2>1, Zenon DEF RxRing, Used
  <2>2. CASE \E r \in 0 .. Used(rx) + Taken : rx' = Refilled(Taken, r)
    <3> PICK r \in 0 .. Used(rx) + Taken : rx' = Refilled(Taken, r)
        BY <2>2, Zenon
    <3>1. /\ Refilled(Taken, r) \in [curr: Counter, dirty: Counter, empty: [RxIndex -> BOOLEAN], buf: [RxIndex -> BOOLEAN]]
          /\ Used(Refilled(Taken, r)) = Used(rx) + Taken - r
          /\ \A i \in RxIndex : Refilled(Taken, r).empty[i] => Refilled(Taken, r).buf[i]
        BY TakenFrames, RefilledRing, Zenon
    <3>2. Used(rx) + Taken - r <= RxSize
        BY TakenFrames, RxIndices, SizesAssumption
    <3> QED
        BY <3>1, <3>2, Zenon DEF RxRing
  <2> QED
      BY <1>1, <2>1, <2>2, PollRxRing, Zenon
<1>2. CASE HwRx
  <2>1. rx' = rx \/ rx' = [rx EXCEPT !.empty[hw.rxp] = FALSE]
      BY <1>2, Zenon DEF HwRx
  <2>2. /\ rx' \in [curr: Counter, dirty: Counter, empty: [RxIndex -> BOOLEAN], buf: [RxIndex -> BOOLEAN]]
        /\ rx'.curr = rx.curr /\ rx'.dirty = rx.dirty /\ rx'.buf = rx.buf
        /\ \A i \in RxIndex : rx'.empty[i] => rx.empty[i]
      BY <2>1, ZenonT(60), Zenon DEF RxRing
  <2> QED
      BY <2>2, Zenon DEF RxRing, Used
<1>3. CASE open \/ rings_cleanup \/ RestartEnable
  <2>1. \/ rx' = rx \/ rx' = EmptyRx \/ rx' = NoRx
        \/ \E n \in Nat : rx' = [NoRx EXCEPT !.empty = [i \in RxIndex |-> i < n], !.buf = [i \in RxIndex |-> i < n]]
    <3>1. CASE open \/ rings_cleanup
        BY <3>1, Zenon DEF open, rings_cleanup, Enabled
    <3>2. CASE RestartEnable
      <4>1. \/ rx' = EmptyRx \/ rx' = rx
            \/ \E n \in 0 .. RxSize - 1 :
                  rx' = [NoRx EXCEPT !.empty = [i \in RxIndex |-> i < n], !.buf = [i \in RxIndex |-> i < n]]
          BY <3>2, Zenon DEF RestartEnable, Enabled
      <4>2. 0 .. RxSize - 1 \subseteq Nat
          BY SizesAssumption
      <4> QED
          BY <4>1, <4>2, Zenon
    <3> QED
        BY <1>3, <3>1, <3>2, Zenon
  <2>2. CASE rx' = rx
      BY <2>2 DEF RxRing, Used
  <2>3. CASE rx' # rx
    <3>1. /\ rx' \in [curr: Counter, dirty: Counter, empty: [RxIndex -> BOOLEAN], buf: [RxIndex -> BOOLEAN]]
          /\ Used(rx') = 0
          /\ \A i \in RxIndex : rx'.empty[i] => rx'.buf[i]
        BY <2>1, <2>3, EmptyRings, Zenon
    <3> QED
        BY <3>1, SizesAssumption, SMTT(30) DEF RxRing
  <2> QED
      BY <2>2, <2>3, Zenon
<1>4. CASE UNCHANGED rx
    BY <1>4, Zenon DEF RxRing, Used
<1> QED
    BY RxSteps, <1>1, <1>2, <1>3, <1>4, Zenon

\* A descriptor that the receive engine may use has a buffer, and no engine is
\* at work in rings that are not there, as long as nothing disturbs a restart:
\* the buffers are given back and the rings freed in the right order.
THEOREM EnginesHaveBuffers == Spec => [](Calm => BuffersThere)
<1> DEFINE Inv == Control /\ PollOrInterrupt /\ Engines /\ RxRing
<1>1. Init => Inv
    BY ControlInit, EnginesInit, RxRingInit, Zenon
<1>2. Inv /\ [Next]_vars => Inv'
    BY ControlNext, EnginesNext, RxRingNext, Zenon
<1>3. Inv => (Calm => BuffersThere)
    BY Zenon DEF Control, Engines, RxRing, BuffersThere
<1> QED
    BY <1>1, <1>2, <1>3, PTL DEF Spec

\* The descriptors of the ring in the order in which reception goes round.
LEMMA RxAround ==
    ASSUME NEW d \in Int
    PROVE  /\ \A m \in Int : (d + m) % RxSize \in RxIndex
           /\ \A m \in Int : (d + (m + RxSize)) % RxSize = (d + m) % RxSize
           /\ \A m \in Int : (((d + m) % RxSize) + 1) % RxSize = (d + (m + 1)) % RxSize
           /\ \A m, l \in Int : m - l < RxSize /\ l - m < RxSize /\ (d + m) % RxSize = (d + l) % RxSize => m = l
           /\ \A m, r \in Int : (((d + r) % Wrap) + m) % RxSize = (d + (r + m)) % RxSize
<1>1. RxSize \in Nat \ {0} /\ Wrap \in Nat \ {0} /\ Wrap % RxSize = 0
    BY SizesAssumption, WrapAssumption
<1>2. ASSUME NEW m \in Int
      PROVE  /\ (d + m) % RxSize \in RxIndex
             /\ (d + (m + RxSize)) % RxSize = (d + m) % RxSize
             /\ (((d + m) % RxSize) + 1) % RxSize = (d + (m + 1)) % RxSize
  <2> DEFINE a == d + m
             one == 1
  <2>1. a \in Int /\ d + (m + RxSize) = a + one * RxSize /\ d + (m + 1) = a + one /\ one \in Int
      BY <1>1
  <2> HIDE DEF a, one
  <2>2. a % RxSize \in RxIndex
      BY <1>1, <2>1, Remainder, Zenon DEF RxIndex
  <2>3. (a + one * RxSize) % RxSize = a % RxSize
      BY <1>1, <2>1, SameRemainder, Zenon
  <2>4. ((a % RxSize) + one) % RxSize = (a + one) % RxSize
      BY <1>1, <2>1, RemainderSum, Zenon
  <2> QED
      BY <2>1, <2>2, <2>3, <2>4, Zenon DEF a, one
<1>3. ASSUME NEW m \in Int, NEW l \in Int, m - l < RxSize, l - m < RxSize, (d + m) % RxSize = (d + l) % RxSize
      PROVE  m = l
  <2> DEFINE a == d + m
             b == d + l
  <2>1. a \in Int /\ b \in Int /\ a - b < RxSize /\ b - a < RxSize /\ a % RxSize = b % RxSize
      BY <1>1, <1>3
  <2>2. a = b => m = l
      OBVIOUS
  <2> HIDE DEF a, b
  <2> QED
      BY <1>1, <2>1, <2>2, RemainderApart, Zenon
<1>4. ASSUME NEW m \in Int, NEW r \in Int
      PROVE  (((d + r) % Wrap) + m) % RxSize = (d + (r + m)) % RxSize
  <2> DEFINE a == d + r
             b == a % Wrap
  <2>1. a \in Int /\ d + (r + m) = a + m
      OBVIOUS
  <2> HIDE DEF a
  <2>0. b \in Int
      BY <1>1, <2>1, Remainder
  <2>2. b \in Int /\ b % RxSize = a % RxSize
      BY <1>1, <2>0, <2>1, RemainderRemainder, Zenon
  <2> HIDE DEF b
  <2>3. (b + m) % RxSize = ((b % RxSize) + m) % RxSize
      BY <1>1, <2>2, RemainderSum, Zenon
  <2>4. (a + m) % RxSize = ((a % RxSize) + m) % RxSize
      BY <1>1, <2>1, RemainderSum, Zenon
  <2> QED
      BY <2>1, <2>2, <2>3, <2>4, Zenon DEF a, b
<1> QED
    BY <1>2, <1>3, <1>4, Zenon

\* A frame is stored: the engine moves on by one descriptor.
LEMMA StoredInStep ==
    ASSUME RxRing, RxInStep, dev.alloc, hw.rxp # None, rx.empty[hw.rxp],
           dev' = dev, rx' = [rx EXCEPT !.empty[hw.rxp] = FALSE], hw'.rxp = (hw.rxp + 1) % RxSize
    PROVE  RxInStep'
<1> DEFINE u == Used(rx)
           d == rx.dirty
           At(m) == (d + m) % RxSize
<1>1. RxSize \in Nat \ {0} /\ d \in Int /\ u \in 0 .. RxSize
    BY RxIndices, SizesAssumption, WrapAssumption DEF RxRing, Counter
<1>2. /\ \A m \in Int : At(m) \in RxIndex
      /\ \A m \in Int : At(m + RxSize) = At(m)
      /\ \A m \in Int : (At(m) + 1) % RxSize = At(m + 1)
      /\ \A m, l \in Int : m - l < RxSize /\ l - m < RxSize /\ At(m) = At(l) => m = l
    BY <1>1, RxAround, Zenon
<1>3. PICK k \in 0 .. RxSize - u :
          /\ hw.rxp = At(u + k)
          /\ \A j \in 0 .. RxSize - 1 : rx.empty[At(j)] <=> j >= u + k
    BY Zenon DEF RxInStep, RxAt
<1>4. /\ rx'.dirty = d /\ Used(rx') = u
      /\ \A i \in RxIndex : rx'.empty[i] = IF i = hw.rxp THEN FALSE ELSE rx.empty[i]
    BY Zenon DEF RxRing, Used
<1>5. \A m : RxAt(m)' = At(m)
    BY <1>4, Zenon DEF RxAt
<1> HIDE DEF u, d, At
<1>6. u + k < RxSize
  <2>1. CASE u + k = RxSize
    <3>1. At(0 + RxSize) = At(0) /\ 0 + RxSize = u + k
        BY <1>1, <1>2, <2>1
    <3>2. rx.empty[At(0)]
        BY <1>3, <3>1, Zenon
    <3> QED
        BY <1>1, <1>3, <2>1, <3>2
  <2> QED
      BY <1>1, <1>3, <2>1
<1>7. hw'.rxp = At(u + (k + 1))
  <2>1. u + k \in Int /\ (u + k) + 1 = u + (k + 1)
      BY <1>1, <1>3
  <2> QED
      BY <1>2, <1>3, <2>1, Zenon
<1>8. ASSUME NEW j \in 0 .. RxSize - 1
      PROVE  rx'.empty[At(j)] <=> j >= u + (k + 1)
  <2>1. At(j) \in RxIndex /\ (rx.empty[At(j)] <=> j >= u + k)
      BY <1>1, <1>2, <1>3
  <2>2. At(j) = hw.rxp <=> j = u + k
    <3>1. u + k \in Int /\ j \in Int /\ j - (u + k) < RxSize /\ (u + k) - j < RxSize
        BY <1>1, <1>3, <1>6
    <3> QED
        BY <1>2, <1>3, <3>1
  <2>3. rx'.empty[At(j)] <=> (j # u + k /\ j >= u + k)
      BY <1>4, <2>1, <2>2, Zenon
  <2> QED
      BY <1>1, <1>3, <2>3
<1>9. k + 1 \in 0 .. RxSize - u
    BY <1>1, <1>3, <1>6
<1>10. Used(rx') = u /\ \E n \in 0 .. RxSize - u :
          /\ hw'.rxp = At(u + n)
          /\ \A j \in 0 .. RxSize - 1 : rx'.empty[At(j)] <=> j >= u + n
    BY <1>4, <1>7, <1>8, <1>9, Zenon
<1> QED
    BY <1>5, <1>10, ZenonT(60) DEF RxInStep

\* rx_packets takes t frames and gives r descriptors back.
LEMMA RefilledInStep ==
    ASSUME RxRing, RxInStep, dev' = dev, hw'.rxp = hw.rxp,
           NEW r \in 0 .. Used(rx) + Taken, rx' = Refilled(Taken, r)
    PROVE  RxInStep'
<1> DEFINE u == Used(rx)
           d == rx.dirty
           t == Taken
           At(m) == (d + m) % RxSize
<1>1. /\ RxSize \in Nat \ {0} /\ d \in Int /\ u \in 0 .. RxSize
      /\ t \in Nat /\ t <= RxSize - u /\ r \in 0 .. u + t
    BY RxIndices, TakenFrames, SizesAssumption, WrapAssumption DEF RxRing, Counter
<1>2. /\ \A m \in Int : At(m) \in RxIndex
      /\ \A m \in Int : At(m + RxSize) = At(m)
      /\ \A m, l \in Int : m - l < RxSize /\ l - m < RxSize /\ At(m) = At(l) => m = l
    BY <1>1, RxAround, Zenon
<1>3. /\ rx'.dirty = (d + r) % Wrap /\ Used(rx') = u + t - r
      /\ \A i \in RxIndex : rx'.empty[i] = ((\E m \in 0 .. r - 1 : At(m) = i) \/ rx.empty[i])
    BY TakenFrames, RefilledRing, Zenon DEF RxAt
<1> DEFINE v == Used(rx')
           Nx(m) == (rx'.dirty + m) % RxSize
<1>4. \A m \in Int : Nx(m) = At(r + m)
  <2>1. r \in Int
      BY <1>1
  <2>2. \A m, l \in Int : (((d + l) % Wrap) + m) % RxSize = (d + (l + m)) % RxSize
      BY <1>1, RxAround, Zenon
  <2> QED
      BY <1>3, <2>1, <2>2, Zenon
<1>5. SUFFICES ASSUME dev.alloc, hw.rxp # None
               PROVE  \E n \in 0 .. RxSize - v :
                         /\ hw.rxp = Nx(v + n)
                         /\ \A j \in 0 .. RxSize - 1 : rx'.empty[Nx(j)] <=> j >= v + n
    BY Zenon DEF RxInStep, RxAt
<1>6. PICK k \in 0 .. RxSize - u :
          /\ hw.rxp = At(u + k)
          /\ \A j \in 0 .. RxSize - 1 : rx.empty[At(j)] <=> j >= u + k
    BY <1>5, Zenon DEF RxInStep, RxAt
<1>7. \A j \in 0 .. t - 1 : ~rx.empty[At(u + j)]
    BY TakenFrames, Zenon DEF RxAt
<1>v. v = u + t - r
    BY <1>3, Zenon
<1> HIDE DEF u, d, t, At, v, Nx
<1>8. t <= k
  <2>1. CASE t > k
    <3>1. k \in 0 .. t - 1 /\ u + k \in 0 .. RxSize - 1
        BY <1>1, <1>6, <2>1
    <3> QED
        BY <1>6, <1>7, <3>1
  <2> QED
      BY <1>1, <1>6, <2>1
<1> DEFINE n == k - t
<1>9. /\ n \in 0 .. RxSize - v /\ v + n \in Int
      /\ r + (v + n) = u + k /\ v + n = u + k - r /\ u + k <= RxSize
    BY <1>1, <1>6, <1>8, <1>v
<1>10. ASSUME NEW j \in 0 .. RxSize - 1
       PROVE  rx'.empty[At(r + j)] <=> j >= u + k - r
  <2>0. r + j \in Int /\ r \in Nat
      BY <1>1
  <2>1. rx'.empty[At(r + j)] <=> (\E m \in 0 .. r - 1 : At(m) = At(r + j)) \/ rx.empty[At(r + j)]
      BY <1>2, <1>3, <2>0, Zenon
  <2>2. CASE r + j < RxSize
    <3>1. r + j \in 0 .. RxSize - 1
        BY <1>1, <2>0, <2>2
    <3>2. ASSUME NEW m \in 0 .. r - 1, At(m) = At(r + j)
          PROVE  FALSE
      <4>1. m \in Int /\ m - (r + j) < RxSize /\ (r + j) - m < RxSize /\ m # r + j
          BY <1>1, <2>0, <2>2
      <4> QED
          BY <1>2, <2>0, <3>2, <4>1, Zenon
    <3>3. rx'.empty[At(r + j)] <=> r + j >= u + k
        BY <1>6, <2>1, <3>1, <3>2, Zenon
    <3> QED
        BY <1>1, <1>6, <3>3
  <2>3. CASE r + j >= RxSize
    <3> DEFINE m == r + j - RxSize
    <3>1. m \in 0 .. r - 1 /\ m \in Int /\ m + RxSize = r + j
        BY <1>1, <2>0, <2>3
    <3> HIDE DEF m
    <3>2. At(m) = At(r + j)
        BY <1>2, <3>1, Zenon
    <3>3. rx'.empty[At(r + j)]
        BY <2>1, <3>1, <3>2, Zenon
    <3> QED
        BY <1>1, <1>6, <1>9, <2>3, <3>3
  <2> QED
      BY <1>1, <2>0, <2>2, <2>3
<1>11. hw.rxp = Nx(v + n)
    BY <1>4, <1>6, <1>9, Zenon
<1>12. ASSUME NEW j \in 0 .. RxSize - 1
       PROVE  rx'.empty[Nx(j)] <=> j >= v + n
  <2>1. j \in Int
      BY <1>1
  <2> QED
      BY <1>4, <1>9, <1>10, <2>1, Zenon
<1> HIDE DEF n
<1> QED
    BY <1>9, <1>11, <1>12, Zenon

\* All other steps leave reception where it is, or take the ring from the engine.
LEMMA RxpSteps ==
    ASSUME Control, [Next]_vars
    PROVE  \/ PollRx \/ HwRx \/ open \/ rings_cleanup \/ RestartEnable
           \/ UNCHANGED rx /\ dev'.alloc = dev.alloc /\ (hw'.rxp = hw.rxp \/ hw'.rxp = None)
<1>r. HwShape(hw)
    BY Zenon DEF Control
<1>h. hw_start(hw).rxp = hw.rxp /\ hw_stop(hw).rxp = hw.rxp /\ Disable(hw).rxp = None
    BY <1>r, Registers, Zenon
<1> USE DEF Control
<1>1. CASE \/ \E len \in Lengths : hard_start_xmit(len)
           \/ fill_dma_desc \/ Inject \/ oom_timer_handler \/ tx_timeout \/ NapiDisabled \/ UNCHANGED vars
    BY <1>1, Zenon DEF hard_start_xmit, fill_dma_desc, Inject, oom_timer_handler, tx_timeout, NapiDisabled, vars
<1>2. CASE Kick \/ PollTx
    BY <1>2, <1>r, Zenon DEF Kick, PollTx, HwShape
<1>3. CASE PollStatus \/ PollTxStatus \/ Hang \/ interrupt
    BY <1>3, <1>r, Zenon DEF PollStatus, PollTxStatus, Hang, interrupt, HwShape
<1>4. CASE stop \/ restart_work_func
    BY <1>4, <1>h, ZenonT(60) DEF stop, restart_work_func
<1>5. CASE RestartFlush
    BY <1>5, <1>h, Zenon DEF RestartFlush
<1>6. CASE RestartReset
    BY <1>6, <1>r, <1>h, ResetRegisters, Zenon DEF RestartReset
<1>7. CASE HwTx
  <2> DEFINE d == tx.desc[hw.txp]
             got == IF hw.frame = None THEN [pkt |-> d.seg.pkt, got |-> d.seg.len]
                                       ELSE [hw.frame EXCEPT !.got = @ + d.seg.len]
             a == (hw.txp + 1) % TxSize
             b == hw.ps + 1
             c == IF d.seg.more THEN got ELSE None
  <2>1. IF d.empty THEN hw' = [hw EXCEPT !.txe = FALSE, !.frame = None]
                   ELSE hw' = [hw EXCEPT !.txp = a, !.ps = b, !.frame = c]
      BY <1>7, Zenon DEF HwTx
  <2> HIDE DEF d, a, b, c
  <2>2. hw'.rxp = hw.rxp
      BY <2>1, <1>r, Zenon DEF HwShape
  <2> QED
      BY <1>7, <2>2, Zenon DEF HwTx
<1>8. CASE \E link \in BOOLEAN : link_adjust(link)
  <2> PICK link \in BOOLEAN : link_adjust(link)
      BY <1>8, Zenon
  <2>1. hw'.rxp = hw.rxp
      BY <1>r, <1>h, ResetRegisters, Zenon DEF link_adjust
  <2>2. dev'.alloc = dev.alloc /\ rx' = rx
      BY Zenon DEF link_adjust
  <2> QED
      BY <2>1, <2>2, Zenon
<1> QED
    BY Steps, <1>1, <1>2, <1>3, <1>4, <1>5, <1>6, <1>7, <1>8, Zenon

LEMMA InStepNext ==
    ASSUME Control, Engines, RxRing, Calm => RxInStep, [Next]_vars, Calm
    PROVE  RxInStep'
<1>r. HwShape(hw)
    BY Zenon DEF Control
<1>s. ASSUME rx' = rx, dev'.alloc = dev.alloc, hw'.rxp = hw.rxp \/ hw'.rxp = None
      PROVE  RxInStep'
    BY <1>s, Zenon DEF RxInStep, RxAt, Used
<1>1. CASE PollRx
  <2>1. hw'.rxp = hw.rxp
      BY <1>1, <1>r, Zenon DEF PollRx, HwShape
  <2>2. dev' = dev
      BY <1>1, Zenon DEF PollRx
  <2>3. CASE rx' = rx
      BY <1>s, <2>1, <2>2, <2>3, Zenon
  <2>4. CASE \E r \in 0 .. Used(rx) + Taken : rx' = Refilled(Taken, r)
      BY <2>1, <2>2, <2>4, RefilledInStep, Zenon
  <2> QED
      BY <1>1, <2>3, <2>4, PollRxRing, Zenon
<1>2. CASE HwRx
  <2> DEFINE a == (hw.rxp + 1) % RxSize
             b == hw.pr + 1
             stored == hw.rxp # None /\ rx.empty[hw.rxp]
  <2>1. /\ dev' = dev
        /\ IF stored THEN rx' = [rx EXCEPT !.empty[hw.rxp] = FALSE] /\ hw' = [hw EXCEPT !.rxp = a, !.pr = b]
                     ELSE rx' = rx /\ hw' = [hw EXCEPT !.rxe = FALSE, !.of = TRUE]
      BY <1>2, Zenon DEF HwRx
  <2>2. CASE ~stored
    <3>1. hw'.rxp = hw.rxp /\ rx' = rx
        BY <1>r, <2>1, <2>2, Zenon DEF HwShape
    <3> QED
        BY <1>s, <2>1, <3>1, Zenon
  <2>3. CASE stored
    <3> HIDE DEF a, b
    <3>1. hw'.rxp = a
        BY <1>r, <2>1, <2>3, Zenon DEF HwShape
    <3>2. CASE dev.alloc
        BY <2>1, <2>3, <3>1, <3>2, StoredInStep, Zenon DEF a
    <3>3. CASE ~dev.alloc
        BY <2>1, <3>3, Zenon DEF RxInStep
    <3> QED
        BY <3>2, <3>3, Zenon
  <2> QED
      BY <2>2, <2>3, Zenon
<1>3. ASSUME rx' = EmptyRx, hw'.rxp = 0
      PROVE  RxInStep'
  <2>1. RxSize \in Nat \ {0}
      BY SizesAssumption, Zenon
  <2>z. 0 \in Nat
      BY Zenon
  <2>2. Used(EmptyRx) = 0 /\ EmptyRx.dirty = 0
      BY <2>z, EmptyRings, ZenonT(60), Zenon
  <2>3. \A i \in RxIndex : EmptyRx.empty[i]
      BY Zenon DEF EmptyRx
  <2>4. \A j \in 0 .. RxSize - 1 : (0 + j) % RxSize \in RxIndex
    <3> TAKE j \in 0 .. RxSize - 1
    <3> DEFINE a == 0 + j
    <3>1. a \in Int
        BY <2>1
    <3> HIDE DEF a
    <3>2. a % RxSize \in RxIndex
        BY <2>1, <3>1, Remainder, Zenon DEF RxIndex
    <3> QED
        BY <3>2, Zenon DEF a
  <2>5. (0 + (0 + 0)) % RxSize = 0
      BY <2>1
  <2>6. /\ 0 \in 0 .. RxSize - 0
        /\ hw'.rxp = (0 + (0 + 0)) % RxSize
        /\ \A j \in 0 .. RxSize - 1 : rx'.empty[(0 + j) % RxSize] <=> j >= 0 + 0
      BY <1>3, <2>1, <2>3, <2>4, <2>5
  <2> QED
      BY <1>3, <2>2, <2>6, Zenon DEF RxInStep, RxAt
<1>4. CASE open
  <2>1. CASE rx' = rx /\ hw' = hw /\ dev' = dev
      BY <1>s, <2>1, Zenon
  <2>2. CASE Enabled
      BY <1>r, <1>3, <2>2, Zenon DEF Enabled, HwShape
  <2> QED
      BY <1>4, <2>1, <2>2, Zenon DEF open
<1>5. CASE rings_cleanup
    BY <1>5, Zenon DEF rings_cleanup, RxInStep, Control
<1>6. CASE RestartEnable
  <2>1. CASE hw' = hw
      BY <1>6, <2>1, Zenon DEF RestartEnable, Engines, RxInStep
  <2>2. CASE Enabled
      BY <1>r, <1>3, <2>2 DEF Enabled, HwShape
  <2> QED
      BY <1>6, <2>1, <2>2, ZenonT(60), Zenon DEF RestartEnable
<1> QED
    BY RxpSteps, <1>s, <1>1, <1>2, <1>4, <1>5, <1>6, Zenon

\* The receive engine is where rx_packets expects it, for rings of every size and
\* counters that wrap, as long as nothing disturbs a restart: taking, refilling,
\* overflows, resets of the MAC and failing allocations never put ring and engine
\* out of step.
THEOREM ReceptionInStep == Spec => [](Calm => RxInStep)
<1> DEFINE Inv == Control /\ PollOrInterrupt /\ Engines /\ RxRing /\ (Calm => RxInStep)
<1>1. Init => Inv
  <2>1. Init => RxInStep
      BY DEF Init, RxInStep
  <2> QED
      BY <2>1, ControlInit, EnginesInit, RxRingInit, Zenon
<1>2. Inv /\ [Next]_vars => Inv'
  <2>1. ASSUME Inv, [Next]_vars
        PROVE  Calm' => Calm
      BY <2>1, Steps, Zenon DEF Calm, hard_start_xmit, fill_dma_desc, Inject, Kick, PollTx, PollRx, PollStatus, PollTxStatus,
             oom_timer_handler, open, stop, restart_work_func, NapiDisabled, rings_cleanup, RestartEnable,
             RestartFlush, RestartReset, tx_timeout, HwTx, HwRx, Hang, interrupt, link_adjust, vars
  <2> QED
      BY <2>1, ControlNext, EnginesNext, RxRingNext, InStepNext, Zenon
<1>3. Inv => (Calm => RxInStep)
    BY Zenon
<1> QED
    BY <1>1, <1>2, <1>3, PTL DEF Spec
=============================================================================
