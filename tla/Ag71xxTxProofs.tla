--------------------------- MODULE Ag71xxTxProofs ---------------------------
(***************************************************************************)
(* Proofs about the transmit ring of Ag71xx: the segments a packet is cut  *)
(* into, the types of all variables, and the room that the queue leaves.   *)
(***************************************************************************)
EXTENDS Ag71xxProofs

-----------------------------------------------------------------------------
(* Segments *)

\* A piece that fill_dma_desc cuts off a packet of more than 4 bytes has more
\* than 4 bytes and fits a descriptor, and so does what is left for the next one.
LEMMA PieceLength ==
    ASSUME NEW split \in Nat, split = 0 \/ split > 8, NEW len \in Nat, len > 4
    PROVE  /\ cur_len(split, len) \in Nat
           /\ cur_len(split, len) > 4
           /\ split > 0 => cur_len(split, len) <= split
           /\ cur_len(split, len) = len \/ len - cur_len(split, len) > 4
           /\ cur_len(split, len) <= len
BY DEF cur_len

DescShape(d) == d \in [empty: {d.empty}, seg: {d.seg}]

TxShape(t) ==
    /\ t \in [curr: {t.curr}, dirty: {t.dirty}, desc: {t.desc}, skb: {t.skb}]
    /\ t.desc = [i \in TxIndex |-> t.desc[i]]
    /\ \A i \in TxIndex : DescShape(t.desc[i])

\* The part of a packet that is not in a descriptor yet has more than 4 bytes.
Rest == XmitShape(xmit) /\ (xmit.pc = "fill" => xmit.len \in Nat /\ xmit.len > 4)

LongEnough(seg) == seg # None => seg.len > 4 /\ (env.split > 0 => seg.len <= env.split)

\* Descriptors are left alone or freed.
LEMMA KeptSegments ==
    ASSUME TxShape(tx), SegmentsLong, NEW t, TxShape(t),
           \A i \in TxIndex : t.desc[i].seg \in {None, tx.desc[i].seg}
    PROVE  \A i \in TxIndex : LongEnough(t.desc[i].seg)
BY Zenon DEF SegmentsLong, LongEnough

LEMMA ReapedShape ==
    ASSUME TxShape(tx), NEW m
    PROVE  /\ TxShape(Reaped(m))
           /\ \A i \in TxIndex : Reaped(m).desc[i].seg \in {None, tx.desc[i].seg}
<1> DEFINE D == [i \in TxIndex |-> IF \E k \in 0 .. m - 1 : TxAt(k) = i THEN Free ELSE tx.desc[i]]
           S == [i \in TxIndex |-> IF \E k \in 0 .. m - 1 : TxAt(k) = i THEN None ELSE tx.skb[i]]
           d == (tx.dirty + m) % Wrap
<1>1. Reaped(m) = [tx EXCEPT !.dirty = d, !.skb = S, !.desc = D]
    BY Zenon DEF Reaped
<1>2. D = [i \in TxIndex |-> D[i]]
    BY Zenon
<1>3. \A i \in TxIndex : D[i] = Free \/ D[i] = tx.desc[i]
    BY Zenon
<1>4. DescShape(Free) /\ Free.seg = None
    BY Zenon DEF DescShape, Free
<1> HIDE DEF D, S, d
<1>5. Reaped(m) \in [curr: {Reaped(m).curr}, dirty: {Reaped(m).dirty}, desc: {D}, skb: {Reaped(m).skb}]
    BY <1>1, Zenon DEF TxShape
<1>6. Reaped(m).desc = D
    BY <1>5, Zenon
<1> QED
    BY <1>2, <1>3, <1>4, <1>5, <1>6, Zenon DEF TxShape

LEMMA ResetShape ==
    ASSUME NEW t, TxShape(t), Reset(t, hw)
    PROVE  tx' \in [curr: {tx'.curr}, dirty: {tx'.dirty}, desc: {t.desc}, skb: {tx'.skb}]
BY Zenon DEF Reset, TxShape

LEMMA EmptyShape == TxShape(EmptyTx) /\ \A i \in TxIndex : EmptyTx.desc[i].seg = None
BY Zenon DEF TxShape, EmptyTx, DescShape, Free

LEMMA SegmentsInit == Init => TxShape(tx) /\ SegmentsLong /\ Rest
<1> SUFFICES ASSUME Init PROVE TxShape(tx) /\ SegmentsLong /\ Rest
    BY Zenon
<1>1. tx = EmptyTx /\ xmit = NoXmit
    BY Zenon DEF Init
<1>2. Rest
    BY <1>1, Zenon DEF Rest, XmitShape, NoXmit
<1> QED
    BY <1>1, <1>2, EmptyShape, Zenon DEF SegmentsLong

\* The steps that change the transmit ring or the packet that is being sent.
LEMMA TxSteps ==
    ASSUME [Next]_vars
    PROVE  /\ env' = env
           /\ \/ \E len \in Lengths : hard_start_xmit(len)
              \/ fill_dma_desc \/ Inject \/ Kick \/ PollTx \/ open \/ rings_cleanup \/ RestartEnable
              \/ RestartFlush \/ RestartReset \/ HwTx \/ (\E link \in BOOLEAN : link_adjust(link))
              \/ UNCHANGED <<tx, xmit>>
BY Steps, ZenonT(60), Zenon DEF hard_start_xmit, fill_dma_desc, Inject, Kick, PollTx, PollRx, PollStatus, PollTxStatus,
             oom_timer_handler, open, stop, restart_work_func, NapiDisabled, rings_cleanup, RestartEnable,
             RestartFlush, RestartReset, tx_timeout, HwTx, HwRx, Hang, interrupt, link_adjust, vars

LEMMA SegmentsNext ==
    ASSUME env \in Envs, TxShape(tx), SegmentsLong, Rest, [Next]_vars
    PROVE  (TxShape(tx) /\ SegmentsLong /\ Rest)'
<1>e. env' = env /\ TxIndex' = TxIndex /\ env.split \in Nat /\ (env.split = 0 \/ env.split > 8) /\ env.lens \subseteq Nat
    BY TxSteps, EnvsAssumption, Zenon DEF TxIndex, TxSize, Env
<1>k. ASSUME TxShape(tx'), \A i \in TxIndex : tx'.desc[i].seg \in {None, tx.desc[i].seg}
      PROVE  (TxShape(tx) /\ SegmentsLong)'
  <2>1. \A i \in TxIndex : LongEnough(tx'.desc[i].seg)
      BY <1>k, KeptSegments, Zenon
  <2> QED
      BY <1>e, <1>k, <2>1, Zenon DEF SegmentsLong, LongEnough, TxShape
<1>u. ASSUME tx' = tx
      PROVE  (TxShape(tx) /\ SegmentsLong)'
    BY <1>e, <1>u, Zenon DEF SegmentsLong, TxShape
<1>x. ASSUME xmit' = xmit
      PROVE  Rest'
    BY <1>x, Zenon DEF Rest
<1>m. ASSUME tx' = EmptyTx
      PROVE  (TxShape(tx) /\ SegmentsLong)'
    BY <1>k, <1>m, EmptyShape, Zenon
<1>c. ASSUME NEW t, TxShape(t), \A i \in TxIndex : t.desc[i].seg \in {None, tx.desc[i].seg}, Reset(t, hw)
      PROVE  (TxShape(tx) /\ SegmentsLong)'
  <2>1. /\ tx' \in [curr: {tx'.curr}, dirty: {tx'.dirty}, desc: {t.desc}, skb: {tx'.skb}]
        /\ tx'.desc = t.desc
      BY <1>c, ResetShape, Zenon
  <2>2. TxShape(tx')
      BY <1>c, <2>1, Zenon DEF TxShape
  <2> QED
      BY <1>c, <1>k, <2>1, <2>2, Zenon
<1>1. CASE \E len \in Lengths : hard_start_xmit(len)
  <2> PICK len \in Lengths : hard_start_xmit(len)
      BY <1>1, Zenon
  <2> DEFINE p == [id |-> tx.curr % TxSize, len |-> len]
  <2>1. /\ tx' = tx
        /\ xmit' = xmit \/ xmit' = [pc |-> "fill", pkt |-> p, len |-> len, n |-> 0]
        /\ len \in Nat /\ len > 4
      BY <1>e, Zenon DEF hard_start_xmit
  <2> HIDE DEF p
  <2>2. Rest'
      BY <2>1 DEF Rest, XmitShape
  <2> QED
      BY <1>u, <2>1, <2>2, Zenon
<1>2. CASE fill_dma_desc
  <2>1. xmit.pc = "fill" /\ xmit.len \in Nat /\ xmit.len > 4
      BY <1>2, Zenon DEF fill_dma_desc, Rest
  <2>2. CASE xmit' = NoXmit /\ tx' = tx
      BY <1>u, <2>2, Zenon DEF Rest, XmitShape, NoXmit
  <2>3. CASE \E i, seg : Puts(i, seg)
    <3> PICK i, seg : Puts(i, seg)
        BY <2>3, Zenon
    <3> DEFINE e == xmit.n = 0
               b == xmit.n + 1
               l == seg.len
               a == xmit.len - l
               q == IF l < xmit.len THEN "fill" ELSE "inject"
               new == [empty |-> e, seg |-> seg]
    <3>1. /\ l \in Nat /\ l > 4 /\ (env.split > 0 => l <= env.split)
          /\ l < xmit.len => xmit.len - l \in Nat /\ xmit.len - l > 4
      <4>1. l = cur_len(env.split, xmit.len)
          BY Zenon DEF Puts
      <4> HIDE DEF l
      <4> QED
          BY <1>e, <2>1, <4>1, PieceLength
    <3>2. LongEnough(seg)
        BY <3>1, Zenon DEF LongEnough
    <3>3. /\ tx' = [tx EXCEPT !.desc[i] = new]
          /\ xmit' = [xmit EXCEPT !.len = a, !.n = b, !.pc = q]
        BY Zenon DEF Puts
    <3>4. /\ q \in {"fill", "inject"}
          /\ q = "fill" => a \in Nat /\ a > 4
        BY <3>1, Zenon
    <3> HIDE DEF a, b, q
    <3>5. Rest'
        BY <3>3, <3>4, Zenon DEF Rest, XmitShape
    <3>6. DescShape(new) /\ new.seg = seg
        BY Zenon DEF DescShape
    <3> HIDE DEF new, e, l
    <3>7. /\ tx' \in [curr: {tx'.curr}, dirty: {tx'.dirty}, desc: {tx'.desc}, skb: {tx'.skb}]
          /\ tx'.desc = [tx.desc EXCEPT ![i] = new]
        BY <3>3, Zenon DEF TxShape
    <3>8. /\ tx'.desc = [j \in TxIndex |-> tx'.desc[j]]
          /\ \A j \in TxIndex : tx'.desc[j] = new \/ tx'.desc[j] = tx.desc[j]
        BY <3>7, Zenon DEF TxShape
    <3>9. TxShape(tx')
        BY <3>6, <3>7, <3>8, Zenon DEF TxShape
    <3>10. \A j \in TxIndex : LongEnough(tx'.desc[j].seg)
        BY <3>2, <3>6, <3>8, Zenon DEF SegmentsLong, LongEnough
    <3>11. (TxShape(tx) /\ SegmentsLong)'
        BY <1>e, <3>9, <3>10, Zenon DEF SegmentsLong, LongEnough, TxShape
    <3> QED
        BY <3>5, <3>11, Zenon
  <2> QED
      BY <1>2, <2>2, <2>3, FillStep, Zenon
<1>3. CASE Inject
  <2> DEFINE a == (tx.curr + xmit.n - 1) % TxSize
             c == tx.curr % TxSize
             b == (tx.curr + xmit.n) % Wrap
             p == xmit.pkt
  <2>1. /\ tx' = [tx EXCEPT !.skb[a] = p, !.desc[c].empty = FALSE, !.curr = b]
        /\ xmit' = [xmit EXCEPT !.pc = "kick"]
      BY <1>3, Zenon DEF Inject
  <2> HIDE DEF a, b, c, p
  <2>2. Rest'
      BY <2>1, Zenon DEF Rest, XmitShape
  <2>3. /\ tx' \in [curr: {tx'.curr}, dirty: {tx'.dirty}, desc: {tx'.desc}, skb: {tx'.skb}]
        /\ tx'.desc = [tx.desc EXCEPT ![c].empty = FALSE]
      BY <2>1, Zenon DEF TxShape
  <2>4. /\ tx'.desc = [j \in TxIndex |-> tx'.desc[j]]
        /\ \A j \in TxIndex : tx'.desc[j] = [tx.desc[j] EXCEPT !.empty = FALSE] \/ tx'.desc[j] = tx.desc[j]
      BY <2>3, Zenon DEF TxShape
  <2>5. \A j \in TxIndex : DescShape(tx'.desc[j]) /\ tx'.desc[j].seg = tx.desc[j].seg
      BY <2>4, Zenon DEF TxShape, DescShape
  <2> QED
      BY <1>k, <2>2, <2>3, <2>4, <2>5, Zenon DEF TxShape
<1>4. CASE Kick
    BY <1>4, <1>u, Zenon DEF Kick, Rest, XmitShape, NoXmit
<1>5. CASE PollTx
  <2>1. tx' = Reaped(Released(Finished)) /\ xmit' = xmit
      BY <1>5, Zenon DEF PollTx
  <2> QED
      BY <1>k, <1>x, <2>1, ReapedShape, Zenon
<1>6. CASE open \/ rings_cleanup \/ RestartEnable
  <2>1. (tx' = tx \/ tx' = EmptyTx) /\ xmit' = xmit
      BY <1>6, Zenon DEF open, rings_cleanup, RestartEnable, Enabled
  <2> QED
      BY <1>u, <1>m, <1>x, <2>1, Zenon
<1>7. CASE RestartFlush
  <2>1. (tx' = tx \/ tx' = Reaped(Used(tx))) /\ xmit' = xmit
      BY <1>7, Zenon DEF RestartFlush
  <2> QED
      BY <1>k, <1>u, <1>x, <2>1, ReapedShape, Zenon
<1>8. CASE RestartReset
  <2>1. (tx' = tx \/ Reset(tx, hw)) /\ xmit' = xmit
      BY <1>8, Zenon DEF RestartReset
  <2> QED
      BY <1>c, <1>u, <1>x, <2>1, Zenon
<1>9. CASE HwTx
  <2>1. (tx' = tx \/ tx' = [tx EXCEPT !.desc[hw.txp] = Free]) /\ xmit' = xmit
      BY <1>9, Zenon DEF HwTx
  <2>2. CASE tx' = [tx EXCEPT !.desc[hw.txp] = Free]
    <3>0. DescShape(Free) /\ Free.seg = None
        BY Zenon DEF DescShape, Free
    <3>1. /\ tx' \in [curr: {tx'.curr}, dirty: {tx'.dirty}, desc: {tx'.desc}, skb: {tx'.skb}]
          /\ tx'.desc = [tx.desc EXCEPT ![hw.txp] = Free]
        BY <2>2, Zenon DEF TxShape
    <3>2. /\ tx'.desc = [j \in TxIndex |-> tx'.desc[j]]
          /\ \A j \in TxIndex : tx'.desc[j] = Free \/ tx'.desc[j] = tx.desc[j]
        BY <3>1, Zenon DEF TxShape
    <3>3. TxShape(tx')
        BY <3>0, <3>1, <3>2, Zenon DEF TxShape
    <3> QED
        BY <1>k, <1>x, <2>1, <3>0, <3>2, <3>3, Zenon
  <2> QED
      BY <1>u, <1>x, <2>1, <2>2, Zenon
<1>10. CASE \E link \in BOOLEAN : link_adjust(link)
  <2>1. (tx' = tx \/ Reset(Reaped(Used(tx)), hw)) /\ xmit' = xmit
      BY <1>10, Zenon DEF link_adjust
  <2> QED
      BY <1>c, <1>u, <1>x, <2>1, ReapedShape, Zenon
<1>11. CASE UNCHANGED <<tx, xmit>>
    BY <1>11, <1>u, <1>x, Zenon
<1> QED
    BY TxSteps, <1>1, <1>2, <1>3, <1>4, <1>5, <1>6, <1>7, <1>8, <1>9, <1>10, <1>11, Zenon

\* No segment is one that makes the engine hang, whatever the length of the
\* packet and desc_split, on which fill_dma_desc's subtraction of 4 rests.
THEOREM NoHangingSegment == Spec => []SegmentsLong
<1> DEFINE Inv == Control /\ PollOrInterrupt /\ TxShape(tx) /\ SegmentsLong /\ Rest
<1>1. Init => Inv
    BY ControlInit, SegmentsInit, Zenon
<1>2. Inv /\ [Next]_vars => Inv'
  <2>1. Control => env \in Envs
      BY Zenon DEF Control
  <2> QED
      BY <2>1, ControlNext, SegmentsNext, Zenon
<1>3. Inv => SegmentsLong
    BY Zenon
<1> QED
    BY <1>1, <1>2, <1>3, PTL DEF Spec

-----------------------------------------------------------------------------
(* Types *)

\* What a descriptor holds is there while it is not empty.
TxTyped(t) ==
    /\ t \in [curr: Counter, dirty: Counter, desc: [TxIndex -> Desc], skb: [TxIndex -> Packet \cup {None}]]
    /\ \A i \in TxIndex : t.desc[i].empty \/ t.desc[i].seg \in Segment

XmitTyped(x) ==
    /\ x \in [pc: {"idle", "fill", "inject", "kick"}, pkt: Packet \cup {None}, len: Nat, n: Nat]
    /\ x.pc # "idle" => x.pkt \in Packet

\* The first descriptor of a packet that is being filled has its segment and is
\* still empty for the engine.
Begun(t, x) ==
    x.pc = "inject" \/ (x.pc = "fill" /\ x.n > 0) =>
        t.desc[t.curr % TxSize].empty /\ t.desc[t.curr % TxSize].seg \in Segment

\* The descriptors a packet may take, and what is left of one after n of them.
Need == IF env.split = 0 THEN 1 ELSE DsPerPkt
Fits(x) ==
    /\ x.pc = "fill" => x.len > 4 /\ x.n < Need /\ (env.split > 0 => x.len <= (DsPerPkt - x.n) * env.split)
    /\ x.pc = "inject" => x.n \in 1 .. Need

Typed == TypeOK /\ TxTyped(tx) /\ XmitTyped(xmit) /\ Fits(xmit) /\ Begun(tx, xmit)

LEMMA TxPlaces ==
    ASSUME env \in Envs
    PROVE  /\ TxSize \in Nat \ {0} /\ Wrap \in Nat \ {0} /\ TxSize < Wrap /\ Wrap % TxSize = 0
           /\ \A a \in Int : a % TxSize \in TxIndex /\ a % Wrap \in Counter
<1>1. TxSize \in Nat \ {0} /\ Wrap \in Nat \ {0} /\ TxSize < Wrap /\ Wrap % TxSize = 0
    BY EnvsAssumption, TxSizesAssumption, WrapAssumption DEF Env, TxSize
<1>2. ASSUME NEW a \in Int
      PROVE  a % TxSize \in TxIndex /\ a % Wrap \in Counter
    BY <1>1, Remainder, Zenon DEF TxIndex, Counter
<1> QED
    BY <1>1, <1>2, Zenon

LEMMA EmptyTyped ==
    ASSUME env \in Envs
    PROVE  TxTyped(EmptyTx)
<1>1. 0 \in Counter
    BY TxPlaces DEF Counter
<1>2. Free \in Desc /\ Free.empty = TRUE
    BY Zenon DEF Free, Desc
<1>3. [i \in TxIndex |-> Free] \in [TxIndex -> Desc] /\ [i \in TxIndex |-> None] \in [TxIndex -> Packet \cup {None}]
    BY <1>2, Zenon
<1> QED
    BY <1>1, <1>2, <1>3, Zenon DEF EmptyTx, TxTyped

\* tx_packets releases a number of descriptors.
LEMMA ReleasedNumber ==
    ASSUME env \in Envs, TxTyped(tx)
    PROVE  /\ Used(tx) \in 0 .. Wrap - 1
           /\ Released(Finished) \in 0 .. Used(tx)
           /\ Released(Finished) \in {0} \cup Finished
           /\ Released(Finished) = 0 \/ tx.skb[TxAt(Released(Finished) - 1)] # None
<1>0. tx.curr \in Int /\ tx.dirty \in Int
    BY TxPlaces DEF TxTyped, Counter
<1>1. Used(tx) \in 0 .. Wrap - 1
  <2>1. tx.curr - tx.dirty \in Int
      BY <1>0
  <2> QED
      BY <2>1, TxPlaces, Zenon DEF Used, Counter
<1> DEFINE M == {0} \cup {k \in Finished : k > 0 /\ tx.skb[TxAt(k - 1)] # None}
           last(m) == \A k \in Finished : k > m => tx.skb[TxAt(k - 1)] = None
<1>2. Finished \subseteq 0 .. Used(tx)
    BY Zenon DEF Finished
<1>3. M \in SUBSET (0 .. Used(tx)) /\ M # {} /\ Used(tx) \in Nat
  <2>1. Used(tx) \in Nat /\ 0 \in 0 .. Used(tx)
      BY <1>1
  <2> HIDE DEF last
  <2> QED
      BY <1>2, <2>1, Zenon
<1>4. PICK m \in M : \A y \in M : m >= y
    BY <1>3, GreatestNatural, Zenon
<1>5. last(m)
  <2> SUFFICES ASSUME NEW k \in Finished, k > m
               PROVE  tx.skb[TxAt(k - 1)] = None
      BY Zenon
  <2>1. m \in Nat /\ k \in Nat /\ ~(m >= k)
      BY <1>2, <1>3
  <2>2. k \notin M /\ k > 0
      BY <1>4, <2>1
  <2> QED
      BY <2>2, Zenon
<1>6. Released(Finished) = CHOOSE x \in M : last(x)
    BY Zenon DEF Released
<1> HIDE DEF last
<1>7. Released(Finished) \in M
    BY <1>5, <1>6, Zenon
<1>8. M \subseteq {0} \cup Finished /\ \A k \in M : k = 0 \/ tx.skb[TxAt(k - 1)] # None
    BY Zenon
<1> QED
    BY <1>1, <1>3, <1>7, <1>8, Zenon

\* The ring without its first descriptors.
LEMMA ReapedTyped ==
    ASSUME env \in Envs, TxTyped(tx), NEW m \in Nat
    PROVE  /\ TxTyped(Reaped(m))
           /\ Reaped(m).curr = tx.curr /\ Reaped(m).dirty = (tx.dirty + m) % Wrap
           /\ \A i \in TxIndex : Reaped(m).desc[i] = IF \E k \in 0 .. m - 1 : TxAt(k) = i THEN Free ELSE tx.desc[i]
           /\ \A i \in TxIndex : Reaped(m).skb[i] = IF \E k \in 0 .. m - 1 : TxAt(k) = i THEN None ELSE tx.skb[i]
<1> DEFINE D == [i \in TxIndex |-> IF \E k \in 0 .. m - 1 : TxAt(k) = i THEN Free ELSE tx.desc[i]]
           S == [i \in TxIndex |-> IF \E k \in 0 .. m - 1 : TxAt(k) = i THEN None ELSE tx.skb[i]]
           d == (tx.dirty + m) % Wrap
<1>1. Reaped(m) = [tx EXCEPT !.dirty = d, !.skb = S, !.desc = D]
    BY Zenon DEF Reaped
<1>2. Free \in Desc /\ Free.empty = TRUE
    BY Zenon DEF Free, Desc
<1>3. /\ D \in [TxIndex -> Desc] /\ S \in [TxIndex -> Packet \cup {None}]
      /\ \A i \in TxIndex : D[i].empty \/ D[i].seg \in Segment
  <2>1. tx.desc \in [TxIndex -> Desc] /\ tx.skb \in [TxIndex -> Packet \cup {None}]
        /\ \A i \in TxIndex : tx.desc[i].empty \/ tx.desc[i].seg \in Segment
      BY Zenon DEF TxTyped
  <2>2. \A i \in TxIndex : (D[i] = Free \/ D[i] = tx.desc[i]) /\ (S[i] = None \/ S[i] = tx.skb[i])
      BY Zenon
  <2>3. D = [i \in TxIndex |-> D[i]] /\ S = [i \in TxIndex |-> S[i]]
      BY Zenon
  <2> HIDE DEF D, S
  <2> QED
      BY <1>2, <2>1, <2>2, <2>3, Zenon
<1>4. d \in Counter
  <2>1. tx.dirty + m \in Int
      BY TxPlaces DEF TxTyped, Counter
  <2> QED
      BY <2>1, TxPlaces, Zenon
<1>5. /\ \A i \in TxIndex : D[i] = IF \E k \in 0 .. m - 1 : TxAt(k) = i THEN Free ELSE tx.desc[i]
      /\ \A i \in TxIndex : S[i] = IF \E k \in 0 .. m - 1 : TxAt(k) = i THEN None ELSE tx.skb[i]
    BY Zenon
<1> HIDE DEF D, S
<1>6. TxTyped(Reaped(m)) /\ Reaped(m).desc = D /\ Reaped(m).skb = S /\ Reaped(m).curr = tx.curr /\ Reaped(m).dirty = d
    BY <1>1, <1>3, <1>4, Zenon DEF TxTyped
<1> QED
    BY <1>5, <1>6, Zenon

LEMMA Product ==
    ASSUME NEW a \in Int, NEW s \in Int
    PROVE  /\ (a - 1) * s = a * s - s
           /\ a >= 1 /\ s >= 0 => a * s >= s
BY Z3

\* The next piece of a packet: what is left fits the descriptors that are left.
LEMMA PieceFits ==
    ASSUME NEW split \in Nat, split > 8, NEW d \in Nat, d > 0, NEW len \in Nat, len > 4, len <= d * split
    PROVE  cur_len(split, len) < len => d - 1 > 0 /\ len - cur_len(split, len) <= (d - 1) * split
<1> DEFINE p == d * split
           q == (d - 1) * split
<1>1. p \in Int /\ q \in Int /\ q = p - split /\ (d - 1 >= 1 => q >= split) /\ (d = 1 => p = split)
    BY Product
<1> HIDE DEF p, q
<1>2. len <= p
    BY Zenon DEF p
<1>3. cur_len(split, len) < len => d - 1 > 0 /\ len - cur_len(split, len) <= q
    BY <1>1, <1>2 DEF cur_len
<1> QED
    BY <1>3, Zenon DEF q


\* What the operators on the registers return.
LEMMA RegistersTyped ==
    ASSUME env \in Envs, NEW h \in Hw
    PROVE  hw_stop(h) \in Hw /\ dma_reset(h) \in Hw /\ hw_start(h) \in Hw /\ Disable(h) \in Hw
<1>1. ASSUME NEW g \in Hw
      PROVE  hw_stop(g) \in Hw /\ hw_start(g) \in Hw
    BY ZenonT(60) DEF Hw, hw_stop, hw_start
<1>2. ASSUME NEW g \in Hw
      PROVE  dma_reset(g) \in Hw
    BY ZenonT(60) DEF Hw, dma_reset
<1> QED
    BY <1>1, <1>2, Zenon DEF Disable

LEMMA ResetTyped ==
    ASSUME env \in Envs, hw \in Hw, NEW t, TxTyped(t), Reset(t, hw)
    PROVE  /\ hw' \in Hw /\ TxTyped(tx')
           /\ tx'.desc = t.desc /\ tx'.skb = t.skb /\ tx'.curr = 0 /\ tx'.dirty = 0
<1>1. 0 \in TxIndex /\ 0 \in Counter
    BY TxPlaces DEF TxIndex, Counter
<1> DEFINE g == dma_reset(hw_stop(hw))
<1>2. g \in Hw /\ hw.rxp \in RxIndex \cup {None}
  <2>1. hw_stop(hw) \in Hw
      BY RegistersTyped, Zenon
  <2>2. g \in Hw
      BY <2>1, RegistersTyped, Zenon
  <2> QED
      BY <2>2, Zenon DEF Hw
<1>3. hw' = hw_start([g EXCEPT !.txp = 0, !.rxp = hw.rxp])
    BY Zenon DEF Reset
<1> HIDE DEF g
<1>4. [g EXCEPT !.txp = 0, !.rxp = hw.rxp] \in Hw
    BY <1>1, <1>2, ZenonT(60), Zenon DEF Hw
<1>5. hw' \in Hw
    BY <1>3, <1>4, RegistersTyped, Zenon
<1>6. tx' = [t EXCEPT !.curr = 0, !.dirty = 0]
    BY Zenon DEF Reset
<1> QED
    BY <1>1, <1>5, <1>6, Zenon DEF TxTyped

LEMMA TypedInit == Init => Typed
<1> SUFFICES ASSUME Init PROVE Typed
    BY Zenon
<1>1. env \in Envs /\ tx = EmptyTx /\ xmit = NoXmit
    BY Zenon DEF Init
<1>2. TxTyped(tx)
    BY <1>1, EmptyTyped, Zenon
<1>3. XmitTyped(xmit) /\ Begun(tx, xmit) /\ Fits(xmit)
    BY <1>1, Zenon DEF XmitTyped, Begun, Fits, NoXmit
<1>4. left \in Left
    BY EnvsAssumption, Zenon DEF Init, Left, Env
<1>5. rx \in [curr: Counter, dirty: Counter, empty: [RxIndex -> BOOLEAN], buf: [RxIndex -> BOOLEAN]]
    BY RxRingInit, Zenon DEF RxRing
<1>6. hw \in Hw
    BY Zenon DEF Init, Hw
<1>7. Control
    BY ControlInit, Zenon
<1>8. poll \in [pc: {"idle", "rx", "status", "txstatus"}, full: BOOLEAN] /\ wire = None /\ bug \in BOOLEAN
    BY Zenon DEF Init, NoPoll
<1> QED
    BY <1>1, <1>2, <1>3, <1>4, <1>5, <1>6, <1>7, <1>8, Zenon DEF Typed, TypeOK, TxTyped, XmitTyped, Control

\* What fill_dma_desc puts where.
LEMMA FillTyped ==
    ASSUME Typed, fill_dma_desc
    PROVE  /\ env' = env /\ xmit.pc = "fill"
           /\ \/ xmit' = NoXmit /\ tx' = tx /\ ~tx.desc[(tx.curr + xmit.n) % TxSize].empty
              \/ \E seg \in Segment :
                    LET i == (tx.curr + xmit.n) % TxSize
                        a == xmit.len - seg.len
                    IN  /\ tx.desc[i].empty
                        /\ tx' = [tx EXCEPT !.desc[i] = [empty |-> xmit.n = 0, seg |-> seg]]
                        /\ a \in Nat
                        /\ \/ /\ xmit' = [xmit EXCEPT !.len = a, !.n = @ + 1, !.pc = "fill"]
                              /\ a > 4 /\ xmit.n + 1 < Need
                              /\ env.split > 0 => a <= (DsPerPkt - (xmit.n + 1)) * env.split
                           \/ xmit' = [xmit EXCEPT !.len = a, !.n = @ + 1, !.pc = "inject"]
<1>e. env \in Envs /\ env.split \in Nat /\ (env.split = 0 \/ env.split > 8) /\ DsPerPkt \in Nat \ {0}
    BY EnvsAssumption, PacketsAssumption, Zenon DEF Typed, TypeOK, Env
<1>x. /\ xmit.pc = "fill" /\ xmit.len \in Nat /\ xmit.n \in Nat /\ xmit.pkt \in Packet
      /\ xmit.len > 4 /\ xmit.n < Need /\ (env.split > 0 => xmit.len <= (DsPerPkt - xmit.n) * env.split)
    BY Zenon DEF fill_dma_desc, Typed, XmitTyped, Fits
<1> DEFINE i == (tx.curr + xmit.n) % TxSize
           l == cur_len(env.split, xmit.len)
           more == l < xmit.len
           seg == [pkt |-> xmit.pkt, len |-> l, more |-> more]
           a == xmit.len - l
           d == DsPerPkt - xmit.n
<1>1. /\ env' = env
      /\ IF tx.desc[i].empty
         THEN /\ tx' = [tx EXCEPT !.desc[i] = [empty |-> xmit.n = 0, seg |-> seg]]
              /\ xmit' = [xmit EXCEPT !.len = @ - l, !.n = @ + 1, !.pc = IF seg.more THEN "fill" ELSE "inject"]
         ELSE xmit' = NoXmit /\ tx' = tx
    BY Zenon DEF fill_dma_desc
<1>2. l \in Nat /\ l > 4 /\ l <= xmit.len /\ (l = xmit.len \/ xmit.len - l > 4)
    BY <1>e, <1>x, PieceLength, Zenon
<1>3. more => env.split > 0 /\ xmit.n + 1 < Need /\ a <= (DsPerPkt - (xmit.n + 1)) * env.split
  <2>1. CASE env.split = 0
      BY <2>1, <1>x DEF cur_len
  <2>2. CASE env.split > 8
    <3>1. d \in Nat /\ d > 0 /\ xmit.len <= d * env.split /\ Need = DsPerPkt
        BY <1>e, <1>x, <2>2 DEF Need
    <3>2. d - 1 = DsPerPkt - (xmit.n + 1) /\ (d - 1 > 0 => xmit.n + 1 < DsPerPkt)
        BY <1>e, <1>x
    <3> HIDE DEF d
    <3>3. more => d - 1 > 0 /\ a <= (d - 1) * env.split
        BY <1>e, <1>x, <2>2, <3>1, PieceFits, Zenon
    <3>4. (d - 1) * env.split = (DsPerPkt - (xmit.n + 1)) * env.split
        BY <3>2, Zenon
    <3>5. env.split > 0
        BY <1>e, <2>2
    <3> HIDE DEF a, more, l
    <3> QED
        BY <3>1, <3>2, <3>3, <3>4, <3>5, Zenon
  <2> QED
      BY <1>e, <2>1, <2>2, Zenon
<1>4. seg \in Segment /\ seg.len = l /\ seg.more = more
  <2>1. more \in BOOLEAN
      BY <1>2, <1>x
  <2> HIDE DEF more, l
  <2> QED
      BY <1>2, <1>x, <2>1, Zenon DEF Segment
<1>5. a \in Nat
    BY <1>2, <1>x, SMTT(30)
<1>6. CASE tx.desc[i].empty
  <2>1. xmit' = [xmit EXCEPT !.len = a, !.n = @ + 1, !.pc = IF more THEN "fill" ELSE "inject"]
      BY <1>1, <1>4, <1>6, Zenon
  <2>2. CASE more
    <3>1. xmit' = [xmit EXCEPT !.len = a, !.n = @ + 1, !.pc = "fill"]
        BY <2>1, <2>2, Zenon
    <3>2. a > 4
        BY <1>2, <1>x, <2>2
    <3> QED
        BY <1>1, <1>3, <1>4, <1>5, <1>6, <1>x, <2>2, <3>1, <3>2, ZenonT(60), Zenon
  <2>3. CASE ~more
    <3>1. xmit' = [xmit EXCEPT !.len = a, !.n = @ + 1, !.pc = "inject"]
        BY <2>1, <2>3, Zenon
    <3> QED
        BY <1>1, <1>4, <1>5, <1>6, <1>x, <3>1, ZenonT(60), Zenon
  <2> QED
      BY <2>2, <2>3, Zenon
<1>7. CASE ~tx.desc[i].empty
    BY <1>1, <1>7, <1>x, Zenon
<1> QED
    BY <1>6, <1>7, Zenon

\* The places of a packet after its first one are other ones.
LEMMA OtherPlaces ==
    ASSUME env \in Envs, NEW c \in Int, NEW k \in Nat, k > 0, k < Need
    PROVE  (c + k) % TxSize # c % TxSize
<1>1. Need <= TxSize /\ TxSize \in Nat \ {0} /\ Need \in Nat
    BY TxPlaces, EnvsAssumption, PacketsAssumption DEF Need, Env, TxSize
<1> SUFFICES ASSUME (c + k) % TxSize = c % TxSize PROVE FALSE
    BY Zenon
<1>2. c + k \in Int /\ (c + k) - c < TxSize /\ c - (c + k) < TxSize
    BY <1>1
<1>3. c + k = c
    BY <1>1, <1>2, RemainderApart, Zenon
<1> QED
    BY <1>3

\* t is the ring with descriptor i replaced by d.
Placed(t, i, d) == t = [tx EXCEPT !.desc[i] = d] /\ (d.empty \/ d.seg \in Segment)

LEMMA PutTyped ==
    ASSUME TxTyped(tx), NEW i \in TxIndex, NEW d \in Desc, NEW t, Placed(t, i, d)
    PROVE  /\ TxTyped(t) /\ t.curr = tx.curr /\ t.dirty = tx.dirty /\ t.skb = tx.skb
           /\ t.desc[i] = d /\ \A j \in TxIndex : j # i => t.desc[j] = tx.desc[j]
<1> DEFINE D == [tx.desc EXCEPT ![i] = d]
<1>1. /\ t \in [curr: {tx.curr}, dirty: {tx.dirty}, desc: {D}, skb: {tx.skb}]
      /\ t.desc = D /\ t.curr = tx.curr /\ t.dirty = tx.dirty /\ t.skb = tx.skb
      /\ d.empty \/ d.seg \in Segment
    BY Zenon DEF TxTyped, Placed
<1>2. /\ D \in [TxIndex -> Desc] /\ D[i] = d /\ \A j \in TxIndex : j # i => D[j] = tx.desc[j]
    BY Zenon DEF TxTyped
<1> HIDE DEF D
<1> QED
    BY <1>1, <1>2, Zenon DEF TxTyped

LEMMA TxTypedNext ==
    ASSUME Typed, [Next]_vars
    PROVE  TxTyped(tx') /\ XmitTyped(xmit') /\ Fits(xmit') /\ Begun(tx', xmit')
<1>e. env \in Envs
    BY Zenon DEF Typed, TypeOK
<1>t. TxTyped(tx) /\ XmitTyped(xmit) /\ Fits(xmit) /\ Begun(tx, xmit) /\ hw \in Hw
    BY Zenon DEF Typed, TypeOK
<1>c. tx.curr \in Nat /\ xmit.n \in Nat /\ tx.curr % TxSize \in TxIndex
  <2>1. tx.curr \in Nat /\ xmit.n \in Nat
      BY <1>t, <1>e, TxPlaces DEF TxTyped, XmitTyped, Counter
  <2> QED
      BY <2>1, <1>e, TxPlaces
<1>i. ASSUME xmit'.pc = "idle", xmit' = xmit \/ xmit' = NoXmit
      PROVE  XmitTyped(xmit') /\ Fits(xmit') /\ Begun(tx', xmit')
    BY <1>i, <1>t DEF XmitTyped, Fits, Begun, NoXmit
<1>1. CASE \E len \in Lengths : hard_start_xmit(len)
  <2> PICK len \in Lengths : hard_start_xmit(len)
      BY <1>1, Zenon
  <2> DEFINE id == tx.curr % TxSize
             p == [id |-> id, len |-> len]
  <2>1. /\ tx' = tx /\ len \in env.lens /\ len > 4
        /\ xmit' = xmit \/ xmit' = [pc |-> "fill", pkt |-> p, len |-> len, n |-> 0]
      BY Zenon DEF hard_start_xmit
  <2>2. len \in Nat /\ (env.split > 0 => len <= DsPerPkt * env.split) /\ Need > 0 /\ DsPerPkt - 0 = DsPerPkt
      BY <1>e, <2>1, EnvsAssumption, PacketsAssumption DEF Env, Need
  <2>3. id \in UNION {0 .. f.tx_size - 1 : f \in Envs}
      BY <1>c, <1>e, Zenon DEF TxIndex, TxSize
  <2> HIDE DEF id
  <2>4. p \in Packet
      BY <2>3, Zenon DEF Packet
  <2> HIDE DEF p
  <2>5. CASE xmit' = xmit
      BY <2>1, <2>5, <1>t, Zenon
  <2>6. CASE xmit' = [pc |-> "fill", pkt |-> p, len |-> len, n |-> 0]
    <3>1. xmit'.pc = "fill" /\ xmit'.pkt = p /\ xmit'.len = len /\ xmit'.n = 0
        BY <2>6, Zenon
    <3>2. XmitTyped(xmit')
        BY <2>2, <2>4, <2>6, Zenon DEF XmitTyped
    <3>3. Fits(xmit')
        BY <2>1, <2>2, <3>1, Zenon DEF Fits
    <3> QED
        BY <2>1, <3>1, <3>2, <3>3, <1>t DEF Begun
  <2> QED
      BY <2>1, <2>5, <2>6, Zenon
<1>2. CASE fill_dma_desc
  <2> DEFINE i == (tx.curr + xmit.n) % TxSize
  <2>1. CASE xmit' = NoXmit /\ tx' = tx
      BY <1>i, <1>t, <2>1, Zenon DEF NoXmit
  <2>2. ASSUME NEW seg \in Segment, NEW a \in Nat,
               tx' = [tx EXCEPT !.desc[i] = [empty |-> xmit.n = 0, seg |-> seg]],
               NEW pc \in {"fill", "inject"}, xmit' = [xmit EXCEPT !.len = a, !.n = @ + 1, !.pc = pc],
               pc = "fill" => /\ a > 4 /\ xmit.n + 1 < Need
                              /\ env.split > 0 => a <= (DsPerPkt - (xmit.n + 1)) * env.split
        PROVE  TxTyped(tx') /\ XmitTyped(xmit') /\ Fits(xmit') /\ Begun(tx', xmit')
    <3> DEFINE first == xmit.n = 0
               d == [empty |-> first, seg |-> seg]
    <3>0. xmit.pc = "fill" /\ xmit.n < Need /\ Need \in Nat
        BY <1>2, <1>t, PacketsAssumption, Zenon DEF fill_dma_desc, Fits, Need
    <3>1. i \in TxIndex
      <4>1. tx.curr + xmit.n \in Int
          BY <1>c
      <4> QED
          BY <4>1, <1>e, TxPlaces, Zenon
    <3>2. d \in Desc /\ d.empty = first /\ d.seg = seg
        BY Zenon DEF Desc
    <3>3. xmit.n = 0 => i = tx.curr % TxSize
        BY <1>c
    <3>4. xmit.n # 0 => i # tx.curr % TxSize
        BY <1>c, <1>e, <3>0, OtherPlaces
    <3>p. tx' = [tx EXCEPT !.desc[i] = d] /\ (d.empty \/ d.seg \in Segment)
        BY <2>2, <3>2, Zenon
    <3> HIDE DEF i, d
    <3>5. /\ TxTyped(tx') /\ tx'.curr = tx.curr
          /\ tx'.desc[i] = d /\ \A j \in TxIndex : j # i => tx'.desc[j] = tx.desc[j]
      <4>1. d \in Desc
          BY <3>2, Zenon
      <4>2. Placed(tx', i, d)
          BY <3>p, Zenon DEF Placed
      <4> QED
          BY <1>t, <3>1, <4>1, <4>2, PutTyped
    <3>6. tx'.desc[tx'.curr % TxSize].empty /\ tx'.desc[tx'.curr % TxSize].seg \in Segment
      <4>1. CASE xmit.n = 0
          BY <4>1, <3>2, <3>3, <3>5, Zenon
      <4>2. CASE xmit.n # 0
        <5>1. tx.desc[tx.curr % TxSize].empty /\ tx.desc[tx.curr % TxSize].seg \in Segment
            BY <4>2, <3>0, <1>c, <1>t DEF Begun
        <5> QED
            BY <4>2, <5>1, <3>4, <3>5, <1>c, Zenon
      <4> QED
          BY <4>1, <4>2, Zenon
    <3>7. xmit'.pc = pc /\ xmit'.len = a /\ xmit'.n = xmit.n + 1 /\ xmit'.pkt = xmit.pkt /\ xmit.pkt \in Packet
        BY <1>t, <2>2, <3>0, Zenon DEF XmitTyped
    <3>8. XmitTyped(xmit')
      <4> DEFINE b == xmit.n + 1
      <4>1. xmit' = [xmit EXCEPT !.len = a, !.n = b, !.pc = pc] /\ b \in Nat
          BY <1>c, <2>2
      <4> HIDE DEF b
      <4> QED
          BY <1>t, <2>2, <3>7, <4>1, Zenon DEF XmitTyped
    <3>9. Fits(xmit')
      <4>1. xmit.n + 1 \in 1 .. Need
          BY <1>c, <3>0
      <4> QED
          BY <2>2, <3>7, <4>1, Zenon DEF Fits
    <3> QED
        BY <3>5, <3>6, <3>8, <3>9, Zenon DEF Begun
  <2> QED
      BY <1>2, <2>1, <2>2, FillTyped, Zenon
<1>3. CASE Inject
  <2> DEFINE a == (tx.curr + xmit.n - 1) % TxSize
             c == tx.curr % TxSize
             b == (tx.curr + xmit.n) % Wrap
             p == xmit.pkt
  <2>1. /\ tx' = [tx EXCEPT !.skb[a] = p, !.desc[c].empty = FALSE, !.curr = b]
        /\ xmit' = [xmit EXCEPT !.pc = "kick"]
        /\ xmit.pc = "inject"
      BY <1>3, Zenon DEF Inject
  <2>2. a \in TxIndex /\ b \in Counter /\ c \in TxIndex /\ p \in Packet
    <3>1. tx.curr + xmit.n - 1 \in Int /\ tx.curr + xmit.n \in Int
        BY <1>c
    <3> QED
        BY <3>1, <1>c, <1>e, <1>t, <2>1, TxPlaces, Zenon DEF XmitTyped
  <2>3. tx.desc[c].seg \in Segment
      BY <1>t, <2>1, Zenon DEF Begun
  <2> HIDE DEF a, b, c, p
  <2>4. XmitTyped(xmit') /\ xmit'.pc = "kick"
      BY <1>t, <2>1, <2>2, Zenon DEF XmitTyped, p
  <2> DEFINE D == [tx.desc EXCEPT ![c].empty = FALSE]
             S == [tx.skb EXCEPT ![a] = p]
  <2>5. tx' = [tx EXCEPT !.skb = S, !.desc = D, !.curr = b]
      BY <2>1, <1>t, Zenon DEF TxTyped
  <2>6. /\ D \in [TxIndex -> Desc] /\ S \in [TxIndex -> Packet \cup {None}]
        /\ \A j \in TxIndex : D[j].empty \/ D[j].seg \in Segment
    <3>1. tx.desc \in [TxIndex -> Desc] /\ tx.skb \in [TxIndex -> Packet \cup {None}]
        BY <1>t, Zenon DEF TxTyped
    <3>2. S \in [TxIndex -> Packet \cup {None}]
        BY <3>1, <2>2, Zenon
    <3>3. [tx.desc[c] EXCEPT !.empty = FALSE] \in Desc /\ [tx.desc[c] EXCEPT !.empty = FALSE].seg = tx.desc[c].seg
        BY <2>2, <3>1, Zenon DEF Desc
    <3>4. D \in [TxIndex -> Desc] /\ \A j \in TxIndex : D[j] = IF j = c THEN [tx.desc[c] EXCEPT !.empty = FALSE] ELSE tx.desc[j]
        BY <3>1, <3>3, <2>2, Zenon
    <3> HIDE DEF D
    <3> QED
        BY <3>2, <3>3, <3>4, <2>3, <1>t, Zenon DEF TxTyped
  <2> HIDE DEF D, S
  <2>7. TxTyped(tx')
      BY <1>t, <2>2, <2>5, <2>6, Zenon DEF TxTyped
  <2> QED
      BY <2>4, <2>7, Zenon DEF Fits, Begun
<1>4. CASE Kick
  <2>1. tx' = tx /\ xmit' = NoXmit
      BY <1>4, Zenon DEF Kick
  <2> QED
      BY <1>i, <1>t, <2>1, Zenon DEF NoXmit
<1>5. CASE PollTx
  <2>1. tx' = Reaped(Released(Finished)) /\ xmit' = xmit /\ xmit.pc = "idle"
      BY <1>5, Zenon DEF PollTx, SoftirqIdle
  <2>2. Released(Finished) \in Nat
      BY <1>e, <1>t, ReleasedNumber, SMTT(30)
  <2> QED
      BY <1>e, <1>i, <1>t, <2>1, <2>2, ReapedTyped, Zenon
<1>u. Used(tx) \in Nat
    BY <1>e, <1>t, ReleasedNumber, SMTT(30)
<1>6. CASE open \/ rings_cleanup \/ RestartEnable
  <2>1. (tx' = tx \/ tx' = EmptyTx) /\ xmit' = xmit /\ xmit.pc = "idle"
      BY <1>6, Zenon DEF open, rings_cleanup, RestartEnable, Enabled, Preemptible, SoftirqIdle
  <2> QED
      BY <1>e, <1>i, <1>t, <2>1, EmptyTyped, Zenon
<1>7. CASE RestartFlush
  <2>1. (tx' = tx \/ tx' = Reaped(Used(tx))) /\ xmit' = xmit /\ xmit.pc = "idle"
      BY <1>7, Zenon DEF RestartFlush, Preemptible, SoftirqIdle
  <2> QED
      BY <1>e, <1>i, <1>t, <1>u, <2>1, ReapedTyped, Zenon
<1>8. CASE RestartReset
  <2>1. (tx' = tx \/ Reset(tx, hw)) /\ xmit' = xmit /\ xmit.pc = "idle"
      BY <1>8, Zenon DEF RestartReset, Preemptible, SoftirqIdle
  <2> QED
      BY <1>e, <1>i, <1>t, <2>1, ResetTyped, Zenon
<1>9. CASE HwTx
  <2>1. /\ xmit' = xmit
        /\ tx' = tx \/ (tx' = [tx EXCEPT !.desc[hw.txp] = Free] /\ hw.txp # None /\ ~tx.desc[hw.txp].empty)
      BY <1>9, Zenon DEF HwTx
  <2>2. CASE tx' = tx
      BY <1>t, <2>1, <2>2, Zenon
  <2>3. CASE tx' = [tx EXCEPT !.desc[hw.txp] = Free] /\ hw.txp # None /\ ~tx.desc[hw.txp].empty
    <3>1. hw.txp \in TxIndex
        BY <1>t, <2>3, Zenon DEF Hw
    <3>2. Free \in Desc /\ Free.empty
        BY Zenon DEF Free, Desc
    <3>p. Placed(tx', hw.txp, Free)
        BY <2>3, <3>2, Zenon DEF Placed
    <3>3. TxTyped(tx') /\ tx'.curr = tx.curr /\ \A j \in TxIndex : j # hw.txp => tx'.desc[j] = tx.desc[j]
        BY <1>t, <3>1, <3>2, <3>p, PutTyped, SMTT(30)
    <3> QED
        BY <1>c, <1>t, <2>1, <2>3, <3>3, Zenon DEF Begun
  <2> QED
      BY <2>1, <2>2, <2>3, Zenon
<1>10. CASE \E link \in BOOLEAN : link_adjust(link)
  <2>1. (tx' = tx \/ Reset(Reaped(Used(tx)), hw)) /\ xmit' = xmit /\ xmit.pc = "idle"
      BY <1>10, Zenon DEF link_adjust, Preemptible, SoftirqIdle
  <2> QED
      BY <1>e, <1>i, <1>t, <1>u, <2>1, ReapedTyped, ResetTyped, Zenon
<1>11. CASE UNCHANGED <<tx, xmit>>
    BY <1>11, <1>t, Zenon
<1> QED
    BY TxSteps, <1>1, <1>2, <1>3, <1>4, <1>5, <1>6, <1>7, <1>8, <1>9, <1>10, <1>11, Zenon

LEMMA AckedNumber ==
    ASSUME NEW count \in Nat, NEW n \in Nat
    PROVE  Acked(count, n) \in Nat
BY DEF Acked

\* The steps that change the registers or the wire.
LEMMA HwTypedNext ==
    ASSUME Typed, RxRing, [Next]_vars
    PROVE  hw' \in Hw /\ wire' \in [pkt: Packet, got: Nat] \cup {None}
<1>e. env \in Envs
    BY Zenon DEF Typed, TypeOK
<1>h. hw \in Hw /\ wire \in [pkt: Packet, got: Nat] \cup {None}
    BY Zenon DEF Typed, TypeOK
<1>t. TxTyped(tx)
    BY Zenon DEF Typed
<1>n. hw.ps \in Nat /\ hw.pr \in Nat
    BY <1>h, Zenon DEF Hw
<1>r. hw_stop(hw) \in Hw /\ hw_start(hw) \in Hw /\ Disable(hw) \in Hw
    BY <1>e, <1>h, RegistersTyped, Zenon
<1>0. 0 \in TxIndex /\ 0 \in RxIndex
    BY <1>e, TxPlaces, SizesAssumption DEF TxIndex, RxIndex
<1>1. CASE UNCHANGED <<hw, wire>>
    BY <1>1, <1>h, Zenon
<1>2. CASE Kick
    BY <1>2, <1>h, Zenon DEF Kick, Hw
<1>3. CASE PollTx
  <2> DEFINE a == Acked(hw.ps, Released(Finished))
  <2>1. hw' = [hw EXCEPT !.ps = a] /\ wire' = wire
      BY <1>3, Zenon DEF PollTx
  <2>2. a \in Nat
    <3>1. Released(Finished) \in Nat
        BY <1>e, <1>t, ReleasedNumber
    <3> QED
        BY <3>1, <1>n, AckedNumber, Zenon
  <2> HIDE DEF a
  <2> QED
      BY <1>h, <2>1, <2>2, Zenon DEF Hw
<1>4. CASE PollRx
  <2> DEFINE a == Acked(hw.pr, Taken)
  <2>1. (hw' = hw \/ hw' = [hw EXCEPT !.pr = a]) /\ wire' = wire
      BY <1>4, Zenon DEF PollRx
  <2>2. a \in Nat
    <3>1. Taken \in Nat
        BY TakenFrames, Zenon
    <3> QED
        BY <3>1, <1>n, AckedNumber, Zenon
  <2> HIDE DEF a
  <2> QED
      BY <1>h, <2>1, <2>2, Zenon DEF Hw
<1>5. CASE PollStatus
  <2>1. hw' = [hw EXCEPT !.of = FALSE, !.rxe = @ \/ hw.of] /\ wire' = wire
      BY <1>5, Zenon DEF PollStatus
  <2> QED
      BY <1>h, <2>1, ZenonT(60) DEF Hw
<1>6. CASE PollTxStatus
  <2>1. (hw' = hw \/ hw' = [hw EXCEPT !.int = TRUE]) /\ wire' = wire
      BY <1>6, Zenon DEF PollTxStatus
  <2> QED
      BY <1>h, <2>1, ZenonT(60), Zenon DEF Hw
<1>7. CASE open \/ RestartEnable
  <2>1. (hw' = hw \/ hw' = [hw EXCEPT !.txp = 0, !.rxp = 0]) /\ wire' = wire
      BY <1>7, Zenon DEF open, RestartEnable, Enabled
  <2> QED
      BY <1>h, <1>0, <2>1, ZenonT(60), Zenon DEF Hw
<1>8. CASE stop \/ restart_work_func
    BY <1>8, <1>h, <1>r, Zenon DEF stop, restart_work_func
<1>9. CASE RestartFlush
    BY <1>9, <1>h, <1>r, Zenon DEF RestartFlush
<1>10. CASE RestartReset
  <2>1. (Reset(tx, hw) \/ hw' = hw_start(hw)) /\ wire' = wire
      BY <1>10, Zenon DEF RestartReset
  <2> QED
      BY <1>e, <1>h, <1>r, <1>t, <2>1, ResetTyped, Zenon
<1>11. CASE HwTx
  <2> DEFINE d == tx.desc[hw.txp]
             p == d.seg.pkt
             l == d.seg.len
             got == IF hw.frame = None THEN [pkt |-> p, got |-> l]
                                       ELSE [hw.frame EXCEPT !.got = @ + l]
             a == (hw.txp + 1) % TxSize
             b == hw.ps + 1
             c == IF d.seg.more THEN got ELSE None
  <2>1. /\ hw.txp # None
        /\ IF d.empty THEN /\ hw' = [hw EXCEPT !.txe = FALSE, !.frame = None]
                           /\ wire' = IF hw.frame = None THEN wire ELSE hw.frame
                      ELSE /\ hw' = [hw EXCEPT !.txp = a, !.ps = b, !.frame = c]
                           /\ wire' = IF d.seg.more THEN wire ELSE got
      BY <1>11, Zenon DEF HwTx
  <2>2. hw.txp \in TxIndex /\ hw.frame \in [pkt: Packet, got: Nat] \cup {None}
      BY <1>h, <2>1, Zenon DEF Hw
  <2>3. CASE d.empty
    <3> HIDE DEF d
    <3> QED
        BY <1>h, <2>1, <2>2, <2>3, ZenonT(60) DEF Hw
  <2>4. CASE ~d.empty
    <3>1. d.seg \in Segment
        BY <1>t, <2>2, <2>4, Zenon DEF TxTyped
    <3>2. p \in Packet /\ l \in Nat
        BY <3>1, Zenon DEF Segment
    <3>3. a \in TxIndex /\ b \in Nat
      <4>1. hw.txp + 1 \in Int
          BY <2>2 DEF TxIndex
      <4> QED
          BY <1>e, <1>n, <4>1, TxPlaces
    <3> HIDE DEF d, p, l, a, b
    <3>4. got \in [pkt: Packet, got: Nat]
      <4>1. CASE hw.frame = None
          BY <3>2, <4>1, Zenon
      <4>2. CASE hw.frame # None
        <5>1. hw.frame \in [pkt: Packet, got: Nat]
            BY <2>2, <4>2, Zenon
        <5> QED
            BY <3>2, <4>2, <5>1
      <4> QED
          BY <4>1, <4>2, Zenon
    <3> HIDE DEF got
    <3>5. c \in [pkt: Packet, got: Nat] \cup {None} /\ wire' \in [pkt: Packet, got: Nat] \cup {None}
        BY <1>h, <2>1, <2>4, <3>4, Zenon
    <3> HIDE DEF c
    <3>6. hw' \in Hw
        BY <1>h, <2>1, <2>4, <3>3, <3>5, ZenonT(60) DEF Hw
    <3> QED
        BY <3>5, <3>6, Zenon
  <2> QED
      BY <2>3, <2>4, Zenon
<1>12. CASE HwRx
  <2> DEFINE a == (hw.rxp + 1) % RxSize
             b == hw.pr + 1
  <2>1. /\ wire' = wire
        /\ \/ hw' = [hw EXCEPT !.rxe = FALSE, !.of = TRUE]
           \/ hw.rxp # None /\ hw' = [hw EXCEPT !.rxp = a, !.pr = b]
      BY <1>12, Zenon DEF HwRx
  <2>2. hw.rxp # None => a \in RxIndex /\ b \in Nat
    <3> SUFFICES ASSUME hw.rxp # None PROVE a \in RxIndex /\ b \in Nat
        BY Zenon
    <3>1. hw.rxp \in RxIndex
        BY <1>h, Zenon DEF Hw
    <3>2. hw.rxp + 1 \in Int
        BY <3>1 DEF RxIndex
    <3>3. a \in RxIndex
        BY <3>2, SizesAssumption, Remainder, Zenon DEF RxIndex
    <3>4. b \in Nat
        BY <1>n
    <3> QED
        BY <3>3, <3>4, Zenon
  <2> HIDE DEF a, b
  <2> QED
      BY <1>h, <2>1, <2>2, Zenon DEF Hw
<1>13. CASE Hang
    BY <1>13, <1>h, Zenon DEF Hang, Hw
<1>14. CASE interrupt
    BY <1>14, <1>h, Zenon DEF interrupt, Hw
<1>15. CASE \E link \in BOOLEAN : link_adjust(link)
  <2>1. (hw' = hw_stop(hw) \/ Reset(Reaped(Used(tx)), hw) \/ hw' = hw_start(hw)) /\ wire' = wire
      BY <1>15, Zenon DEF link_adjust
  <2>2. TxTyped(Reaped(Used(tx)))
      BY <1>e, <1>t, ReleasedNumber, ReapedTyped, SMTT(30)
  <2> QED
      BY <1>e, <1>h, <1>r, <2>1, <2>2, ResetTyped, Zenon
<1>16. CASE \/ \E len \in Lengths : hard_start_xmit(len)
            \/ fill_dma_desc \/ Inject \/ oom_timer_handler \/ NapiDisabled \/ rings_cleanup \/ tx_timeout
            \/ UNCHANGED vars
  <2>1. UNCHANGED <<hw, wire>>
      BY <1>16, Zenon DEF hard_start_xmit, fill_dma_desc, Inject, oom_timer_handler, NapiDisabled, rings_cleanup,
                   tx_timeout, vars
  <2> QED
      BY <1>1, <2>1, Zenon
<1> QED
    BY Steps, <1>2, <1>3, <1>4, <1>5, <1>6, <1>7, <1>8, <1>9, <1>10, <1>11, <1>12, <1>13, <1>14, <1>15, <1>16, Zenon

\* ... and the rest of the state.
LEMMA OthersTypedNext ==
    ASSUME Typed, [Next]_vars
    PROVE  /\ left' \in Left /\ bug' \in BOOLEAN
           /\ poll' \in [pc: {"idle", "rx", "status", "txstatus"}, full: BOOLEAN]
<1>1. /\ left \in Left /\ bug \in BOOLEAN
      /\ poll \in [pc: {"idle", "rx", "status", "txstatus"}, full: BOOLEAN]
    BY Zenon DEF Typed, TypeOK
<1>2. left' \in Left
  <2>1. \/ left' = left
        \/ left.links > 0 /\ left' = [left EXCEPT !.links = @ - 1]
        \/ left.hangs > 0 /\ left' = [left EXCEPT !.hangs = @ - 1]
        \/ left.ooms > 0 /\ left' = [left EXCEPT !.ooms = @ - 1]
        \/ left.closes > 0 /\ left' = [left EXCEPT !.closes = @ - 1]
    <3>1. CASE PollRx
      <4>1. \/ left' = left
            \/ \E r : /\ r < Used(rx) + Taken => left.ooms > 0
                      /\ left' = [left EXCEPT !.ooms = IF r < Used(rx) + Taken THEN @ - 1 ELSE @]
          BY <3>1, Zenon DEF PollRx
      <4>2. ASSUME NEW r, r < Used(rx) + Taken => left.ooms > 0,
                   left' = [left EXCEPT !.ooms = IF r < Used(rx) + Taken THEN @ - 1 ELSE @]
            PROVE  left' = left \/ (left.ooms > 0 /\ left' = [left EXCEPT !.ooms = @ - 1])
        <5>1. CASE r < Used(rx) + Taken
            BY <4>2, <5>1, Zenon
        <5>2. CASE ~(r < Used(rx) + Taken)
          <6>1. left' = [left EXCEPT !.ooms = left.ooms]
              BY <4>2, <5>2, ZenonT(60), Zenon
          <6> QED
              BY <1>1, <6>1, Zenon DEF Left
        <5> QED
            BY <5>1, <5>2, Zenon
      <4> QED
          BY <4>1, <4>2, Zenon
    <3>2. CASE PollTx
      <4>1. PICK dma_stuck \in BOOLEAN :
              /\ dma_stuck => hw.hung \/ left.hangs > 0
              /\ left' = [left EXCEPT !.hangs = IF dma_stuck /\ ~hw.hung THEN @ - 1 ELSE @]
          BY <3>2, ZenonT(60) DEF PollTx
      <4>2. CASE dma_stuck /\ ~hw.hung
          BY <4>1, <4>2, Zenon
      <4>3. CASE ~(dma_stuck /\ ~hw.hung)
        <5>1. left' = [left EXCEPT !.hangs = left.hangs]
            BY <4>1, <4>3, ZenonT(60), Zenon
        <5> QED
            BY <1>1, <5>1, Zenon DEF Left
      <4> QED
          BY <4>2, <4>3, Zenon
    <3> QED
        BY Steps, <3>1, <3>2, ZenonT(60), Zenon DEF hard_start_xmit, fill_dma_desc, Inject, Kick, PollStatus, PollTxStatus,
             oom_timer_handler, open, stop, restart_work_func, NapiDisabled, rings_cleanup, RestartEnable,
             RestartFlush, RestartReset, tx_timeout, HwTx, HwRx, Hang, interrupt, link_adjust, vars
  <2> QED
      BY <1>1, <2>1, SMTT(30) DEF Left
<1>3. bug' \in BOOLEAN
    BY <1>1, Steps, ZenonT(60) DEF hard_start_xmit, fill_dma_desc, Inject, Kick, PollTx, PollRx, PollStatus, PollTxStatus,
             oom_timer_handler, open, stop, restart_work_func, NapiDisabled, rings_cleanup, RestartEnable,
             RestartFlush, RestartReset, tx_timeout, HwTx, HwRx, Hang, interrupt, link_adjust, vars
<1> DEFINE full == Taken = Weight
<1>4. \/ poll' = poll \/ poll' = NoPoll \/ poll' = [pc |-> "rx", full |-> FALSE]
      \/ poll' = [pc |-> "status", full |-> full] \/ poll' = [poll EXCEPT !.pc = "txstatus"]
    BY Steps, Zenon DEF hard_start_xmit, fill_dma_desc, Inject, Kick, PollTx, PollRx, PollStatus, PollTxStatus, More,
             oom_timer_handler, open, stop, restart_work_func, NapiDisabled, rings_cleanup, RestartEnable,
             RestartFlush, RestartReset, tx_timeout, HwTx, HwRx, Hang, interrupt, link_adjust, vars
<1>5. poll' \in [pc: {"idle", "rx", "status", "txstatus"}, full: BOOLEAN]
  <2>1. full \in BOOLEAN
      BY Zenon
  <2> HIDE DEF full
  <2>2. [pc |-> "status", full |-> full] \in [pc: {"idle", "rx", "status", "txstatus"}, full: BOOLEAN]
      BY <2>1, Zenon
  <2>3. [poll EXCEPT !.pc = "txstatus"] \in [pc: {"idle", "rx", "status", "txstatus"}, full: BOOLEAN]
      BY <1>1, Zenon
  <2>4. /\ NoPoll \in [pc: {"idle", "rx", "status", "txstatus"}, full: BOOLEAN]
        /\ [pc |-> "rx", full |-> FALSE] \in [pc: {"idle", "rx", "status", "txstatus"}, full: BOOLEAN]
      BY Zenon DEF NoPoll
  <2> QED
      BY <1>1, <1>4, <2>2, <2>3, <2>4, Zenon
<1> QED
    BY <1>2, <1>3, <1>5, Zenon

LEMMA TypedNext ==
    ASSUME Control, PollOrInterrupt, RxRing, Engines, Typed, [Next]_vars
    PROVE  Typed'
<1>1. TxTyped(tx') /\ XmitTyped(xmit') /\ Fits(xmit') /\ Begun(tx', xmit')
    BY TxTypedNext, Zenon
<1>2. hw' \in Hw /\ wire' \in [pkt: Packet, got: Nat] \cup {None}
    BY HwTypedNext, Zenon
<1>3. /\ left' \in Left /\ bug' \in BOOLEAN
      /\ poll' \in [pc: {"idle", "rx", "status", "txstatus"}, full: BOOLEAN]
    BY OthersTypedNext, Zenon
<1>4. Control'
    BY ControlNext, Zenon
<1>5. rx' \in [curr: Counter, dirty: Counter, empty: [RxIndex -> BOOLEAN], buf: [RxIndex -> BOOLEAN]]
    BY RxRingNext, Zenon DEF RxRing
<1>6. env' = env
    BY TxSteps, Zenon
<1>7. TxTyped(tx)' /\ XmitTyped(xmit)' /\ Fits(xmit)' /\ Begun(tx, xmit)' /\ (hw \in Hw)'
    BY <1>1, <1>2, <1>6, Zenon DEF TxTyped, XmitTyped, Fits, Begun, Hw, Need, TxIndex, TxSize
<1> QED
    BY <1>2, <1>3, <1>4, <1>5, <1>7, Zenon DEF Typed, TypeOK, TxTyped, XmitTyped, Control

\* Every variable keeps its type, for all rings, surroundings and interleavings:
\* the engine never reads a segment that is not there, the counters wrap within
\* their range and what may still happen is never less than nothing.  It rests on
\* fill_dma_desc keeping the first descriptor from the engine until the last one
\* is filled, and on a packet never taking more descriptors than the ring has.
THEOREM TypesHold == Spec => []TypeOK
<1> DEFINE Inv == Control /\ PollOrInterrupt /\ RxRing /\ Engines /\ Typed
<1>1. Init => Inv
    BY ControlInit, RxRingInit, EnginesInit, TypedInit, Zenon
<1>2. Inv /\ [Next]_vars => Inv'
    BY ControlNext, RxRingNext, EnginesNext, TypedNext, Zenon
<1>3. Inv => TypeOK
    BY Zenon DEF Typed
<1> QED
    BY <1>1, <1>2, <1>3, PTL DEF Spec

-----------------------------------------------------------------------------
(* Room in the transmit ring *)

\* What wakes the queue without a look at the ring lets a packet through that the
\* queue was stopped for: a link change that does not reset the MAC, but for the
\* first one, and the end of a restart.
Extra == IF env.fast_reset \/ (env.links <= 1 /\ env.hangs = 0) THEN 0 ELSE Need

\* At most one such wake-up meets a ring in use, and a quarter of the ring holds
\* the packets between.
Roomy ==
    /\ IF env.fast_reset THEN Calm ELSE env.links <= 1 \/ (env.links <= 2 /\ env.hangs = 0)
    /\ 4 * (Need + Extra) <= TxSize

\* The room that is kept for it.
Margin(links, pc) ==
    IF env.fast_reset THEN 0
    ELSE IF env.hangs = 0 THEN IF links = 0 THEN 0 ELSE Extra
    ELSE IF pc \in {"flush", "reset"} THEN Extra ELSE 0

\* The descriptors of a packet that is not in the ring yet.
Filling(x) == IF x.pc \in {"fill", "inject"} THEN x.n ELSE 0

\* From place u on the ring is clear.
Clear(t, u) == \A k \in u .. TxSize - 1 : t.desc[(t.dirty + k) % TxSize].empty

\* There is room for what xmit still puts into the ring, and while the queue is
\* awake for one more packet.
Fit(t, x, queue, links, pc) ==
    /\ Used(t) + Margin(links, pc) <= TxSize
    /\ Clear(t, Used(t) + Filling(x))
    /\ x.pc \in {"fill", "inject"} \/ (x.pc = "idle" /\ queue = "awake") => Used(t) + Need + Margin(links, pc) <= TxSize

Nothing(t, x) == x.pc = "idle" /\ Used(t) = 0

\* Nothing is sent before the first link change, nor while a restart has no ring,
\* nor between its release of the packets and the reset of the MAC.
Space ==
    /\ Fit(tx, xmit, dev.queue, left.links, job.pc)
    /\ left.links <= env.links
    /\ left.links = env.links => ~dev.active /\ Nothing(tx, xmit)
    /\ job.pc \in {"enable", "flush", "reset"} => job.kind = "restart"
    /\ job.pc = "enable" => ~dev.alloc /\ Nothing(tx, xmit)
    /\ job.pc = "reset" /\ env.fast_reset => Nothing(tx, xmit)

LEMMA Wrapped ==
    ASSUME env \in Envs, NEW a \in Int, NEW k \in Int
    PROVE  ((a % Wrap) + k) % TxSize = (a + k) % TxSize
<1>1. TxSize \in Nat \ {0} /\ Wrap \in Nat \ {0} /\ Wrap % TxSize = 0
    BY TxPlaces, Zenon
<1> DEFINE r == a % Wrap
<1>2. r \in Int /\ r + k \in Int /\ a + k \in Int
    BY <1>1, Remainder
<1>3. (r + k) % Wrap = (a + k) % Wrap
    BY <1>1, RemainderSum, Zenon
<1> HIDE DEF r
<1>4. ((r + k) % Wrap) % TxSize = (r + k) % TxSize
    BY <1>1, <1>2, RemainderRemainder, Zenon
<1>5. ((a + k) % Wrap) % TxSize = (a + k) % TxSize
    BY <1>1, <1>2, RemainderRemainder, Zenon
<1>6. (r + k) % TxSize = (a + k) % TxSize
    BY <1>3, <1>4, <1>5, Zenon
<1> QED
    BY <1>6, Zenon DEF r

\* The places from Used on are those from curr on.
LEMMA UsedPlaces ==
    ASSUME env \in Envs, NEW t, TxTyped(t)
    PROVE  /\ Used(t) \in 0 .. Wrap - 1 /\ t.curr \in Int /\ t.dirty \in Int
           /\ \A k \in Int : (t.dirty + (Used(t) + k)) % TxSize = (t.curr + k) % TxSize
<1>1. TxSize \in Nat \ {0} /\ Wrap \in Nat \ {0}
    BY TxPlaces, Zenon
<1>2. t.curr \in Int /\ t.dirty \in Int
    BY <1>1 DEF TxTyped, Counter
<1> DEFINE a == t.curr - t.dirty
<1>3. a \in Int /\ Used(t) = a % Wrap
    BY <1>2 DEF Used
<1>4. Used(t) \in 0 .. Wrap - 1
    BY <1>1, <1>3, TxPlaces, Zenon DEF Counter
<1>5. ASSUME NEW k \in Int
      PROVE  (t.dirty + (Used(t) + k)) % TxSize = (t.curr + k) % TxSize
  <2> DEFINE b == t.dirty + k
  <2>1. b \in Int /\ a + b = t.curr + k
      BY <1>2
  <2> HIDE DEF a
  <2>2. ((a % Wrap) + b) % TxSize = (a + b) % TxSize
      BY <1>3, <2>1, Wrapped, ZenonT(60), Zenon
  <2>3. (a % Wrap) + b = t.dirty + (Used(t) + k)
      BY <1>1, <1>2, <1>3, <1>4
  <2> QED
      BY <2>1, <2>2, <2>3, Zenon
<1> QED
    BY <1>2, <1>4, <1>5, Zenon

\* Released descriptors leave the front of the ring, and are clear at its end.
LEMMA ReapedRoom ==
    ASSUME env \in Envs, TxTyped(tx), Used(tx) <= TxSize, Clear(tx, Used(tx)), NEW m \in 0 .. Used(tx)
    PROVE  Used(Reaped(m)) = Used(tx) - m /\ Clear(Reaped(m), Used(tx) - m)
<1>1. TxSize \in Nat \ {0} /\ Wrap \in Nat \ {0} /\ TxSize < Wrap
    BY TxPlaces, Zenon
<1> DEFINE u == Used(tx)
           t == Reaped(m)
<1>2. u \in 0 .. Wrap - 1 /\ tx.curr \in Int /\ tx.dirty \in Int /\ m \in Nat /\ m <= u
    BY UsedPlaces, SMTT(30)
<1>3. /\ t.curr = tx.curr /\ t.dirty = (tx.dirty + m) % Wrap
      /\ \A i \in TxIndex : t.desc[i] = IF \E k \in 0 .. m - 1 : TxAt(k) = i THEN Free ELSE tx.desc[i]
    BY <1>2, ReapedTyped, Zenon
<1>4. Used(t) = u - m
  <2> DEFINE a == tx.curr - tx.dirty
             b == tx.dirty + m
  <2>1. a \in Int /\ b \in Int /\ -m \in Int /\ a + (-m) = tx.curr - b /\ u = a % Wrap
      BY <1>2 DEF Used
  <2>2. Used(t) = (tx.curr - (b % Wrap)) % Wrap
      BY <1>3, ZenonT(60), Zenon DEF Used
  <2> HIDE DEF a, b, t, u
  <2>3. (tx.curr - (b % Wrap)) % Wrap = (tx.curr - b) % Wrap
      BY <1>1, <1>2, <2>1, RemainderSum, Zenon
  <2>4. ((a % Wrap) + (-m)) % Wrap = (a + (-m)) % Wrap
      BY <1>1, <2>1, RemainderSum, ZenonT(60), Zenon
  <2>5. (u + (-m)) % Wrap = u - m
      BY <1>1, <1>2
  <2> QED
      BY <2>1, <2>2, <2>3, <2>4, <2>5, ZenonT(60), Zenon
<1>5. ASSUME NEW k \in u - m .. TxSize - 1
      PROVE  t.desc[(t.dirty + k) % TxSize].empty
  <2> DEFINE b == tx.dirty + m
             j == (b + k) % TxSize
  <2>0. k \in Int /\ b \in Int /\ b + k \in Int
      BY <1>1, <1>2, SMTT(30)
  <2>1. (t.dirty + k) % TxSize = j /\ j \in TxIndex
      BY <1>3, <2>0, Wrapped, TxPlaces, Zenon
  <2>2. Free.empty
      BY Zenon DEF Free
  <2>3. CASE k + m < TxSize
    <3>1. k + m \in u .. TxSize - 1 /\ b + k = tx.dirty + (k + m)
        BY <1>1, <1>2, <2>3, SMTT(30)
    <3>2. tx.desc[j].empty
        BY <3>1, Zenon DEF Clear
    <3> HIDE DEF t, j
    <3> QED
        BY <1>3, <2>1, <2>2, <3>2, Zenon
  <2>4. CASE k + m >= TxSize
    <3> DEFINE l == k + m - TxSize
    <3>1. l \in 0 .. m - 1 /\ b + k = (tx.dirty + l) + 1 * TxSize /\ tx.dirty + l \in Int
        BY <1>1, <1>2, <2>4, SMTT(30)
    <3> DEFINE c == tx.dirty + l
    <3>c. c \in Int /\ 1 \in Int
        BY <3>1
    <3> HIDE DEF c
    <3>4. (c + 1 * TxSize) % TxSize = c % TxSize
        BY <1>1, <3>c, SameRemainder, ZenonT(60), Zenon
    <3>2. ((tx.dirty + l) + 1 * TxSize) % TxSize = (tx.dirty + l) % TxSize
        BY <3>4, ZenonT(60), Zenon DEF c
    <3>3. TxAt(l) = j
        BY <3>1, <3>2, Zenon DEF TxAt
    <3> HIDE DEF t, j, l
    <3> QED
        BY <1>3, <2>1, <2>2, <3>1, <3>3, ZenonT(60), Zenon
  <2> QED
      BY <1>1, <1>2, <2>3, <2>4, SMTT(30)
<1> HIDE DEF t, u
<1>6. Clear(t, u - m)
    BY <1>5, Zenon DEF Clear
<1> QED
    BY <1>4, <1>6, Zenon DEF t, u

\* A ring that is clear from the start has no descriptor for the engine.
LEMMA AllClear ==
    ASSUME env \in Envs, NEW t, TxTyped(t), Clear(t, 0)
    PROVE  \A i \in TxIndex : t.desc[i].empty
<1>1. TxSize \in Nat \ {0}
    BY TxPlaces, Zenon
<1> SUFFICES ASSUME NEW i \in TxIndex PROVE t.desc[i].empty
    BY Zenon
<1>2. t.dirty \in Int /\ i \in Int /\ i \in 0 .. TxSize - 1
    BY <1>1, UsedPlaces DEF TxIndex
<1> DEFINE a == i - t.dirty
           k == a % TxSize
<1>a. a \in Int /\ t.dirty + a = i
    BY <1>2
<1> HIDE DEF a
<1>3. k \in 0 .. TxSize - 1
    BY <1>1, <1>a, Remainder, ZenonT(60), Zenon
<1>4. (k + t.dirty) % TxSize = (a + t.dirty) % TxSize
    BY <1>1, <1>2, <1>a, RemainderSum, ZenonT(60), Zenon
<1>5. i % TxSize = i
    BY <1>1, <1>2
<1> HIDE DEF k
<1>6. (t.dirty + k) % TxSize = i
    BY <1>2, <1>a, <1>3, <1>4, <1>5
<1> QED
    BY <1>3, <1>6, Zenon DEF Clear

\* A ring that starts again at its first descriptor.
LEMMA ClearStart ==
    ASSUME env \in Envs, NEW t, t.curr = 0, t.dirty = 0, \A i \in TxIndex : t.desc[i].empty
    PROVE  Used(t) = 0 /\ Clear(t, 0)
<1>1. TxSize \in Nat \ {0} /\ Wrap \in Nat \ {0}
    BY TxPlaces, Zenon
<1>2. Used(t) = 0
    BY <1>1 DEF Used
<1>3. ASSUME NEW k \in 0 .. TxSize - 1
      PROVE  t.desc[(t.dirty + k) % TxSize].empty
    BY <1>1 DEF TxIndex
<1> QED
    BY <1>2, <1>3, Zenon DEF Clear

LEMMA RoomNumbers ==
    ASSUME Typed, Roomy
    PROVE  /\ TxSize \in Nat \ {0} /\ Wrap \in Nat /\ TxSize < Wrap /\ Used(tx) \in Nat
           /\ Need \in Nat \ {0} /\ Extra \in {0, Need} /\ 4 * (Need + Extra) <= TxSize
           /\ env.links \in Nat /\ left.links \in Nat
           /\ \A links, pc : Margin(links, pc) \in {0, Extra}
<1>1. env \in Envs /\ TxTyped(tx) /\ left \in Left
    BY Zenon DEF Typed, TypeOK
<1>2. TxSize \in Nat \ {0} /\ Wrap \in Nat /\ TxSize < Wrap /\ Used(tx) \in 0 .. Wrap - 1
    BY <1>1, TxPlaces, UsedPlaces, Zenon
<1>3. Need \in Nat \ {0} /\ env.links \in Nat
    BY <1>1, EnvsAssumption, PacketsAssumption, SMTT(30) DEF Need, Env
<1>4. Extra \in {0, Need}
    BY Zenon DEF Extra
<1>5. \A links, pc : Margin(links, pc) \in {0, Extra}
    BY Zenon DEF Margin
<1>6. 4 * (Need + Extra) <= TxSize
    BY Zenon DEF Roomy
<1>7. left.links \in Nat
    BY <1>1, Zenon DEF Left
<1>8. Used(tx) \in Nat
    BY <1>2
<1> QED
    BY <1>2, <1>3, <1>4, <1>5, <1>6, <1>7, <1>8, Zenon

\* An empty ring has room.
LEMMA EmptyFit ==
    ASSUME Typed, Roomy, NEW t, Used(t) = 0, Clear(t, 0), NEW x, x.pc = "idle", NEW queue, NEW links, NEW pc
    PROVE  Fit(t, x, queue, links, pc)
<1>1. Margin(links, pc) \in {0, Extra}
    BY RoomNumbers, Zenon
<1>2. Filling(x) = 0
    BY Zenon DEF Filling
<1>3. 0 + Need + Margin(links, pc) <= TxSize /\ 0 + Margin(links, pc) <= TxSize
    BY <1>1, RoomNumbers
<1>4. Clear(t, 0 + 0)
    BY SMTT(30)
<1> QED
    BY <1>2, <1>3, <1>4, Zenon DEF Fit

\* tx_packets wakes the queue where there is room for a packet.
LEMMA ReapedFit ==
    ASSUME Typed, Roomy, Fit(tx, xmit, dev.queue, left.links, job.pc), xmit.pc = "idle", NEW m \in 0 .. Used(tx)
    PROVE  Fit(Reaped(m), xmit, Woken(m), left.links, job.pc) /\ Used(Reaped(m)) = Used(tx) - m
<1> DEFINE mg == Margin(left.links, job.pc)
           u == Used(tx)
<1>1. /\ mg \in {0, Extra} /\ u \in Nat /\ m \in Nat /\ m <= u
      /\ Need \in Nat \ {0} /\ Extra \in {0, Need} /\ 4 * (Need + Extra) <= TxSize /\ TxSize \in Nat
    BY RoomNumbers
<1>2. Filling(xmit) = 0
    BY Zenon DEF Filling
<1>3. u + mg <= TxSize /\ Clear(tx, u) /\ (dev.queue = "awake" => u + Need + mg <= TxSize)
  <2>1. u + mg <= TxSize /\ Clear(tx, u + 0) /\ (dev.queue = "awake" => u + Need + mg <= TxSize)
      BY <1>2, Zenon DEF Fit
  <2>2. u + 0 = u
      BY <1>1
  <2> QED
      BY <2>1, <2>2, Zenon
<1>4. Used(Reaped(m)) = u - m /\ Clear(Reaped(m), u - m)
  <2>1. env \in Envs /\ TxTyped(tx) /\ u <= TxSize
      BY <1>1, <1>3 DEF Typed, TypeOK
  <2> QED
      BY <1>3, <2>1, ReapedRoom, Zenon
<1> HIDE DEF mg, u
<1>5. u - m + mg <= TxSize
    BY <1>1, <1>3
<1>6. Woken(m) = "awake" => u - m + Need + mg <= TxSize
  <2>1. CASE m > 0 /\ u - m < (TxSize * 3) \div 4
      BY <1>1, <2>1
  <2>2. CASE ~(m > 0 /\ u - m < (TxSize * 3) \div 4)
    <3>1. Woken(m) = dev.queue
        BY <2>2, Zenon DEF Woken, u
    <3> QED
        BY <1>1, <1>3, <3>1
  <2> QED
      BY <2>1, <2>2, Zenon
<1>7. Clear(Reaped(m), u - m + 0)
  <2>1. u - m + 0 = u - m
      BY <1>1
  <2> QED
      BY <1>4, <2>1, Zenon
<1> QED
    BY <1>2, <1>4, <1>5, <1>6, <1>7, Zenon DEF Fit, mg, u

\* Space in the next state, in terms of what the variables are there.
LEMMA SpaceFrom ==
    ASSUME env' = env, Fit(tx', xmit', dev'.queue, left'.links, job'.pc), left'.links <= env.links,
           left'.links = env.links => ~dev'.active /\ Nothing(tx', xmit'),
           job'.pc \in {"enable", "flush", "reset"} => job'.kind = "restart",
           job'.pc = "enable" => ~dev'.alloc /\ Nothing(tx', xmit'),
           job'.pc = "reset" /\ env.fast_reset => Nothing(tx', xmit')
    PROVE  Space'
<1>1. Fit(tx, xmit, dev.queue, left.links, job.pc)'
    BY Zenon DEF Fit, Used, Margin, Extra, Need, Clear, Filling, TxSize
<1>2. Nothing(tx, xmit)' <=> Nothing(tx', xmit')
    BY Zenon DEF Nothing, Used
<1> QED
    BY <1>1, <1>2, Zenon DEF Space

\* Steps that leave the ring and its packets alone.
LEMMA KeptSpace ==
    ASSUME Typed, Roomy, Space, env' = env, tx' = tx, xmit' = xmit, left'.links = left.links,
           dev'.queue \in {dev.queue, "stopped"}, dev'.active => dev.active, dev'.alloc => dev.alloc,
           \/ job'.pc = job.pc /\ job'.kind = job.kind
           \/ job'.pc \in {"none", "disable", "cleanup"}
    PROVE  Space'
<1> DEFINE mg == Margin(left.links, job.pc)
           mh == Margin(left'.links, job'.pc)
           u == Used(tx)
<1>1. mg \in {0, Extra} /\ mh \in {0, Extra} /\ u \in Nat /\ Need \in Nat /\ Extra \in Nat /\ TxSize \in Nat
    BY RoomNumbers, SMTT(30)
<1>2. mh = mg \/ mh = 0
    BY Zenon DEF Margin
<1>3. u + mg <= TxSize /\ Clear(tx, u + Filling(xmit))
      /\ (xmit.pc \in {"fill", "inject"} \/ (xmit.pc = "idle" /\ dev.queue = "awake") => u + Need + mg <= TxSize)
    BY Zenon DEF Space, Fit
<1> HIDE DEF mg, mh, u
<1>4. u + mh <= TxSize /\ (u + Need + mg <= TxSize => u + Need + mh <= TxSize)
    BY <1>1, <1>2, <1>3
<1>5. Fit(tx', xmit', dev'.queue, left'.links, job'.pc)
    BY <1>3, <1>4, Zenon DEF Fit, mh, u
<1>6. Nothing(tx', xmit') = Nothing(tx, xmit)
    BY ZenonT(60), Zenon
<1> QED
    BY <1>5, <1>6, SpaceFrom, Zenon DEF Space

LEMMA SpaceInit ==
    ASSUME Init, Roomy
    PROVE  Space
<1>1. Typed /\ env \in Envs
    BY TypedInit, Zenon DEF Init
<1>2. /\ tx = EmptyTx /\ xmit.pc = "idle" /\ job.pc = "none" /\ left.links = env.links /\ ~dev.active
    BY Zenon DEF Init, NoXmit, NoJob
<1>3. tx.curr = 0 /\ tx.dirty = 0 /\ \A i \in TxIndex : tx.desc[i].empty
    BY <1>2, Zenon DEF EmptyTx, Free
<1>4. Used(tx) = 0 /\ Clear(tx, 0)
    BY <1>1, <1>3, ClearStart, Zenon
<1>5. Fit(tx, xmit, dev.queue, left.links, job.pc)
    BY <1>1, <1>2, <1>4, EmptyFit, Zenon
<1>6. left.links <= env.links
    BY <1>1, <1>2, RoomNumbers, SMTT(30)
<1> QED
    BY <1>2, <1>4, <1>5, <1>6, Zenon DEF Space, Nothing

\* The quiet steps.
LEMMA QuietSpace ==
    ASSUME Typed, Roomy, Space,
           \/ PollRx \/ PollStatus \/ PollTxStatus \/ oom_timer_handler \/ stop \/ restart_work_func
           \/ NapiDisabled \/ tx_timeout \/ HwRx \/ Hang \/ interrupt \/ UNCHANGED vars
    PROVE  Space'
<1>t. /\ left \in Left
      /\ dev \in [up: BOOLEAN, active: BOOLEAN, phy: BOOLEAN, link: BOOLEAN, alloc: BOOLEAN, queue: {"awake", "stopped"}]
      /\ job \in [kind: {"none", "stop", "restart"}, pc: {"none", "disable", "cleanup", "enable", "flush", "reset"}]
    BY Zenon DEF Typed, TypeOK
<1>1. env' = env /\ tx' = tx /\ xmit' = xmit
    BY Zenon DEF PollRx, PollStatus, PollTxStatus, oom_timer_handler, stop, restart_work_func, NapiDisabled,
           tx_timeout, HwRx, Hang, interrupt, vars
<1>2. left'.links = left.links
  <2>1. left' = left \/ (\E n : left' = [left EXCEPT !.ooms = n]) \/ (\E n : left' = [left EXCEPT !.hangs = n])
                     \/ (\E n : left' = [left EXCEPT !.closes = n])
    <3>1. CASE PollRx
        BY <3>1, Zenon DEF PollRx
    <3>2. CASE ~PollRx
        BY <3>2, Zenon DEF PollStatus, PollTxStatus, oom_timer_handler, stop, restart_work_func, NapiDisabled,
               tx_timeout, HwRx, Hang, interrupt, vars
    <3> QED
        BY <3>1, <3>2, Zenon
  <2> QED
      BY <1>t, <2>1, Zenon DEF Left
<1>3. dev'.queue \in {dev.queue, "stopped"} /\ (dev'.active => dev.active) /\ (dev'.alloc => dev.alloc)
  <2>1. \/ dev' = dev
        \/ dev' = [dev EXCEPT !.queue = "stopped"]
        \/ dev' = [dev EXCEPT !.up = FALSE, !.active = FALSE, !.phy = FALSE, !.link = FALSE, !.queue = "stopped"]
      BY Zenon DEF PollRx, PollStatus, PollTxStatus, oom_timer_handler, stop, restart_work_func, NapiDisabled,
             tx_timeout, HwRx, Hang, interrupt, vars
  <2> QED
      BY <1>t, <2>1, ZenonT(60)
<1>4. \/ job' = job
      \/ job'.pc \in {"none", "disable", "cleanup"}
  <2>1. \/ job' = job
        \/ job' = [job EXCEPT !.pc = "cleanup"]
        \/ \E k : job' = [kind |-> k, pc |-> "disable"]
      BY Zenon DEF PollRx, PollStatus, PollTxStatus, oom_timer_handler, stop, restart_work_func, NapiDisabled,
             tx_timeout, HwRx, Hang, interrupt, vars
  <2> QED
      BY <1>t, <2>1
<1> QED
    BY <1>1, <1>2, <1>3, <1>4, KeptSpace, Zenon

\* A descriptor before place w changes.
LEMMA PutClear ==
    ASSUME env \in Envs, TxTyped(tx), NEW w \in Nat, Clear(tx, w), NEW v \in Nat, v < w,
           NEW t, t.dirty = tx.dirty, \A j \in TxIndex : j # TxAt(v) => t.desc[j] = tx.desc[j]
    PROVE  Clear(t, w)
<1>1. TxSize \in Nat \ {0} /\ tx.dirty \in Int
    BY TxPlaces, UsedPlaces, Zenon
<1> SUFFICES ASSUME NEW k \in w .. TxSize - 1
             PROVE  t.desc[(tx.dirty + k) % TxSize].empty
    BY Zenon DEF Clear
<1> DEFINE a == tx.dirty + k
           b == tx.dirty + v
<1>2. a \in Int /\ b \in Int /\ a - b < TxSize /\ b - a < TxSize /\ a # b
    BY <1>1, SMTT(30)
<1>3. TxAt(v) = b % TxSize /\ tx.desc[a % TxSize].empty
    BY Zenon DEF TxAt, Clear
<1> HIDE DEF a, b
<1>4. a % TxSize # b % TxSize
    BY <1>1, <1>2, RemainderApart, ZenonT(60), Zenon
<1>5. a % TxSize \in TxIndex
    BY <1>2, TxPlaces, Zenon
<1> QED
    BY <1>3, <1>4, <1>5, Zenon DEF a

\* fill_dma_desc finds the descriptor empty.
LEMMA FillRoom ==
    ASSUME Typed, Roomy, Space
    PROVE  FillNeverFails
<1> SUFFICES ASSUME xmit.pc = "fill"
             PROVE  tx.desc[(tx.curr + xmit.n) % TxSize].empty
    BY Zenon DEF FillNeverFails
<1> DEFINE u == Used(tx)
           mg == Margin(left.links, job.pc)
           k == u + xmit.n
<1>1. /\ TxSize \in Nat /\ u \in Nat /\ Need \in Nat /\ mg \in Nat
      /\ xmit.n \in Nat /\ xmit.n < Need
    BY RoomNumbers DEF Typed, XmitTyped, Fits
<1>2. u + Need + mg <= TxSize /\ Clear(tx, k)
  <2>1. Filling(xmit) = xmit.n
      BY Zenon DEF Filling
  <2> QED
      BY <2>1, Zenon DEF Space, Fit
<1>3. (tx.dirty + k) % TxSize = (tx.curr + xmit.n) % TxSize
    BY <1>1, UsedPlaces DEF Typed, TypeOK
<1> HIDE DEF mg, u
<1>4. k \in k .. TxSize - 1
    BY <1>1, <1>2
<1> QED
    BY <1>2, <1>3, <1>4, Zenon DEF Clear

LEMMA SendSpace ==
    ASSUME Typed, Engines, Roomy, Space, NEW len, hard_start_xmit(len)
    PROVE  Space'
<1>1. /\ env' = env /\ tx' = tx /\ dev' = dev /\ left' = left /\ job' = job
      /\ xmit.pc = "idle" /\ dev.active /\ dev.queue = "awake" /\ (env.undisturbed => job.pc # "reset")
      /\ IF dev.alloc THEN xmit'.pc = "fill" /\ xmit'.n = 0 ELSE xmit' = xmit
  <2>1. /\ env' = env /\ tx' = tx /\ dev' = dev /\ left' = left /\ job' = job
        /\ xmit.pc = "idle" /\ dev.active /\ dev.queue = "awake" /\ (env.undisturbed => job.pc # "reset")
      BY ZenonT(60), Zenon DEF hard_start_xmit, SoftirqIdle
  <2>2. CASE dev.alloc
    <3>1. xmit' = [pc |-> "fill", pkt |-> [id |-> tx.curr % TxSize, len |-> len], len |-> len, n |-> 0]
        BY <2>2, ZenonT(60), Zenon DEF hard_start_xmit
    <3> QED
        BY <2>1, <2>2, <3>1, ZenonT(60), Zenon
  <2>3. CASE ~dev.alloc
      BY <2>1, <2>3, ZenonT(60), Zenon DEF hard_start_xmit
  <2> QED
      BY <2>2, <2>3, ZenonT(60), Zenon
<1>2. CASE ~dev.alloc
    BY <1>1, <1>2, KeptSpace, Zenon
<1>3. CASE dev.alloc
  <2>1. Filling(xmit) = 0 /\ Filling(xmit') = 0
      BY <1>1, <1>3, Zenon DEF Filling
  <2>2. Fit(tx', xmit', dev'.queue, left'.links, job'.pc)
      BY <1>1, <1>3, <2>1, Zenon DEF Space, Fit
  <2>3. job.pc = "reset" => ~env.fast_reset
      BY <1>1, Zenon DEF Space, Roomy, Calm, Engines
  <2> QED
      BY <1>1, <1>3, <2>2, <2>3, SpaceFrom, Zenon DEF Space
<1> QED
    BY <1>2, <1>3, Zenon

LEMMA FillSpace ==
    ASSUME Typed, Roomy, Space, fill_dma_desc
    PROVE  Space'
<1> DEFINE i == (tx.curr + xmit.n) % TxSize
           u == Used(tx)
           w == u + xmit.n
<1>t. env \in Envs /\ TxTyped(tx) /\ XmitTyped(xmit) /\ tx.curr \in Int /\ tx.dirty \in Int /\ u \in Nat /\ xmit.n \in Nat
    BY UsedPlaces, RoomNumbers, Zenon DEF Typed, TypeOK, XmitTyped
<1>0. /\ env' = env /\ left' = left /\ dev' = dev /\ job' = job /\ xmit.pc = "fill"
    BY Zenon DEF fill_dma_desc
<1>1. tx.desc[i].empty
    BY <1>0, FillRoom, Zenon DEF FillNeverFails
<1>2. PICK seg \in Segment, a \in Nat, pc \in {"fill", "inject"} :
        /\ tx' = [tx EXCEPT !.desc[i] = [empty |-> xmit.n = 0, seg |-> seg]]
        /\ xmit' = [xmit EXCEPT !.len = a, !.n = @ + 1, !.pc = pc]
  <2> HIDE DEF i
  <2> QED
      BY <1>1, FillTyped, Zenon DEF i
<1>3. xmit'.pc \in {"fill", "inject"} /\ xmit'.n = xmit.n + 1
    BY <1>2, <1>t, Zenon DEF XmitTyped
<1>4. i \in TxIndex /\ i = TxAt(w)
  <2>1. tx.curr + xmit.n \in Int
      BY <1>t
  <2> QED
      BY <1>t, <2>1, TxPlaces, UsedPlaces DEF TxAt
<1>5. tx'.curr = tx.curr /\ tx'.dirty = tx.dirty /\ \A j \in TxIndex : j # i => tx'.desc[j] = tx.desc[j]
  <2> DEFINE first == xmit.n = 0
             d == [empty |-> first, seg |-> seg]
  <2>1. d \in Desc /\ (d.empty \/ d.seg \in Segment)
      BY Zenon DEF Desc
  <2>2. tx' = [tx EXCEPT !.desc[i] = d]
      BY <1>2, Zenon
  <2> HIDE DEF i, d
  <2>3. Placed(tx', i, d)
      BY <2>1, <2>2, ZenonT(60), Zenon DEF Placed
  <2> QED
      BY <1>t, <1>4, <2>1, <2>3, PutTyped, SMTT(30)
<1> HIDE DEF i
<1>6. Used(tx') = u
    BY <1>5, Zenon DEF Used
<1>7. Filling(xmit) = xmit.n /\ Filling(xmit') = xmit.n + 1
    BY <1>0, <1>3, Zenon DEF Filling
<1>8. Clear(tx, w)
    BY <1>7, Zenon DEF Space, Fit
<1> HIDE DEF u
<1>9. Clear(tx', u + (xmit.n + 1))
  <2>1. w \in Nat /\ w + 1 = u + (xmit.n + 1) /\ w < w + 1
      BY <1>t, SMTT(30)
  <2>2. Clear(tx, w + 1)
      BY <1>8, <2>1, SMTT(30) DEF Clear
  <2> HIDE DEF w
  <2>3. \A j \in TxIndex : j # TxAt(w) => tx'.desc[j] = tx.desc[j]
      BY <1>4, <1>5, Zenon
  <2>4. Clear(tx', w + 1)
      BY <1>t, <1>5, <2>1, <2>2, <2>3, PutClear, SMTT(30)
  <2> QED
      BY <2>1, <2>4, Zenon
<1>a. Fit(tx', xmit', dev'.queue, left'.links, job'.pc)
    BY <1>0, <1>3, <1>6, <1>7, <1>9, Zenon DEF Space, Fit, u
<1>b. ~Nothing(tx, xmit)
    BY <1>0, Zenon DEF Nothing
<1> QED
    BY <1>0, <1>a, <1>b, SpaceFrom, Zenon DEF Space

\* What Inject does with the ring.
LEMMA Injected ==
    ASSUME Typed, Roomy, Space, Inject
    PROVE  /\ tx'.dirty = tx.dirty /\ Used(tx') = Used(tx) + xmit.n
           /\ tx'.desc = [tx.desc EXCEPT ![tx.curr % TxSize].empty = FALSE]
           /\ tx'.skb = [tx.skb EXCEPT ![(tx.curr + (xmit.n - 1)) % TxSize] = xmit.pkt]
<1> DEFINE u == Used(tx)
           c == tx.curr % TxSize
           mg == Margin(left.links, job.pc)
<1>0. xmit.pc = "inject"
    BY Zenon DEF Inject
<1>t. /\ TxTyped(tx) /\ tx.curr \in Int /\ tx.dirty \in Int
      /\ u \in Nat /\ xmit.n \in 1 .. Need /\ Need \in Nat /\ mg \in Nat /\ TxSize \in Nat /\ Wrap \in Nat \ {0} /\ TxSize < Wrap
  <2>1. env \in Envs /\ TxTyped(tx) /\ Fits(xmit)
      BY Zenon DEF Typed, TypeOK
  <2>2. tx.curr \in Int /\ tx.dirty \in Int
      BY <2>1, UsedPlaces, Zenon
  <2>3. xmit.n \in 1 .. Need
      BY <1>0, <2>1, Zenon DEF Fits
  <2> HIDE DEF u, mg
  <2> QED
      BY <2>1, <2>2, <2>3, RoomNumbers DEF u, mg
<1>1. /\ tx'.curr = (tx.curr + xmit.n) % Wrap /\ tx'.dirty = tx.dirty
      /\ tx'.desc = [tx.desc EXCEPT ![c].empty = FALSE]
      /\ tx'.skb = [tx.skb EXCEPT ![(tx.curr + (xmit.n - 1)) % TxSize] = xmit.pkt]
  <2> DEFINE b == (tx.curr + xmit.n) % Wrap
             a == (tx.curr + xmit.n - 1) % TxSize
             p == xmit.pkt
  <2>1. tx' = [tx EXCEPT !.skb[a] = p, !.desc[c].empty = FALSE, !.curr = b]
      BY Zenon DEF Inject
  <2>2. a = (tx.curr + (xmit.n - 1)) % TxSize
      BY Zenon
  <2> HIDE DEF a, b, c, p
  <2>3. tx'.curr = b /\ tx'.dirty = tx.dirty /\ tx'.desc = [tx.desc EXCEPT ![c].empty = FALSE] /\ tx'.skb = [tx.skb EXCEPT ![a] = p]
      BY <1>t, <2>1, Zenon DEF TxTyped
  <2> QED
      BY <2>2, <2>3, Zenon DEF b, p
<1>3. u + Need + mg <= TxSize
    BY <1>0, Zenon DEF Space, Fit
<1>4. Used(tx') = u + xmit.n
  <2> DEFINE a == tx.curr + xmit.n
             e == tx.curr - tx.dirty
  <2>1. a \in Int /\ e \in Int /\ -tx.dirty \in Int /\ a + (-tx.dirty) = e + xmit.n /\ xmit.n \in Int /\ u = e % Wrap
      BY <1>t DEF Used
  <2>2. (a % Wrap) + (-tx.dirty) = (a % Wrap) - tx.dirty
      BY <1>t, <2>1, Zenon
  <2>3. Used(tx') = ((a % Wrap) + (-tx.dirty)) % Wrap
      BY <1>1, <2>2, ZenonT(60), Zenon DEF Used
  <2> HIDE DEF a, e, u
  <2>4. ((a % Wrap) + (-tx.dirty)) % Wrap = (a + (-tx.dirty)) % Wrap
      BY <1>t, <2>1, RemainderSum, Zenon
  <2>5. ((e % Wrap) + xmit.n) % Wrap = (e + xmit.n) % Wrap
      BY <1>t, <2>1, RemainderSum, Zenon
  <2>6. (u + xmit.n) % Wrap = u + xmit.n
      BY <1>t, <1>3
  <2> QED
      BY <2>1, <2>3, <2>4, <2>5, <2>6, ZenonT(60)
<1> QED
    BY <1>1, <1>4, Zenon

LEMMA InjectSpace ==
    ASSUME Typed, Roomy, Space, Inject
    PROVE  Space'
<1> DEFINE u == Used(tx)
           c == tx.curr % TxSize
           mg == Margin(left.links, job.pc)
<1>0. /\ env' = env /\ left' = left /\ dev' = dev /\ job' = job /\ xmit.pc = "inject"
      /\ xmit' = [xmit EXCEPT !.pc = "kick"]
    BY Zenon DEF Inject
<1>t. /\ env \in Envs /\ TxTyped(tx) /\ XmitTyped(xmit) /\ tx.curr \in Int /\ tx.dirty \in Int
      /\ u \in Nat /\ xmit.n \in 1 .. Need /\ Need \in Nat /\ mg \in Nat /\ TxSize \in Nat /\ Wrap \in Nat \ {0} /\ TxSize < Wrap
    BY <1>0, UsedPlaces, RoomNumbers, SMTT(30) DEF Typed, TypeOK, Fits
<1>1. /\ tx'.dirty = tx.dirty /\ Used(tx') = u + xmit.n
      /\ \A j \in TxIndex : j # c => tx'.desc[j] = tx.desc[j]
  <2>1. tx'.dirty = tx.dirty /\ Used(tx') = u + xmit.n /\ tx'.desc = [tx.desc EXCEPT ![c].empty = FALSE]
      BY Injected, Zenon
  <2> HIDE DEF c, u
  <2> QED
      BY <1>t, <2>1, Zenon DEF TxTyped
<1>2. Filling(xmit) = xmit.n /\ Filling(xmit') = 0 /\ xmit'.pc = "kick"
    BY <1>0, <1>t, Zenon DEF Filling, XmitTyped
<1>3. u + Need + mg <= TxSize /\ Clear(tx, u + xmit.n)
    BY <1>0, <1>2, Zenon DEF Space, Fit
<1>5. c = TxAt(u)
  <2>1. (tx.dirty + (Used(tx) + 0)) % TxSize = (tx.curr + 0) % TxSize
      BY <1>t, UsedPlaces
  <2>2. Used(tx) + 0 = u /\ tx.curr + 0 = tx.curr
      BY <1>t
  <2> QED
      BY <2>1, <2>2, Zenon DEF TxAt
<1> HIDE DEF u, c, mg
<1>6. Clear(tx', (u + xmit.n) + 0)
  <2> DEFINE w == u + xmit.n
  <2>1. w \in Nat /\ u < w /\ w + 0 = w
      BY <1>t
  <2> HIDE DEF w
  <2>2. Clear(tx, w)
      BY <1>3, Zenon DEF w
  <2>3. Clear(tx', w)
      BY <1>t, <1>1, <1>5, <2>1, <2>2, PutClear, Zenon
  <2> QED
      BY <2>1, <2>3, Zenon DEF w
<1>7. (u + xmit.n) + mg <= TxSize
    BY <1>t, <1>3
<1>a. Fit(tx', xmit', dev'.queue, left'.links, job'.pc)
    BY <1>0, <1>1, <1>2, <1>6, <1>7, Zenon DEF Fit, mg
<1>b. ~Nothing(tx, xmit)
    BY <1>0, Zenon DEF Nothing
<1> QED
    BY <1>0, <1>a, <1>b, SpaceFrom, Zenon DEF Space

LEMMA KickSpace ==
    ASSUME Typed, Roomy, Space, Kick
    PROVE  Space'
<1> DEFINE u == Used(tx)
           mg == Margin(left.links, job.pc)
           q == IF TxFull THEN "stopped" ELSE dev.queue
<1>0. /\ env' = env /\ left' = left /\ tx' = tx /\ job' = job /\ xmit.pc = "kick"
      /\ xmit' = NoXmit /\ dev' = [dev EXCEPT !.queue = q]
    BY Zenon DEF Kick
<1>1. dev'.queue = q /\ dev'.active = dev.active /\ dev'.alloc = dev.alloc
  <2> HIDE DEF q
  <2> QED
      BY <1>0, Zenon DEF Typed, TypeOK
<1>2. /\ u \in Nat /\ Need \in Nat \ {0} /\ mg \in Nat /\ mg <= Need /\ TxSize \in Nat /\ Wrap \in Nat \ {0}
      /\ TxSize < Wrap /\ 2 * Need <= TxSize
    BY RoomNumbers
<1>3. ring_min = 2 * Need
    BY DEF ring_min, Need
<1>4. (TxSize - ring_min) % Wrap = TxSize - 2 * Need
    BY <1>2, <1>3
<1>5. TxFull <=> u >= TxSize - 2 * Need
    BY <1>4, Zenon DEF TxFull
<1>6. Filling(xmit) = 0 /\ Filling(xmit') = 0 /\ xmit'.pc = "idle"
    BY <1>0, Zenon DEF Filling, NoXmit
<1>7. u + mg <= TxSize /\ Clear(tx, u + 0)
    BY <1>6, Zenon DEF Space, Fit
<1>8. q = "awake" => u + Need + mg <= TxSize
  <2> HIDE DEF mg, u
  <2> QED
      BY <1>2, <1>5
<1>a. Fit(tx', xmit', dev'.queue, left'.links, job'.pc)
    BY <1>0, <1>1, <1>6, <1>7, <1>8, Zenon DEF Fit
<1>b. ~Nothing(tx, xmit)
    BY <1>0, Zenon DEF Nothing
<1> QED
    BY <1>0, <1>1, <1>a, <1>b, SpaceFrom, Zenon DEF Space

LEMMA HwTxSpace ==
    ASSUME Typed, Roomy, Space, HwTx
    PROVE  Space'
<1>0. /\ env' = env /\ left' = left /\ dev' = dev /\ job' = job /\ xmit' = xmit
      /\ tx' = tx \/ tx' = [tx EXCEPT !.desc[hw.txp] = Free]
    BY ZenonT(60), Zenon DEF HwTx
<1>t. env \in Envs /\ TxTyped(tx)
    BY Zenon DEF Typed, TypeOK
<1>1. tx'.curr = tx.curr /\ tx'.dirty = tx.dirty
    BY <1>0, <1>t, Zenon DEF TxTyped
<1>2. \A j \in TxIndex : tx.desc[j].empty => tx'.desc[j].empty
    BY <1>0, <1>t, SMTT(30) DEF TxTyped, Free
<1> DEFINE w == Used(tx) + Filling(xmit)
<1>3. Clear(tx', w)
  <2>1. Clear(tx, w)
      BY Zenon DEF Space, Fit
  <2> HIDE DEF w
  <2> SUFFICES ASSUME NEW k \in w .. TxSize - 1
               PROVE  tx'.desc[(tx.dirty + k) % TxSize].empty
      BY <1>1, Zenon DEF Clear
  <2>2. (tx.dirty + k) % TxSize \in TxIndex
    <3>1. w \in Int /\ TxSize \in Nat
        BY RoomNumbers DEF w, Filling, Typed, XmitTyped
    <3>2. tx.dirty + k \in Int
        BY <1>t, <3>1, UsedPlaces
    <3> QED
        BY <1>t, <3>2, TxPlaces, Zenon
  <2> QED
      BY <1>2, <2>1, <2>2, Zenon DEF Clear
<1>4. Used(tx') = Used(tx)
    BY <1>1, Zenon DEF Used
<1>5. Fit(tx', xmit', dev'.queue, left'.links, job'.pc)
    BY <1>0, <1>3, <1>4, Zenon DEF Space, Fit
<1>6. Nothing(tx', xmit') <=> Nothing(tx, xmit)
    BY <1>0, <1>4, Zenon DEF Nothing
<1> QED
    BY <1>0, <1>5, <1>6, SpaceFrom, Zenon DEF Space

LEMMA PollTxSpace ==
    ASSUME Typed, Roomy, Space, PollTx
    PROVE  Space'
<1> DEFINE m == Released(Finished)
<1>0. /\ env' = env /\ job' = job /\ xmit' = xmit /\ xmit.pc = "idle"
      /\ tx' = Reaped(m) /\ dev' = [dev EXCEPT !.queue = Woken(m)]
    BY ZenonT(60), Zenon DEF PollTx, SoftirqIdle
<1>l. left'.links = left.links
  <2>1. \E n : left' = [left EXCEPT !.hangs = n]
      BY ZenonT(60), Zenon DEF PollTx
  <2>2. left \in Left
      BY Zenon DEF Typed, TypeOK
  <2> QED
      BY <2>1, <2>2, Zenon DEF Left
<1>1. m \in 0 .. Used(tx)
    BY ReleasedNumber, Zenon DEF Typed, TypeOK
<1> HIDE DEF m
<1>2. dev'.queue = Woken(m) /\ dev'.active = dev.active /\ dev'.alloc = dev.alloc
  <2> DEFINE q == Woken(m)
  <2>1. dev' = [dev EXCEPT !.queue = q]
      BY <1>0, Zenon
  <2> HIDE DEF q
  <2> QED
      BY <2>1, Zenon DEF Typed, TypeOK, q
<1>3. Fit(Reaped(m), xmit, Woken(m), left.links, job.pc) /\ Used(Reaped(m)) = Used(tx) - m
    BY <1>0, <1>1, ReapedFit, Zenon DEF Space
<1>4. Fit(tx', xmit', dev'.queue, left'.links, job'.pc)
    BY <1>0, <1>l, <1>2, <1>3, Zenon
<1>5. Nothing(tx, xmit) => Nothing(tx', xmit')
    BY <1>0, <1>1, <1>3 DEF Nothing
<1> QED
    BY <1>0, <1>l, <1>2, <1>4, <1>5, SpaceFrom, Zenon DEF Space

LEMMA EmptyTxRoom ==
    ASSUME env \in Envs
    PROVE  Used(EmptyTx) = 0 /\ Clear(EmptyTx, 0)
<1> DEFINE t == EmptyTx
<1>1. t.curr = 0 /\ t.dirty = 0 /\ \A i \in TxIndex : t.desc[i].empty
    BY Zenon DEF EmptyTx, Free
<1> HIDE DEF t
<1>2. Used(t) = 0 /\ Clear(t, 0)
    BY <1>1, ClearStart, Zenon
<1> QED
    BY <1>2, Zenon DEF t

\* The ring is empty, and nothing is being sent.
LEMMA EmptySpace ==
    ASSUME Typed, Roomy, env' = env, Used(tx') = 0, Clear(tx', 0), xmit'.pc = "idle",
           left'.links <= env.links, left'.links = env.links => ~dev'.active,
           job'.pc \in {"enable", "flush", "reset"} => job'.kind = "restart", job'.pc = "enable" => ~dev'.alloc
    PROVE  Space'
<1>1. Fit(tx', xmit', dev'.queue, left'.links, job'.pc)
    BY EmptyFit, Zenon
<1> QED
    BY <1>1, SpaceFrom, Zenon DEF Nothing

LEMMA JobSpace ==
    ASSUME Control, Typed, Roomy, Space, open \/ rings_cleanup \/ RestartEnable
    PROVE  Space'
<1>t. /\ env \in Envs /\ left \in Left
      /\ dev \in [up: BOOLEAN, active: BOOLEAN, phy: BOOLEAN, link: BOOLEAN, alloc: BOOLEAN, queue: {"awake", "stopped"}]
      /\ job \in [kind: {"none", "stop", "restart"}, pc: {"none", "disable", "cleanup", "enable", "flush", "reset"}]
    BY Zenon DEF Typed, TypeOK
<1>0. env' = env /\ xmit' = xmit /\ xmit.pc = "idle"
    BY Zenon DEF open, rings_cleanup, RestartEnable, Preemptible, SoftirqIdle
<1>1. left'.links = left.links
  <2>1. left' = left \/ \E n : left' = [left EXCEPT !.ooms = n]
      BY Zenon DEF open, rings_cleanup, RestartEnable
  <2> QED
      BY <1>t, <2>1, Zenon DEF Left
<1>2. dev'.active = dev.active
  <2>1. \/ dev' = dev
        \/ dev' = [dev EXCEPT !.up = TRUE, !.phy = TRUE, !.alloc = TRUE, !.queue = "awake"]
        \/ dev' = [dev EXCEPT !.alloc = FALSE]
        \/ dev' = [dev EXCEPT !.alloc = TRUE, !.queue = "awake"]
        \/ dev' = [dev EXCEPT !.alloc = TRUE]
      BY Zenon DEF open, rings_cleanup, RestartEnable
  <2> QED
      BY <1>t, <2>1, Zenon
<1>e. tx' = EmptyTx => Used(tx') = 0 /\ Clear(tx', 0)
    BY <1>t, EmptyTxRoom, Zenon
<1>3. CASE open
  <2>1. job' = job /\ job = NoJob
      BY <1>3, Zenon DEF open
  <2>2. tx' = EmptyTx \/ (tx' = tx /\ dev' = dev)
      BY <1>3, ZenonT(60), Zenon DEF open, Enabled
  <2>3. CASE tx' = EmptyTx
      BY <1>0, <1>1, <1>2, <1>e, <2>1, <2>3, EmptySpace, ZenonT(60) DEF Space, NoJob
  <2>4. CASE tx' = tx /\ dev' = dev
      BY <1>0, <1>1, <2>1, <2>4, KeptSpace, Zenon
  <2> QED
      BY <2>2, <2>3, <2>4, Zenon
<1>4. CASE rings_cleanup
  <2>1. /\ tx' = EmptyTx /\ dev' = [dev EXCEPT !.alloc = FALSE] /\ job.pc = "cleanup"
        /\ job' = IF job.kind = "stop" THEN NoJob ELSE [job EXCEPT !.pc = "enable"]
      BY <1>4, Zenon DEF rings_cleanup
  <2>2. dev'.alloc = FALSE
      BY <1>t, <2>1, Zenon
  <2>3. job.kind # "none"
      BY <2>1, Zenon DEF Control
  <2>4. job'.pc \in {"enable", "flush", "reset"} => job'.kind = "restart"
      BY <1>t, <2>1, <2>3, Zenon DEF NoJob
  <2> QED
      BY <1>0, <1>1, <1>2, <1>e, <2>1, <2>2, <2>4, EmptySpace, SMTT(30) DEF Space
<1>5. CASE RestartEnable
  <2>1. /\ tx' = EmptyTx \/ tx' = tx
        /\ job' = IF dev.link THEN [job EXCEPT !.pc = "flush"] ELSE NoJob
        /\ job.pc = "enable"
      BY <1>5, Zenon DEF RestartEnable, Enabled
  <2>2. job'.pc \in {"none", "flush"} /\ (job'.pc = "flush" => job'.kind = "restart")
      BY <1>t, <2>1, Zenon DEF NoJob, Space
  <2>3. Used(tx) = 0 /\ Clear(tx, 0)
    <3>1. Used(tx) = 0 /\ Clear(tx, Used(tx) + Filling(xmit)) /\ Filling(xmit) = 0
        BY <1>0, <2>1, Zenon DEF Space, Nothing, Fit, Filling
    <3>2. 0 + 0 = 0
        OBVIOUS
    <3> QED
        BY <3>1, <3>2, Zenon
  <2>4. Used(tx') = 0 /\ Clear(tx', 0)
      BY <1>e, <2>1, <2>3, Zenon
  <2> QED
      BY <1>0, <1>1, <1>2, <2>2, <2>4, EmptySpace, ZenonT(60), Zenon DEF Space
<1> QED
    BY <1>3, <1>4, <1>5, Zenon

\* All packets are released.
LEMMA FlushedRoom ==
    ASSUME Typed, Roomy, Space, xmit.pc = "idle"
    PROVE  /\ Used(Reaped(Used(tx))) = 0 /\ Clear(Reaped(Used(tx)), 0) /\ TxTyped(Reaped(Used(tx)))
           /\ Used(tx) = 0 => Clear(tx, 0)
<1> DEFINE u == Used(tx)
           mg == Margin(left.links, job.pc)
<1>1. u \in Nat /\ mg \in Nat /\ TxSize \in Nat /\ env \in Envs /\ TxTyped(tx)
    BY RoomNumbers DEF Typed, TypeOK
<1>2. Filling(xmit) = 0
    BY Zenon DEF Filling
<1>3. u + mg <= TxSize /\ Clear(tx, u + 0)
    BY <1>2, Zenon DEF Space, Fit
<1>4. u + 0 = u /\ u <= TxSize /\ u \in 0 .. u /\ u - u = 0
  <2> HIDE DEF u, mg
  <2> QED
      BY <1>1, <1>3, SMTT(30)
<1>5. Used(Reaped(u)) = u - u /\ Clear(Reaped(u), u - u)
    BY <1>1, <1>3, <1>4, ReapedRoom, Zenon
<1>6. TxTyped(Reaped(u))
    BY <1>1, ReapedTyped, Zenon
<1> QED
    BY <1>3, <1>4, <1>5, <1>6, Zenon

\* The ring starts again at its first descriptor, without packets.
LEMMA ResetRoom ==
    ASSUME Typed, NEW t, TxTyped(t), Clear(t, 0), Reset(t, hw)
    PROVE  Used(tx') = 0 /\ Clear(tx', 0)
<1>1. env \in Envs /\ hw \in Hw
    BY Zenon DEF Typed, TypeOK
<1>2. tx'.desc = t.desc /\ tx'.curr = 0 /\ tx'.dirty = 0
    BY <1>1, ResetTyped, Zenon
<1>3. \A i \in TxIndex : t.desc[i].empty
    BY <1>1, AllClear, Zenon
<1>4. \A i \in TxIndex : tx'.desc[i].empty
    BY <1>2, <1>3, Zenon
<1> QED
    BY <1>1, <1>2, <1>4, ClearStart, Zenon

LEMMA FlushSpace ==
    ASSUME Typed, Roomy, Space, RestartFlush
    PROVE  Space'
<1>t. job \in [kind: {"none", "stop", "restart"}, pc: {"none", "disable", "cleanup", "enable", "flush", "reset"}]
    BY Zenon DEF Typed, TypeOK
<1>0. /\ env' = env /\ left' = left /\ xmit' = xmit /\ xmit.pc = "idle" /\ job.pc = "flush"
      /\ job' = [job EXCEPT !.pc = "reset"]
    BY Zenon DEF RestartFlush, Preemptible, SoftirqIdle
<1>1. job'.pc = "reset" /\ job'.kind = "restart"
    BY <1>0, <1>t, Zenon DEF Space
<1>2. CASE env.fast_reset
  <2>1. tx' = Reaped(Used(tx)) /\ dev' = [dev EXCEPT !.queue = Woken(Used(tx))]
      BY <1>2, Zenon DEF RestartFlush
  <2>2. dev'.active = dev.active
    <3> DEFINE q == Woken(Used(tx))
    <3>1. dev' = [dev EXCEPT !.queue = q]
        BY <2>1, Zenon
    <3> HIDE DEF q
    <3> QED
        BY <3>1, Zenon DEF Typed, TypeOK
  <2>3. Used(tx') = 0 /\ Clear(tx', 0)
      BY <1>0, <2>1, FlushedRoom, Zenon
  <2> QED
      BY <1>0, <1>1, <2>2, <2>3, EmptySpace, Zenon DEF Space
<1>3. CASE ~env.fast_reset
  <2>1. tx' = tx /\ dev' = dev
      BY <1>3, Zenon DEF RestartFlush
  <2>2. Margin(left.links, job.pc) = Margin(left'.links, job'.pc)
      BY <1>0, <1>1, Zenon DEF Margin
  <2>3. Fit(tx', xmit', dev'.queue, left'.links, job'.pc)
      BY <1>0, <2>1, <2>2, Zenon DEF Space, Fit
  <2> QED
      BY <1>0, <1>1, <1>3, <2>1, <2>3, SpaceFrom, SMTT(30) DEF Space
<1> QED
    BY <1>2, <1>3, Zenon

\* The ring has room for the packet that an unconditional wake-up lets through.
LEMMA WokenSpace ==
    ASSUME Typed, Roomy, Space, env' = env, tx' = tx, xmit' = xmit, xmit.pc = "idle",
           Margin(left.links, job.pc) = Need, Margin(left'.links, job'.pc) = 0,
           left'.links \in Nat, left'.links < env.links, job'.pc \in {"enable", "flush", "reset"} => job'.kind = "restart",
           job'.pc = "enable" => ~dev'.alloc /\ job.pc = "enable", ~env.fast_reset
    PROVE  Space'
<1> DEFINE u == Used(tx)
<1>1. u \in Nat /\ Need \in Nat /\ TxSize \in Nat
    BY RoomNumbers, Zenon
<1>2. Filling(xmit) = 0
    BY Zenon DEF Filling
<1>3. u + Need <= TxSize /\ Clear(tx, u + 0)
    BY <1>2, ZenonT(60), Zenon DEF Space, Fit
<1> HIDE DEF u
<1>4. u + 0 <= TxSize /\ u + Need + 0 <= TxSize
    BY <1>1, <1>3, SMTT(30)
<1>5. Fit(tx', xmit', dev'.queue, left'.links, job'.pc)
    BY <1>2, <1>3, <1>4, Zenon DEF Fit, u
<1>6. left'.links # env.links /\ left'.links <= env.links
  <2>1. env.links \in Nat
      BY RoomNumbers, Zenon
  <2>2. left'.links \in Nat
      BY Zenon
  <2> QED
      BY <2>1, <2>2, SMTT(30)
<1> QED
    BY <1>5, <1>6, SpaceFrom, ZenonT(60), Zenon DEF Space

LEMMA ResetSpace ==
    ASSUME Typed, Engines, Roomy, Space, RestartReset
    PROVE  Space'
<1>0. /\ env' = env /\ left' = left /\ xmit' = xmit /\ xmit.pc = "idle" /\ job.pc = "reset"
      /\ job' = NoJob /\ dev' = [dev EXCEPT !.queue = "awake"]
      /\ IF env.fast_reset THEN Reset(tx, hw) ELSE tx' = tx
    BY ZenonT(60), Zenon DEF RestartReset, Preemptible, SoftirqIdle
<1>t. env \in Envs /\ TxTyped(tx) /\ left.links \in Nat /\ env.links \in Nat
    BY RoomNumbers, Zenon DEF Typed, TypeOK
<1>1. dev'.active = dev.active /\ job'.pc = "none"
    BY <1>0, Zenon DEF Typed, TypeOK, NoJob
<1>2. ASSUME Used(tx') = 0, Clear(tx', 0)
      PROVE  Space'
    BY <1>0, <1>1, <1>2, EmptySpace, Zenon DEF Space
<1>3. Used(tx) = 0 => Clear(tx, 0)
    BY <1>0, FlushedRoom, Zenon
<1>4. CASE env.fast_reset
  <2>1. Clear(tx, 0) /\ Reset(tx, hw)
      BY <1>0, <1>3, <1>4, Zenon DEF Space, Nothing
  <2>2. Used(tx') = 0 /\ Clear(tx', 0)
      BY <1>t, <2>1, ResetRoom, Zenon
  <2> QED
      BY <1>2, <2>2, Zenon
<1>5. CASE ~env.fast_reset /\ left.links = env.links
  <2>1. tx' = tx /\ Used(tx) = 0
      BY <1>0, <1>5, Zenon DEF Space, Nothing
  <2> QED
      BY <1>2, <1>3, <2>1, Zenon
<1>6. CASE ~env.fast_reset /\ left.links # env.links
  <2>1. env.hangs # 0
      BY <1>0, Zenon DEF Space, Engines
  <2>2. Margin(left.links, job.pc) = Need /\ Margin(left'.links, job'.pc) = 0
      BY <1>0, <1>1, <1>6, <2>1, Zenon DEF Margin, Extra
  <2>3. left'.links < env.links
      BY <1>0, <1>t, <1>6, SMTT(30) DEF Space
  <2> QED
      BY <1>0, <1>1, <1>t, <1>6, <2>2, <2>3, WokenSpace, Zenon
<1> QED
    BY <1>4, <1>5, <1>6, Zenon

LEMMA LinkSpace ==
    ASSUME Typed, Roomy, Space, NEW link, link_adjust(link)
    PROVE  Space'
<1>0. /\ env' = env /\ xmit' = xmit /\ xmit.pc = "idle" /\ job' = job
      /\ left.links > 0 /\ left' = [left EXCEPT !.links = @ - 1]
      /\ IF ~link THEN tx' = tx /\ dev' = [dev EXCEPT !.link = FALSE]
         ELSE /\ dev' = [dev EXCEPT !.link = TRUE, !.active = TRUE, !.queue = "awake"]
              /\ IF env.fast_reset THEN Reset(Reaped(Used(tx)), hw) ELSE tx' = tx
    BY ZenonT(60), Zenon DEF link_adjust, Preemptible, SoftirqIdle
<1>t. env \in Envs /\ TxTyped(tx) /\ left \in Left /\ left.links \in Nat /\ env.links \in Nat
    BY RoomNumbers, Zenon DEF Typed, TypeOK
<1>1. left'.links = left.links - 1
    BY <1>0, <1>t, Zenon DEF Left
<1>2. left'.links \in Nat /\ left'.links < env.links /\ left'.links <= env.links /\ left'.links # env.links
    BY <1>0, <1>1, <1>t DEF Space
<1>a. dev'.alloc = dev.alloc
    BY <1>0, ZenonT(60), Zenon DEF Typed, TypeOK
<1>3. ASSUME Used(tx') = 0, Clear(tx', 0)
      PROVE  Space'
    BY <1>0, <1>2, <1>3, <1>a, EmptySpace, Zenon DEF Space
<1>4. Used(tx) = 0 => Clear(tx, 0)
    BY <1>0, FlushedRoom, Zenon
<1>5. CASE ~link
  <2>1. tx' = tx /\ dev'.queue = dev.queue
      BY <1>0, <1>5, Zenon DEF Typed, TypeOK
  <2> DEFINE u == Used(tx)
             mg == Margin(left.links, job.pc)
             mh == Margin(left'.links, job'.pc)
  <2>2. mg \in Nat /\ mh \in Nat /\ u \in Nat /\ TxSize \in Nat /\ Need \in Nat
      BY RoomNumbers
  <2>3. mh = mg \/ mh = 0
      BY <1>0, <1>t DEF Margin
  <2>4. u + mg <= TxSize /\ Clear(tx, u + Filling(xmit)) /\ (dev.queue = "awake" => u + Need + mg <= TxSize)
      BY <1>0, ZenonT(60), Zenon DEF Space, Fit
  <2> HIDE DEF u, mg, mh
  <2>5. u + mh <= TxSize /\ (u + Need + mg <= TxSize => u + Need + mh <= TxSize)
      BY <2>2, <2>3, <2>4
  <2>6. Fit(tx', xmit', dev'.queue, left'.links, job'.pc)
      BY <1>0, <2>1, <2>4, <2>5, Zenon DEF Fit, u, mh
  <2> QED
      BY <1>0, <1>2, <1>a, <2>1, <2>6, SpaceFrom, Zenon DEF Space
<1>6. CASE link /\ env.fast_reset
  <2> DEFINE t == Reaped(Used(tx))
  <2>1. Reset(t, hw) /\ Clear(t, 0) /\ TxTyped(t)
      BY <1>0, <1>6, FlushedRoom, Zenon
  <2> HIDE DEF t
  <2>2. Used(tx') = 0 /\ Clear(tx', 0)
      BY <2>1, ResetRoom, Zenon
  <2> QED
      BY <1>3, <2>2, Zenon
<1>7. CASE link /\ ~env.fast_reset /\ left.links = env.links
  <2>1. tx' = tx /\ Used(tx) = 0
      BY <1>0, <1>7, Zenon DEF Space, Nothing
  <2> QED
      BY <1>3, <1>4, <2>1, Zenon
<1>8. CASE link /\ ~env.fast_reset /\ left.links # env.links
  <2>1. left.links = 1 /\ env.links = 2 /\ env.hangs = 0
      BY <1>0, <1>t, <1>8, SMTT(30) DEF Space, Roomy
  <2>2. Margin(left.links, job.pc) = Need /\ Margin(left'.links, job'.pc) = 0
    <3>1. Extra = Need
        BY <1>8, <2>1 DEF Extra
    <3>2. left'.links = 0
        BY <1>1, <2>1
    <3> QED
        BY <1>8, <2>1, <3>1, <3>2, Zenon DEF Margin
  <2>3. tx' = tx
      BY <1>0, <1>8, Zenon
  <2> QED
      BY <1>0, <1>2, <1>8, <1>a, <2>2, <2>3, WokenSpace, Zenon DEF Space
<1> QED
    BY <1>5, <1>6, <1>7, <1>8, Zenon

LEMMA SpaceNext ==
    ASSUME Control, Engines, Typed, Roomy, Space, [Next]_vars
    PROVE  Space'
BY Steps, QuietSpace, SendSpace, FillSpace, InjectSpace, KickSpace, HwTxSpace, PollTxSpace, JobSpace, FlushSpace,
   ResetSpace, LinkSpace, ZenonT(60)

\* Where a quarter of the transmit ring holds the longest packet (and one more
\* where a link change or a restart can wake the queue of a ring in use, once),
\* hard_start_xmit never drops a packet for want of a descriptor: it stops the
\* queue, and tx_packets wakes it, early enough.
THEOREM PacketsFit == Spec => [](Roomy => FillNeverFails)
<1> DEFINE Inv == Control /\ PollOrInterrupt /\ RxRing /\ Engines /\ Typed /\ (Roomy => Space)
<1>1. Init => Inv
    BY ControlInit, EnginesInit, RxRingInit, TypedInit, SpaceInit, Zenon
<1>2. Inv /\ [Next]_vars => Inv'
  <2> SUFFICES ASSUME Inv, [Next]_vars PROVE Inv'
      BY Zenon
  <2>1. env' = env
      BY TxSteps, Zenon
  <2>2. Roomy' => Roomy
      BY <2>1, Zenon DEF Roomy, Calm, Extra, Need, TxSize
  <2>3. Roomy => Space'
      BY SpaceNext, Zenon
  <2>4. Typed'
      BY TypedNext, Zenon
  <2> QED
      BY <2>2, <2>3, <2>4, ControlNext, EnginesNext, RxRingNext, Zenon
<1>3. Inv => (Roomy => FillNeverFails)
    BY FillRoom, Zenon
<1> QED
    BY <1>1, <1>2, <1>3, PTL DEF Spec
=============================================================================
