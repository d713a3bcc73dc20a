------------------------- MODULE UnetmsgPeersProofs -------------------------
(***************************************************************************)
(* Proofs about UnetmsgPeers for any number of hosts, names, clients and   *)
(* connections, and any number of disturbances.                            *)
(***************************************************************************)
EXTENDS UnetmsgPeers, TLAPS

-----------------------------------------------------------------------------
(* The inductive invariant *)

Table == [Host -> [Host -> [Slot -> Conn]]]

\* A connection from a to b: b counts on it once it is authenticated there, has
\* registered names over no other, and has authenticated itself last.
Ends(a, b, s) ==
    LET c == conn[a][b][s]
    IN  /\ c.rx = "auth" <=> rx[b][a] = s
        /\ c.rx # "auth" => c.list = NoList
        /\ c.tx = "auth" \/ c.msg = "token" => c.rx \in {"auth", "closed"}
        /\ a = b => c = NoConn

Channels == \A a, b \in Host, s \in Slot : Ends(a, b, s)

\* No host is its own peer, and a closed network has neither peers nor timer.
Networks ==
    \A h \in Host : /\ peers[h] \in Peers(h)
                    /\ ~open[h] => DOMAIN peers[h] = {} /\ ~timer[h]

Inv == TypeOK /\ Channels /\ Networks /\ RemoteMirrorsChannels /\ FormerPeersDropped /\ PeersPursued

-----------------------------------------------------------------------------
(* Connections *)

LEMMA NoConnIsConn ==
    /\ NoConn \in Conn
    /\ NoConn.tx = "closed" /\ NoConn.rx = "closed" /\ NoConn.msg = "none"
    /\ NoConn.list = NoList /\ NoConn.sent = NoneSent
<1>1. <<>> \in Seq(BOOLEAN)
    OBVIOUS
<1>2. NoList \in [Kind -> SUBSET Name] /\ NoneSent \in [Kind -> [Name -> Seq(BOOLEAN)]]
    BY <1>1, Zenon DEF NoList, NoneSent
<1> QED
    BY <1>2, Zenon DEF NoConn, Conn

LEMMA CloseTxOf ==
    ASSUME NEW c \in Conn
    PROVE  /\ CloseTx(c) \in Conn
           /\ CloseTx(c).tx = "closed" /\ CloseTx(c).rx = c.rx /\ CloseTx(c).msg # "token"
           /\ c.rx # "closed" => CloseTx(c).list = c.list /\ CloseTx(c).sent = c.sent
           /\ c.rx = "closed" => CloseTx(c) = NoConn
           /\ c = NoConn => CloseTx(c) = NoConn
BY NoConnIsConn, Zenon DEF CloseTx, Conn

LEMMA CloseRxOf ==
    ASSUME NEW c \in Conn
    PROVE  /\ CloseRx(c) \in Conn
           /\ CloseRx(c).rx = "closed" /\ CloseRx(c).tx = c.tx /\ CloseRx(c).list = NoList
           /\ c.tx = "closed" => CloseRx(c) = NoConn
           /\ c = NoConn => CloseRx(c) = NoConn
<1>1. NoList \in [Kind -> SUBSET Name] /\ NoneSent \in [Kind -> [Name -> Seq(BOOLEAN)]]
    BY NoConnIsConn, Zenon DEF Conn
<1> QED
    BY <1>1, NoConnIsConn, Zenon DEF CloseRx, Conn

\* The oldest announcement in flight is read off; the others stay in order.
LEMMA FirstSent ==
    ASSUME NEW q \in Seq(BOOLEAN), q # <<>>
    PROVE  Tail(q) \in Seq(BOOLEAN) /\ Head(q) \in BOOLEAN
    OBVIOUS

LEMMA AnnounceOn ==
    ASSUME NEW c \in Conn, NEW send \in [Kind -> [Name -> Seq(BOOLEAN)]]
    PROVE  /\ Announce(c, send) \in Conn
           /\ Announce(c, send).tx = c.tx /\ Announce(c, send).rx = c.rx
           /\ Announce(c, send).msg = c.msg /\ Announce(c, send).list = c.list
           /\ c.rx # "closed" => \A k \in Kind, n \in Name : Announce(c, send).sent[k][n] = c.sent[k][n] \o send[k][n]
<1> DEFINE sent == [k \in Kind |-> [n \in Name |-> c.sent[k][n] \o send[k][n]]]
<1>1. sent \in [Kind -> [Name -> Seq(BOOLEAN)]]
  <2>1. \A k \in Kind, n \in Name : c.sent[k][n] \o send[k][n] \in Seq(BOOLEAN)
      BY DEF Conn
  <2> QED
      BY <2>1, Zenon
<1>2. Announce(c, send) = IF c.rx = "closed" THEN c ELSE [c EXCEPT !.sent = sent]
    BY Zenon DEF Announce, Conn
<1>3. \A k \in Kind, n \in Name : sent[k][n] = c.sent[k][n] \o send[k][n]
    BY Zenon
<1> HIDE DEF sent
<1> QED
    BY <1>1, <1>2, <1>3, Zenon DEF Conn

\* Connection a, b, s becomes d.
Becomes(a, b, s, d) == conn' = [conn EXCEPT ![a][b][s] = d]

LEMMA OneChanged ==
    ASSUME conn \in Table, NEW a \in Host, NEW b \in Host, NEW s \in Slot, NEW d \in Conn,
           Becomes(a, b, s, d)
    PROVE  /\ conn' \in Table
           /\ \A x, y \in Host, z \in Slot :
                  conn'[x][y][z] = IF x = a /\ y = b /\ z = s THEN d ELSE conn[x][y][z]
BY Zenon DEF Becomes, Table

LEMMA ChannelsSame ==
    ASSUME Channels, conn' = conn, rx' = rx
    PROVE  Channels'
<1>1. ASSUME NEW a, NEW b, NEW s, Ends(a, b, s)
      PROVE  Ends(a, b, s)'
    BY <1>1, Zenon DEF Ends
<1> QED
    BY <1>1, Zenon DEF Channels

LEMMA ClosedChannels ==
    ASSUME TypeOK, Channels, NEW h \in Host, NEW T, NEW R
    PROVE  /\ CloseChannels(h, T, R) \in Table
           /\ \A a, b \in Host, s \in Slot :
                CloseChannels(h, T, R)[a][b][s] =
                    IF a = h /\ b \in T /\ tx[h][b] = s THEN CloseTx(conn[a][b][s])
                    ELSE IF b = h /\ a \in R /\ rx[h][a] = s THEN CloseRx(conn[a][b][s])
                    ELSE conn[a][b][s]
<1> DEFINE F(a, b, s) == CASE a = h /\ b \in T /\ tx[h][b] = s -> CloseTx(conn[a][b][s])
                           [] b = h /\ a \in R /\ rx[h][a] = s -> CloseRx(conn[a][b][s])
                           [] OTHER -> conn[a][b][s]
           G(a, b, s) == IF a = h /\ b \in T /\ tx[h][b] = s THEN CloseTx(conn[a][b][s])
                         ELSE IF b = h /\ a \in R /\ rx[h][a] = s THEN CloseRx(conn[a][b][s])
                         ELSE conn[a][b][s]
<1>1. ASSUME NEW a \in Host, NEW b \in Host, NEW s \in Slot
      PROVE  conn[a][b][s] \in Conn /\ F(a, b, s) = G(a, b, s)
  <2>1. conn[a][b][s] \in Conn
      BY DEF TypeOK
  <2>2. CASE a = b
    <3>1. conn[a][b][s] = NoConn
        BY <2>2 DEF Channels, Ends
    <3>2. CloseTx(conn[a][b][s]) = NoConn /\ CloseRx(conn[a][b][s]) = NoConn
        BY <2>1, <3>1, CloseTxOf, CloseRxOf, Zenon
    <3> QED
        BY <2>1, <3>1, <3>2, Zenon
  <2>3. CASE a # b
      BY <2>1, <2>3, Zenon
  <2> QED
      BY <2>2, <2>3, Zenon
<1>2. \A a, b \in Host, s \in Slot : G(a, b, s) \in Conn
    BY <1>1, CloseTxOf, CloseRxOf, Zenon
<1>3. CloseChannels(h, T, R) = [a \in Host |-> [b \in Host |-> [s \in Slot |-> F(a, b, s)]]]
    BY Zenon DEF CloseChannels
<1> HIDE DEF F, G
<1>4. \A a, b \in Host, s \in Slot : F(a, b, s) = G(a, b, s)
    BY <1>1, Zenon
<1>5. /\ CloseChannels(h, T, R) \in Table
      /\ \A a, b \in Host, s \in Slot : CloseChannels(h, T, R)[a][b][s] = G(a, b, s)
    BY <1>2, <1>3, <1>4 DEF Table
<1> QED
    BY <1>5, Zenon DEF G

-----------------------------------------------------------------------------
(* What most steps do *)

\* The accepting ends of h forget the connections from R; the rest of what the
\* accepting ends know stays as it is.
Drops(h, R) ==
    /\ \A g, p \in Host : rx'[g][p] = IF g = h /\ p \in R THEN 0 ELSE rx[g][p]
    /\ \A g, p \in Host, k \in Kind, n \in Name :
           p \in remote'[g][k][n] <=> p \in remote[g][k][n] /\ ~(g = h /\ p \in R)
    /\ \A a, b \in Host, s \in Slot :
           IF b = h /\ a \in R /\ rx[h][a] = s
           THEN conn'[a][b][s].rx = "closed" /\ conn'[a][b][s].list = NoList
           ELSE /\ conn'[a][b][s].rx = "auth" <=> conn[a][b][s].rx = "auth"
                /\ conn'[a][b][s].list = conn[a][b][s].list

Sound(a, b, c) ==
    /\ c.tx = "auth" \/ c.msg = "token" => c.rx \in {"auth", "closed"}
    /\ a = b => c = NoConn

LEMMA DropsKeeps ==
    ASSUME TypeOK, Channels, RemoteMirrorsChannels, NEW h \in Host, NEW R, Drops(h, R),
           \A a, b \in Host, s \in Slot : Sound(a, b, conn'[a][b][s])
    PROVE  Channels' /\ RemoteMirrorsChannels'
<1>0. /\ 0 \notin Slot
      /\ \A g, p \in Host : rx[g][p] \in Slot \cup {0}
    BY SlotAssumption, SMTT(30) DEF TypeOK
<1>1. ASSUME NEW a \in Host, NEW b \in Host, NEW s \in Slot
      PROVE  Ends(a, b, s)'
  <2>1. Ends(a, b, s) /\ Sound(a, b, conn'[a][b][s])
      BY Zenon DEF Channels
  <2>2. /\ conn'[a][b][s].rx = "auth" <=> rx'[b][a] = s
        /\ conn'[a][b][s].rx # "auth" => conn'[a][b][s].list = NoList
      BY <1>0, <2>1 DEF Ends, Drops
  <2> QED
      BY <2>1, <2>2, Zenon DEF Ends, Sound
<1>2. ASSUME NEW g \in Host, NEW p \in Host, NEW k \in Kind, NEW n \in Name
      PROVE  p \in remote'[g][k][n] <=> rx'[g][p] # 0 /\ n \in conn'[p][g][rx'[g][p]].list[k]
  <2>1. p \in remote[g][k][n] <=> rx[g][p] # 0 /\ n \in conn[p][g][rx[g][p]].list[k]
      BY Zenon DEF RemoteMirrorsChannels
  <2>2. rx[g][p] # 0 /\ ~(g = h /\ p \in R) => conn'[p][g][rx[g][p]].list = conn[p][g][rx[g][p]].list
      BY <1>0 DEF Drops
  <2>3. rx'[g][p] = (IF g = h /\ p \in R THEN 0 ELSE rx[g][p])
        /\ (p \in remote'[g][k][n] <=> p \in remote[g][k][n] /\ ~(g = h /\ p \in R))
      BY ZenonT(60), Zenon DEF Drops
  <2>4. CASE g = h /\ p \in R
      BY <2>3, <2>4, Zenon
  <2>5. CASE ~(g = h /\ p \in R)
    <3>1. rx'[g][p] = rx[g][p] /\ (p \in remote'[g][k][n] <=> p \in remote[g][k][n])
        BY <2>3, <2>5, Zenon
    <3>2. rx[g][p] # 0 => conn'[p][g][rx[g][p]].list = conn[p][g][rx[g][p]].list
        BY <2>2, <2>5, Zenon
    <3> HIDE DEF RemoteMirrorsChannels
    <3> QED
        BY <2>1, <3>1, <3>2, Zenon
  <2> QED
      BY <2>4, <2>5, Zenon
<1> QED
    BY <1>1, <1>2, Zenon DEF Channels, RemoteMirrorsChannels

LEMMA FormerKept ==
    ASSUME TypeOK, FormerPeersDropped, peers' = peers,
           \A h \in Host : timer[h] => timer'[h],
           \A h, p \in Host : p \notin DOMAIN peers[h] =>
               /\ tx'[h][p] \in {0, tx[h][p]} /\ rx'[h][p] \in {0, rx[h][p]}
               /\ \A k \in Kind, n \in Name : p \in remote'[h][k][n] => p \in remote[h][k][n]
    PROVE  FormerPeersDropped'
BY DEF FormerPeersDropped

LEMMA PursuedKept ==
    ASSUME PeersPursued, peers' = peers, open' = open,
           \A h \in Host : timer[h] => timer'[h],
           \A h \in Host : \A p \in DOMAIN peers[h] :
               Authenticated(h, p) => Authenticated(h, p)' \/ timer'[h] \/ ~open[h]
    PROVE  PeersPursued'
<1> SUFFICES ASSUME NEW h \in Host, open[h], NEW p \in DOMAIN peers[h]
             PROVE  Authenticated(h, p)' \/ timer'[h]
    BY Zenon DEF PeersPursued
<1> QED
    BY Zenon DEF PeersPursued

LEMMA ReportOf ==
    ASSUME NEW h \in Host, NEW P \in Peers(h)
    PROVE  /\ DOMAIN P \subseteq Host \ {h}
           /\ \A p \in DOMAIN P : P[p].limited \in Limited
<1>1. PICK S \in SUBSET (Host \ {h}), l \in Limited : P \in [S -> Allowed(l)]
    BY DEF Peers
<1>2. \A r \in Allowed(l) : r.limited = l
    BY Zenon DEF Allowed
<1> QED
    BY <1>1, <1>2, Zenon

LEMMA NoReport ==
    ASSUME NEW h \in Host
    PROVE  NoPeers \in Peers(h) /\ DOMAIN NoPeers = {}
<1>1. PICK l \in Limited : TRUE
    BY LimitedAssumption, Zenon
<1>2. {} \in SUBSET (Host \ {h})
    BY Zenon
<1>3. NoPeers \in [{} -> Allowed(l)]
    BY Zenon DEF NoPeers
<1> DEFINE M == {[S -> Allowed(m)] : S \in SUBSET (Host \ {h}), m \in Limited}
<1>4. [{} -> Allowed(l)] \in M
    BY <1>1, <1>2, SMT
<1> HIDE DEF M
<1>5. NoPeers \in UNION M
    BY <1>3, <1>4, Zenon
<1>6. NoPeers \in Peers(h)
    BY <1>5 DEF Peers, M
<1> QED
    BY <1>6, Zenon DEF NoPeers

-----------------------------------------------------------------------------
(* The initial states *)

LEMMA InvInit == Init => Inv
<1> SUFFICES ASSUME Init PROVE Inv
    BY Zenon
<1>0. 0 \notin Slot
    BY SlotAssumption, Zenon
<1>1. \A h \in Host : peers[h] \in Peers(h) /\ DOMAIN peers[h] = {}
    BY NoReport, Zenon DEF Init
<1>2. TypeOK
  <2>1. peers \in [Host -> UNION {Peers(h) : h \in Host}]
      BY <1>1, Zenon DEF Init
  <2>2. conn \in [Host -> [Host -> [Slot -> Conn]]]
      BY NoConnIsConn, Zenon DEF Init
  <2>3. known \in [Host -> [Kind -> SUBSET Name]]
      BY Zenon DEF Init, NoList
  <2>4. tx \in [Host -> [Host -> Slot \cup {0}]] /\ rx \in [Host -> [Host -> Slot \cup {0}]]
      BY Zenon DEF Init
  <2>5. faults \in 0 .. MaxFaults
      BY BoundsAssumption DEF Init
  <2> QED
      BY <2>1, <2>2, <2>3, <2>4, <2>5, Zenon DEF Init, TypeOK
<1>3. Channels
    BY <1>0, NoConnIsConn, Zenon DEF Init, Channels, Ends
<1>4. Networks
    BY <1>1, Zenon DEF Init, Networks
<1>5. RemoteMirrorsChannels /\ FormerPeersDropped /\ PeersPursued
    BY Zenon DEF Init, RemoteMirrorsChannels, FormerPeersDropped, PeersPursued
<1> QED
    BY <1>2, <1>3, <1>4, <1>5, Zenon DEF Inv

-----------------------------------------------------------------------------
(* Steps of one end of one connection *)

LEMMA Told ==
    ASSUME NEW h, NEW N \in SUBSET Name, handle_publish(h, N)
    PROVE  notified' \in [Host -> SUBSET Name]
BY Zenon DEF handle_publish

\* The connecting end.
LEMMA AuthenticatedPeer ==
    ASSUME Inv, NEW g \in Host, NEW q \in DOMAIN peers[g], Authenticated(g, q)
    PROVE  q \in Host /\ tx[g][q] \in Slot /\ conn[g][q][tx[g][q]].tx = "auth"
<1>1. q \in Host
    BY ReportOf, Zenon DEF Inv, Networks
<1>2. tx \in [Host -> [Host -> Slot \cup {0}]]
    BY Zenon DEF Inv, TypeOK
<1> QED
    BY <1>1, <1>2, Zenon DEF Authenticated

LEMMA TxStep ==
    ASSUME Inv, NEW h \in Host, NEW p \in Host, NEW s \in Slot, NEW d \in Conn,
           conn' = [conn EXCEPT ![h][p][s] = d],
           d.rx = conn[h][p][s].rx, d.list = conn[h][p][s].list, Sound(h, p, d),
           tx' = tx \/ tx' = [tx EXCEPT ![h][p] = IF @ = s THEN 0 ELSE @],
           timer' = timer \/ timer' = [timer EXCEPT ![h] = @ \/ open[h]],
           conn[h][p][s].tx = "auth" => (d.tx = "auth" /\ tx' = tx) \/ timer'[h] \/ ~open[h],
           UNCHANGED <<handles, known, remote, rx, peers, open>>,
           notified' \in [Host -> SUBSET Name], faults' \in 0 .. MaxFaults
    PROVE  Inv'
<1>0. conn \in Table /\ 0 \notin Slot
    BY SlotAssumption, Zenon DEF Inv, TypeOK, Table
<1>1. /\ conn' \in Table
      /\ \A x, y \in Host, z \in Slot :
             conn'[x][y][z] = IF x = h /\ y = p /\ z = s THEN d ELSE conn[x][y][z]
    BY <1>0 DEF Table
<1>2. /\ timer' \in [Host -> BOOLEAN]
      /\ \A g \in Host : (timer[g] => timer'[g]) /\ (~open[g] => timer'[g] = timer[g])
    BY Zenon DEF Inv, TypeOK
<1>3. /\ tx' \in [Host -> [Host -> Slot \cup {0}]]
      /\ \A g, q \in Host : tx'[g][q] = tx[g][q] \/ (g = h /\ q = p /\ tx[g][q] = s /\ tx'[g][q] = 0 /\ tx' # tx)
  <2>1. tx \in [Host -> [Host -> Slot \cup {0}]]
      BY Zenon DEF Inv, TypeOK
  <2>2. CASE tx' = tx
      BY <2>1, <2>2, Zenon
  <2>3. CASE tx' = [tx EXCEPT ![h][p] = IF @ = s THEN 0 ELSE @]
      BY <1>0, <2>1, <2>3, Zenon
  <2> QED
      BY <2>2, <2>3, Zenon
<1>4. TypeOK'
    BY <1>1, <1>2, <1>3, Zenon DEF Inv, TypeOK, Table
<1>5. Channels' /\ RemoteMirrorsChannels'
  <2>1. Drops(h, {})
      BY <1>1, SMTT(30) DEF Drops
  <2>2. \A a, b \in Host, z \in Slot : Sound(a, b, conn'[a][b][z])
      BY <1>1 DEF Inv, Channels, Ends, Sound
  <2> QED
      BY <2>1, <2>2, DropsKeeps, Zenon DEF Inv
<1>6. Networks'
    BY <1>2, Zenon DEF Inv, Networks
<1>7. FormerPeersDropped'
    BY <1>2, <1>3, FormerKept DEF Inv
<1>8. PeersPursued'
  <2>1. ASSUME NEW g \in Host, NEW q \in DOMAIN peers[g], Authenticated(g, q)
        PROVE  Authenticated(g, q)' \/ timer'[g] \/ ~open[g]
    <3>1. q \in Host /\ tx[g][q] \in Slot /\ conn[g][q][tx[g][q]].tx = "auth"
        BY <2>1, AuthenticatedPeer, Zenon
    <3>2. CASE g = h /\ q = p /\ tx[g][q] = s
        BY <1>0, <1>1, <3>1, <3>2, SMTT(30) DEF Authenticated
    <3>3. CASE ~(g = h /\ q = p /\ tx[g][q] = s)
        BY <1>0, <1>1, <1>3, <3>1, <3>3 DEF Authenticated
    <3> QED
        BY <3>2, <3>3, Zenon
  <2> QED
      BY <1>2, <2>1, PursuedKept, Zenon DEF Inv
<1> QED
    BY <1>4, <1>5, <1>6, <1>7, <1>8, Zenon DEF Inv

\* The accepting end, which is done with the connection if R is {p}.
LEMMA RxStep ==
    ASSUME Inv, NEW h \in Host, NEW p \in Host, NEW s \in Slot, NEW d \in Conn, NEW R,
           conn' = [conn EXCEPT ![p][h][s] = d],
           d.tx = conn[p][h][s].tx, d.rx # "auth", d.list = NoList, Sound(p, h, d),
           IF conn[p][h][s].rx = "auth" THEN R = {p} /\ d.rx = "closed" ELSE R = {},
           rx' = [rx EXCEPT ![h][p] = IF R = {p} THEN 0 ELSE @],
           remote' = IF R = {p} THEN network_rx_cleanup_state(h, {p}) ELSE remote,
           UNCHANGED <<handles, known, tx, timer, peers, open>>,
           notified' \in [Host -> SUBSET Name], faults' \in 0 .. MaxFaults
    PROVE  Inv'
<1>0. conn \in Table /\ 0 \notin Slot
    BY SlotAssumption, Zenon DEF Inv, TypeOK, Table
<1>1. /\ conn' \in Table
      /\ \A x, y \in Host, z \in Slot :
             conn'[x][y][z] = IF x = p /\ y = h /\ z = s THEN d ELSE conn[x][y][z]
    BY <1>0 DEF Table
<1>2. /\ rx' \in [Host -> [Host -> Slot \cup {0}]]
      /\ \A g, q \in Host : rx'[g][q] = IF g = h /\ q \in R THEN 0 ELSE rx[g][q]
    BY Zenon DEF Inv, TypeOK
<1>3. /\ remote' \in [Host -> [Kind -> [Name -> SUBSET Host]]]
      /\ \A g, q \in Host, k \in Kind, n \in Name :
           q \in remote'[g][k][n] <=> q \in remote[g][k][n] /\ ~(g = h /\ q \in R)
  <2>1. remote \in [Host -> [Kind -> [Name -> SUBSET Host]]]
      BY Zenon DEF Inv, TypeOK
  <2>2. CASE R = {p} /\ remote' = network_rx_cleanup_state(h, {p})
      BY <2>1, <2>2 DEF network_rx_cleanup_state
  <2>3. CASE R = {} /\ remote' = remote
      BY <2>1, <2>3, Zenon
  <2> QED
      BY <2>2, <2>3, Zenon
<1>4. TypeOK'
    BY <1>1, <1>2, <1>3, Zenon DEF Inv, TypeOK, Table
<1>5. Channels' /\ RemoteMirrorsChannels'
  <2>1. Ends(p, h, s)
      BY Zenon DEF Inv, Channels
  <2>2. ASSUME NEW a \in Host, NEW b \in Host, NEW z \in Slot
        PROVE  IF b = h /\ a \in R /\ rx[h][a] = z
               THEN conn'[a][b][z].rx = "closed" /\ conn'[a][b][z].list = NoList
               ELSE /\ conn'[a][b][z].rx = "auth" <=> conn[a][b][z].rx = "auth"
                    /\ conn'[a][b][z].list = conn[a][b][z].list
    <3>1. CASE a = p /\ b = h /\ z = s
        BY <1>1, <2>1, <3>1, SMTT(30) DEF Ends
    <3>2. CASE ~(a = p /\ b = h /\ z = s)
        BY <1>1, <2>1, <3>2 DEF Ends
    <3> QED
        BY <3>1, <3>2, Zenon
  <2>4. Drops(h, R)
      BY <1>2, <1>3, <2>2, ZenonT(60), Zenon DEF Drops
  <2>3. \A a, b \in Host, z \in Slot : Sound(a, b, conn'[a][b][z])
      BY <1>1 DEF Inv, Channels, Ends, Sound
  <2> QED
      BY <2>3, <2>4, DropsKeeps, Zenon DEF Inv
<1>6. Networks'
    BY Zenon DEF Inv, Networks
<1>7. FormerPeersDropped'
  <2>1. \A g, q \in Host : /\ rx'[g][q] \in {0, rx[g][q]}
                           /\ \A k \in Kind, n \in Name : q \in remote'[g][k][n] => q \in remote[g][k][n]
    <3> SUFFICES ASSUME NEW g \in Host, NEW q \in Host
                 PROVE  /\ rx'[g][q] \in {0, rx[g][q]}
                        /\ \A k \in Kind, n \in Name : q \in remote'[g][k][n] => q \in remote[g][k][n]
        BY Zenon
    <3>1. rx'[g][q] \in {0, rx[g][q]}
        BY <1>2, Zenon
    <3>2. \A k \in Kind, n \in Name : q \in remote'[g][k][n] => q \in remote[g][k][n]
        BY <1>3, ZenonT(60), Zenon
    <3> QED
        BY <3>1, <3>2, Zenon
  <2> QED
      BY <2>1, FormerKept, Zenon DEF Inv
<1>8. PeersPursued'
  <2>1. ASSUME NEW g \in Host, NEW q \in DOMAIN peers[g], Authenticated(g, q)
        PROVE  Authenticated(g, q)'
    <3>1. q \in Host /\ tx[g][q] \in Slot /\ conn[g][q][tx[g][q]].tx = "auth"
        BY <2>1, AuthenticatedPeer, Zenon
    <3> QED
        BY <1>0, <1>1, <3>1 DEF Authenticated
  <2> QED
      BY <2>1, PursuedKept, Zenon DEF Inv
<1> QED
    BY <1>4, <1>5, <1>6, <1>7, <1>8, Zenon DEF Inv

LEMMA Connection ==
    ASSUME Inv, NEW a \in Host, NEW b \in Host, NEW s \in Slot
    PROVE  conn[a][b][s] \in Conn /\ Ends(a, b, s)
BY DEF Inv, TypeOK, Channels

LEMMA TxClosed ==
    ASSUME Inv, NEW h \in Host, NEW p \in Host, NEW s \in Slot
    PROVE  LET c == conn[h][p][s] IN
           /\ CloseTx(c) \in Conn /\ CloseTx(c).tx = "closed"
           /\ CloseTx(c).rx = c.rx /\ CloseTx(c).list = c.list /\ Sound(h, p, CloseTx(c))
<1>1. conn[h][p][s] \in Conn /\ Ends(h, p, s)
    BY Connection, Zenon
<1> QED
    BY <1>1, CloseTxOf, NoConnIsConn, Zenon DEF Ends, Sound

LEMMA RxClosed ==
    ASSUME Inv, NEW h \in Host, NEW p \in Host, NEW s \in Slot
    PROVE  LET c == conn[p][h][s] IN
           /\ CloseRx(c) \in Conn /\ CloseRx(c).tx = c.tx
           /\ CloseRx(c).rx = "closed" /\ CloseRx(c).list = NoList /\ Sound(p, h, CloseRx(c))
<1>1. conn[p][h][s] \in Conn /\ Ends(p, h, s)
    BY Connection, Zenon
<1> QED
    BY <1>1, CloseRxOf, NoConnIsConn, Zenon DEF Ends, Sound

LEMMA RecvHelloKeeps ==
    ASSUME Inv, NEW h \in Host, NEW p \in Host, NEW s \in Slot, NEW ok \in BOOLEAN,
           RecvHello(h, p, s, ok), faults' \in 0 .. MaxFaults
    PROVE  Inv'
<1> DEFINE c == conn[h][p][s]
           d == [c EXCEPT !.tx = "waiting", !.msg = IF conn[h][p][s].rx = "closed" THEN "none" ELSE "auth"]
<1>0. c.tx = "open" /\ c.msg = "hello" /\ c \in Conn /\ Ends(h, p, s)
    BY Connection, Zenon DEF RecvHello
<1>1. /\ UNCHANGED <<handles, known, remote, rx, peers, open, timer>>
      /\ notified' \in [Host -> SUBSET Name]
    BY Told, Zenon DEF RecvHello
<1>2. CASE ok
  <2>1. conn' = [conn EXCEPT ![h][p][s] = d] /\ tx' = tx
      BY <1>2, Zenon DEF RecvHello
  <2>2. d \in Conn /\ d.rx = c.rx /\ d.list = c.list /\ Sound(h, p, d)
      BY <1>0, NoConnIsConn, Zenon DEF Conn, Ends, Sound
  <2> HIDE DEF d
  <2> QED
      BY <1>0, <1>1, <2>1, <2>2, TxStep, Zenon
<1>3. CASE ~ok
  <2>1. /\ conn' = [conn EXCEPT ![h][p][s] = CloseTx(c)]
        /\ tx' = [tx EXCEPT ![h][p] = IF @ = s THEN 0 ELSE @]
      BY <1>3, Zenon DEF RecvHello, network_tx_socket_close
  <2> DEFINE e == CloseTx(c)
  <2>2. e \in Conn /\ e.rx = c.rx /\ e.list = c.list /\ Sound(h, p, e)
      BY TxClosed, Zenon
  <2>3. conn' = [conn EXCEPT ![h][p][s] = e]
      BY <2>1, Zenon
  <2> HIDE DEF e
  <2> QED
      BY <1>0, <1>1, <2>1, <2>2, <2>3, TxStep, Zenon
<1> QED
    BY <1>2, <1>3, Zenon

LEMMA AuthFailsKeeps ==
    ASSUME Inv, NEW h \in Host, NEW p \in Host, NEW s \in Slot,
           AuthFails(h, p, s), faults' \in 0 .. MaxFaults
    PROVE  Inv'
<1>1. /\ UNCHANGED <<handles, known, remote, rx, peers, open, timer>>
      /\ notified' \in [Host -> SUBSET Name] /\ conn[h][p][s].tx = "waiting"
    BY Told, Zenon DEF AuthFails
<1>2. /\ conn' = [conn EXCEPT ![h][p][s] = CloseTx(conn[h][p][s])]
      /\ tx' = [tx EXCEPT ![h][p] = IF @ = s THEN 0 ELSE @]
    BY Zenon DEF AuthFails, network_tx_socket_close
<1> DEFINE e == CloseTx(conn[h][p][s])
<1>4. e \in Conn /\ e.rx = conn[h][p][s].rx /\ e.list = conn[h][p][s].list /\ Sound(h, p, e)
    BY TxClosed, Zenon
<1>5. conn' = [conn EXCEPT ![h][p][s] = e]
    BY <1>2, Zenon
<1> HIDE DEF e
<1> QED
    BY <1>1, <1>2, <1>4, <1>5, TxStep, Zenon

LEMMA TxDisconnectKeeps ==
    ASSUME Inv, NEW h \in Host, NEW p \in Host, NEW s \in Slot,
           TxDisconnect(h, p, s), faults' \in 0 .. MaxFaults
    PROVE  Inv'
<1>1. /\ UNCHANGED <<handles, known, remote, rx, peers, open>>
      /\ notified' \in [Host -> SUBSET Name]
      /\ timer' = [timer EXCEPT ![h] = @ \/ open[h]]
    BY Told, Zenon DEF TxDisconnect
<1>2. /\ conn' = [conn EXCEPT ![h][p][s] = CloseTx(conn[h][p][s])]
      /\ tx' = [tx EXCEPT ![h][p] = IF @ = s THEN 0 ELSE @]
    BY Zenon DEF TxDisconnect, network_tx_socket_close
<1>3. timer'[h] \/ ~open[h]
    BY <1>1, Zenon DEF Inv, TypeOK
<1> DEFINE e == CloseTx(conn[h][p][s])
<1>4. e \in Conn /\ e.rx = conn[h][p][s].rx /\ e.list = conn[h][p][s].list /\ Sound(h, p, e)
    BY TxClosed
<1>5. conn' = [conn EXCEPT ![h][p][s] = e]
    BY <1>2
<1> HIDE DEF e
<1> QED
    BY <1>1, <1>2, <1>3, <1>4, <1>5, TxStep, Zenon

LEMMA KnownNames ==
    ASSUME Inv, NEW h \in Host
    PROVE  [k \in Kind |-> [n \in Name |-> IF n \in known[h][k] THEN <<TRUE>> ELSE <<>>]]
               \in [Kind -> [Name -> Seq(BOOLEAN)]]
<1>1. <<TRUE>> \in Seq(BOOLEAN) /\ <<>> \in Seq(BOOLEAN)
    OBVIOUS
<1> QED
    BY <1>1, Zenon

LEMMA AuthDataKeeps ==
    ASSUME Inv, NEW h \in Host, NEW p \in Host, NEW s \in Slot,
           auth_data_cb(h, p, s), faults' \in 0 .. MaxFaults
    PROVE  Inv'
<1> DEFINE c == conn[h][p][s]
           b == [c EXCEPT !.tx = "auth", !.msg = "none"]
           send == [k \in Kind |-> [n \in Name |-> IF n \in known[h][k] THEN <<TRUE>> ELSE <<>>]]
           d == Announce(b, send)
<1>0. c.tx = "waiting" /\ c.msg = "token" /\ c \in Conn /\ Ends(h, p, s)
    BY Connection, Zenon DEF auth_data_cb
<1>1. UNCHANGED <<handles, known, remote, rx, peers, open, timer, tx>>
    BY Zenon DEF auth_data_cb
<1>2. notified' \in [Host -> SUBSET Name]
  <2> DEFINE N == IF rx[h][p] = 0 THEN {} ELSE conn[p][h][rx[h][p]].list["publish"]
  <2>1. rx[h][p] # 0 => rx[h][p] \in Slot
      BY DEF Inv, TypeOK
  <2>2. N \in SUBSET Name
      BY <2>1, Connection, KindAssumption DEF Conn
  <2>3. handle_publish(h, N)
      BY Zenon DEF auth_data_cb
  <2> HIDE DEF N
  <2> QED
      BY <2>2, <2>3, Told, Zenon
<1>3. conn' = [conn EXCEPT ![h][p][s] = d]
    BY Zenon DEF auth_data_cb
<1>4. b \in Conn /\ b.rx = c.rx /\ b.list = c.list /\ b.tx = "auth" /\ b.msg = "none" /\ h # p
    BY <1>0, NoConnIsConn, Zenon DEF Conn, Ends
<1>5. send \in [Kind -> [Name -> Seq(BOOLEAN)]]
    BY KnownNames, Zenon
<1> HIDE DEF b, send
<1>6. d \in Conn /\ d.rx = c.rx /\ d.list = c.list /\ d.tx = "auth" /\ Sound(h, p, d)
    BY <1>0, <1>4, <1>5, AnnounceOn, Zenon DEF Ends, Sound
<1> HIDE DEF d
<1> QED
    BY <1>0, <1>1, <1>2, <1>3, <1>6, TxStep, ZenonT(60), Zenon

LEMMA AcceptKeeps ==
    ASSUME Inv, NEW h \in Host, NEW p \in Host, NEW s \in Slot,
           network_accept(h, p, s), faults' \in 0 .. MaxFaults
    PROVE  Inv'
<1> DEFINE c == conn[p][h][s]
           b == [c EXCEPT !.rx = "open", !.msg = IF conn[p][h][s].tx = "closed" THEN "none" ELSE "hello"]
           d == IF open[h] /\ p \in DOMAIN peers[h] THEN b ELSE CloseRx(c)
           R == {}
<1>0. c.rx = "backlog" /\ c \in Conn /\ Ends(p, h, s)
    BY Connection, Zenon DEF network_accept
<1>1. /\ UNCHANGED <<handles, known, remote, rx, peers, open, timer, tx>>
      /\ notified' \in [Host -> SUBSET Name]
    BY Told, Zenon DEF network_accept
<1>2. conn' = [conn EXCEPT ![p][h][s] = d]
    BY Zenon DEF network_accept
<1>3. b \in Conn /\ b.tx = c.tx /\ b.rx = "open" /\ b.list = NoList /\ Sound(p, h, b)
    BY <1>0, NoConnIsConn, ZenonT(60), Zenon DEF Conn, Ends, Sound
<1> HIDE DEF b
<1>4. d \in Conn /\ d.tx = c.tx /\ d.rx # "auth" /\ d.list = NoList /\ Sound(p, h, d)
    BY <1>3, RxClosed, Zenon
<1>5. rx' = [rx EXCEPT ![h][p] = IF R = {p} THEN 0 ELSE @] /\ remote' = IF R = {p} THEN network_rx_cleanup_state(h, {p}) ELSE remote
    BY <1>1, Zenon DEF Inv, TypeOK
<1>6. R = {}
    BY Zenon
<1> HIDE DEF d, R
<1> QED
    BY <1>0, <1>1, <1>2, <1>4, <1>5, <1>6, RxStep, Zenon

\* network_rx_socket_close, or an end that is not authenticated.
LEMMA RxCloseKeeps ==
    ASSUME Inv, NEW h \in Host, NEW p \in Host, NEW s \in Slot,
           conn' = [conn EXCEPT ![p][h][s] = CloseRx(@)],
           rx' = [rx EXCEPT ![h][p] = IF rx[h][p] = s THEN 0 ELSE @],
           remote' = IF rx[h][p] = s THEN network_rx_cleanup_state(h, {p}) ELSE remote,
           UNCHANGED <<handles, known, tx, timer, peers, open>>,
           notified' \in [Host -> SUBSET Name], faults' \in 0 .. MaxFaults
    PROVE  Inv'
<1> DEFINE c == conn[p][h][s]
           d == CloseRx(c)
           R == IF rx[h][p] = s THEN {p} ELSE {}
<1>0. c \in Conn /\ Ends(p, h, s)
    BY Connection, Zenon
<1>2. conn' = [conn EXCEPT ![p][h][s] = d]
    BY Zenon
<1>3. d \in Conn /\ d.tx = c.tx /\ d.rx = "closed" /\ d.list = NoList /\ Sound(p, h, d)
    BY RxClosed, Zenon
<1>4. R = {p} <=> rx[h][p] = s
    BY Zenon
<1>5. IF c.rx = "auth" THEN R = {p} ELSE R = {}
    BY <1>0, Zenon DEF Ends
<1>6. /\ rx' = [rx EXCEPT ![h][p] = IF R = {p} THEN 0 ELSE @]
      /\ remote' = IF R = {p} THEN network_rx_cleanup_state(h, {p}) ELSE remote
    BY <1>4, Zenon
<1> HIDE DEF d, R
<1> QED
    BY <1>2, <1>3, <1>5, <1>6, RxStep, Zenon

LEMMA AcceptTimeoutKeeps ==
    ASSUME Inv, NEW h \in Host, NEW p \in Host, NEW s \in Slot,
           AcceptTimeout(h, p, s), faults' \in 0 .. MaxFaults
    PROVE  Inv'
<1>1. rx[h][p] # s
    BY Connection, Zenon DEF AcceptTimeout, Ends
<1>2. notified' \in [Host -> SUBSET Name]
    BY Told, Zenon DEF AcceptTimeout
<1>3. rx' = [rx EXCEPT ![h][p] = IF rx[h][p] = s THEN 0 ELSE @]
    BY <1>1, Zenon DEF AcceptTimeout, Inv, TypeOK
<1> QED
    BY <1>1, <1>2, <1>3, RxCloseKeeps, Zenon DEF AcceptTimeout

LEMMA RxDisconnectKeeps ==
    ASSUME Inv, NEW h \in Host, NEW p \in Host, NEW s \in Slot,
           RxDisconnect(h, p, s), faults' \in 0 .. MaxFaults
    PROVE  Inv'
<1>1. notified' \in [Host -> SUBSET Name]
  <2> DEFINE N == IF rx[h][p] = s THEN Lost(h, {p}) ELSE {}
  <2>1. handle_publish(h, N) /\ N \in SUBSET Name
      BY Zenon DEF RxDisconnect, Lost
  <2> HIDE DEF N
  <2> QED
      BY <2>1, Told, Zenon
<1> QED
    BY <1>1, RxCloseKeeps, Zenon DEF RxDisconnect

LEMMA CleanedUp ==
    ASSUME TypeOK, NEW h \in Host, NEW R, remote' = network_rx_cleanup_state(h, R)
    PROVE  /\ remote' \in [Host -> [Kind -> [Name -> SUBSET Host]]]
           /\ \A g, q \in Host, k \in Kind, n \in Name :
                  q \in remote'[g][k][n] <=> q \in remote[g][k][n] /\ ~(g = h /\ q \in R)
<1>1. remote \in [Host -> [Kind -> [Name -> SUBSET Host]]]
    BY Zenon DEF TypeOK
<1> QED
    BY <1>1 DEF network_rx_cleanup_state

LEMMA CheckAuthKeeps ==
    ASSUME Inv, NEW h \in Host, NEW p \in Host, NEW s \in Slot, NEW ok \in BOOLEAN, NEW reply \in BOOLEAN,
           network_check_auth(h, p, s, ok, reply), faults' \in 0 .. MaxFaults
    PROVE  Inv'
<1> DEFINE c == conn[p][h][s]
           old == CloseChannels(h, {}, {p})
           d == [c EXCEPT !.rx = "auth",
                          !.msg = IF reply /\ conn[p][h][s].tx # "closed" THEN "token" ELSE "none"]
<1>0. c.rx = "open" /\ c.msg = "auth" /\ c \in Conn /\ Ends(p, h, s)
    BY Connection, Zenon DEF network_check_auth
<1>1. rx[h][p] # s /\ c.list = NoList /\ p # h
    BY <1>0, NoConnIsConn, Zenon DEF Ends
<1>2. UNCHANGED <<handles, known, open, peers, tx>>
    BY Zenon DEF network_check_auth
<1>3. CASE ~(ok /\ open[h] /\ p \in DOMAIN peers[h])
  <2>1. /\ conn' = [conn EXCEPT ![p][h][s] = CloseRx(@)]
        /\ handle_publish(h, {}) /\ UNCHANGED <<rx, remote, timer>>
      BY <1>3, Zenon DEF network_check_auth
  <2>2. rx' = [rx EXCEPT ![h][p] = IF rx[h][p] = s THEN 0 ELSE @]
      BY <1>1, <2>1, Zenon DEF Inv, TypeOK
  <2>3. notified' \in [Host -> SUBSET Name]
      BY <2>1, Told, Zenon
  <2> QED
      BY <1>1, <1>2, <2>1, <2>2, <2>3, RxCloseKeeps, Zenon
<1>4. CASE ok /\ open[h] /\ p \in DOMAIN peers[h]
  <2>1. /\ conn' = [old EXCEPT ![p][h][s] =
                       [@ EXCEPT !.rx = "auth",
                                 !.msg = IF reply /\ conn[p][h][s].tx # "closed" THEN "token" ELSE "none"]]
        /\ rx' = [rx EXCEPT ![h][p] = s]
        /\ remote' = network_rx_cleanup_state(h, {p})
        /\ handle_publish(h, Lost(h, {p}))
        /\ timer' = [timer EXCEPT ![h] = @ \/ ~Authenticated(h, p)]
      BY <1>4, Zenon DEF network_check_auth
  <2>2. /\ old \in Table
        /\ \A a, b \in Host, z \in Slot :
             old[a][b][z] = IF b = h /\ a = p /\ rx[h][a] = z THEN CloseRx(conn[a][b][z]) ELSE conn[a][b][z]
    <3> DEFINE T == {}
               R == {p}
    <3>1. old = CloseChannels(h, T, R)
        BY Zenon
    <3>2. \A x : x \notin T /\ (x \in R <=> x = p)
        BY Zenon
    <3> HIDE DEF T, R, old
    <3>3. /\ CloseChannels(h, T, R) \in Table
          /\ \A a, b \in Host, z \in Slot :
                CloseChannels(h, T, R)[a][b][z] =
                    IF a = h /\ b \in T /\ tx[h][b] = z THEN CloseTx(conn[a][b][z])
                    ELSE IF b = h /\ a \in R /\ rx[h][a] = z THEN CloseRx(conn[a][b][z])
                    ELSE conn[a][b][z]
      <4>1. TypeOK /\ Channels
          BY Zenon DEF Inv
      <4> QED
          BY <4>1, ClosedChannels
    <3> QED
        BY <3>1, <3>2, <3>3
  <2>3. d \in Conn /\ d.tx = c.tx /\ d.rx = "auth" /\ d.list = NoList
      BY <1>0, <1>1, Zenon DEF Conn
  <2>4. conn' = [old EXCEPT ![p][h][s] = d]
    <3>1. old[p][h][s] = c
        BY <1>1, <2>2, Zenon
    <3> QED
        BY <2>1, <3>1, Zenon
  <2> HIDE DEF old, d
  <2>5. /\ conn' \in Table
        /\ \A a, b \in Host, z \in Slot :
             conn'[a][b][z] = IF a = p /\ b = h
                              THEN IF z = s THEN d ELSE IF rx[h][p] = z THEN CloseRx(conn[p][h][z]) ELSE conn[a][b][z]
                              ELSE conn[a][b][z]
    <3>1. /\ conn' \in Table
          /\ \A a, b \in Host, z \in Slot : conn'[a][b][z] = IF a = p /\ b = h /\ z = s THEN d ELSE old[a][b][z]
        BY <2>2, <2>3, <2>4 DEF Table
    <3> QED
        BY <2>2, <3>1
  <2>6. /\ rx' \in [Host -> [Host -> Slot \cup {0}]]
        /\ \A g, q \in Host : rx'[g][q] = IF g = h /\ q = p THEN s ELSE rx[g][q]
      BY <2>1, Zenon DEF Inv, TypeOK
  <2>7. /\ remote' \in [Host -> [Kind -> [Name -> SUBSET Host]]]
        /\ \A g, q \in Host, k \in Kind, n \in Name :
             q \in remote'[g][k][n] <=> q \in remote[g][k][n] /\ ~(g = h /\ q = p)
    <3> DEFINE R == {p}
    <3>1. \A q : q \in R <=> q = p
        BY Zenon
    <3>2. TypeOK /\ remote' = network_rx_cleanup_state(h, R)
        BY <2>1, Zenon DEF Inv
    <3> HIDE DEF R
    <3> QED
        BY <3>1, <3>2, CleanedUp
  <2>8. /\ timer' \in [Host -> BOOLEAN]
        /\ \A g \in Host : (timer[g] => timer'[g]) /\ (g # h => timer'[g] = timer[g])
      BY <2>1, Zenon DEF Inv, TypeOK
  <2>9. TypeOK'
    <3>1. notified' \in [Host -> SUBSET Name]
        BY <2>1, Told, Zenon DEF Lost
    <3> QED
        BY <1>2, <2>5, <2>6, <2>7, <2>8, <3>1, Zenon DEF Inv, TypeOK, Table
  <2>10. Channels'
    <3> SUFFICES ASSUME NEW a \in Host, NEW b \in Host, NEW z \in Slot
                 PROVE  Ends(a, b, z)'
        BY Zenon DEF Channels
    <3>1. conn[a][b][z] \in Conn /\ Ends(a, b, z)
        BY Connection, Zenon
    <3>2. CASE a = p /\ b = h /\ z = s
        BY <1>1, <2>3, <2>5, <2>6, <3>2, Zenon DEF Ends
    <3>3. CASE a = p /\ b = h /\ z # s /\ rx[h][p] = z
        BY <1>1, <2>5, <2>6, <3>1, <3>3, CloseRxOf, SMTT(30) DEF Ends
    <3>4. CASE ~(a = p /\ b = h /\ (z = s \/ rx[h][p] = z))
      <4>1. conn'[a][b][z] = conn[a][b][z]
          BY <2>5, <3>4
      <4>2. rx'[b][a] = z <=> rx[b][a] = z
          BY <2>6, <3>4, Zenon
      <4> QED
          BY <3>1, <4>1, <4>2, Zenon DEF Ends
    <3> QED
        BY <3>2, <3>3, <3>4, Zenon
  <2>11. RemoteMirrorsChannels'
    <3> SUFFICES ASSUME NEW g \in Host, NEW q \in Host, NEW k \in Kind, NEW n \in Name
                 PROVE  q \in remote'[g][k][n] <=> rx'[g][q] # 0 /\ n \in conn'[q][g][rx'[g][q]].list[k]
        BY Zenon DEF RemoteMirrorsChannels
    <3>1. CASE g = h /\ q = p
        BY <2>3, <2>5, <2>6, <2>7, <3>1, SMTT(30) DEF NoList
    <3>2. CASE ~(g = h /\ q = p)
      <4>1. rx'[g][q] = rx[g][q] /\ (q \in remote'[g][k][n] <=> q \in remote[g][k][n])
          BY <2>6, <2>7, <3>2, Zenon
      <4>2. rx[g][q] # 0 => conn'[q][g][rx[g][q]] = conn[q][g][rx[g][q]]
        <5>1. rx[g][q] \in Slot \cup {0}
            BY DEF Inv, TypeOK
        <5> QED
            BY <2>5, <3>2, <5>1
      <4> QED
          BY <4>1, <4>2, SMTT(30) DEF Inv, RemoteMirrorsChannels
    <3> QED
        BY <3>1, <3>2, Zenon
  <2>12. Networks'
      BY <1>2, <1>4, <2>8, Zenon DEF Inv, Networks
  <2>13. FormerPeersDropped'
    <3>1. \A g, q \in Host : q \notin DOMAIN peers[g] => rx'[g][q] = rx[g][q]
        BY <1>4, <2>6, Zenon
    <3> QED
        BY <1>2, <2>7, <2>8, <3>1, FormerKept DEF Inv
  <2>14. PeersPursued'
    <3>1. ASSUME NEW g \in Host, NEW q \in DOMAIN peers[g], Authenticated(g, q)
          PROVE  Authenticated(g, q)'
      <4>1. q \in Host /\ tx[g][q] \in Slot /\ conn[g][q][tx[g][q]].tx = "auth"
          BY <3>1, ReportOf, SMTT(30) DEF Inv, Networks, TypeOK, Authenticated
      <4>2. conn'[g][q][tx[g][q]].tx = conn[g][q][tx[g][q]].tx
        <5>1. CloseRx(conn[g][q][tx[g][q]]).tx = conn[g][q][tx[g][q]].tx
            BY <4>1, RxClosed, Zenon
        <5> QED
            BY <2>3, <2>5, <4>1, <5>1, SMTT(30)
      <4> QED
          BY <1>2, <3>1, <4>1, <4>2, Zenon DEF Authenticated
    <3> QED
        BY <1>2, <2>8, <3>1, PursuedKept, Zenon DEF Inv
  <2> QED
      BY <2>9, <2>10, <2>11, <2>12, <2>13, <2>14, Zenon DEF Inv
<1> QED
    BY <1>3, <1>4, Zenon

\* What an announcement does: connection d in place of the one it came over, and
\* the name registered or not any more.
Registers(h, p, s, kind, name, d, adds, removes) ==
    LET c == conn[p][h][s]
    IN  /\ conn' = [conn EXCEPT ![p][h][s] = d]
        /\ d.tx = c.tx /\ d.rx = c.rx /\ d.msg = c.msg
        /\ c.sent[kind][name] # <<>> /\ d.sent = [c.sent EXCEPT ![kind][name] = Tail(@)]
        /\ adds <=> /\ Head(c.sent[kind][name]) /\ name \notin c.list[kind]
                    /\ p \in DOMAIN peers[h] /\ name \in peers[h][p].names
        /\ removes <=> ~Head(c.sent[kind][name]) /\ name \in c.list[kind]
        /\ \A k \in Kind, n \in Name :
             n \in d.list[k] <=> IF k = kind /\ n = name THEN adds \/ (n \in c.list[k] /\ ~removes)
                                 ELSE n \in c.list[k]
        /\ remote' \in [Host -> [Kind -> [Name -> SUBSET Host]]]
        /\ \A g, q \in Host, k \in Kind, n \in Name :
             q \in remote'[g][k][n] <=>
                 IF g = h /\ q = p /\ k = kind /\ n = name THEN adds \/ (q \in remote[g][k][n] /\ ~removes)
                 ELSE q \in remote[g][k][n]

LEMMA Announced ==
    ASSUME Inv, NEW h \in Host, NEW p \in Host, NEW s \in Slot, NEW kind \in Kind, NEW name \in Name,
           network_socket_handle_request(h, p, s, kind, name)
    PROVE  \E d \in Conn, adds, removes \in BOOLEAN : Registers(h, p, s, kind, name, d, adds, removes)
<1> DEFINE c == conn[p][h][s]
           enabled == Head(c.sent[kind][name])
           has == name \in c.list[kind]
           adds == enabled /\ ~has /\ p \in DOMAIN peers[h] /\ name \in peers[h][p].names
           removes == ~enabled /\ has
           L == CASE adds -> c.list[kind] \cup {name} [] removes -> c.list[kind] \ {name} [] OTHER -> c.list[kind]
           M == CASE adds -> remote[h][kind][name] \cup {p} [] removes -> remote[h][kind][name] \ {p}
                  [] OTHER -> remote[h][kind][name]
           q0 == Tail(c.sent[kind][name])
           d == [c EXCEPT !.sent[kind][name] = q0, !.list[kind] = L]
<1>1. c \in Conn /\ c.sent[kind][name] # <<>> /\ c.rx = "auth"
    BY Connection, Zenon DEF network_socket_handle_request
<1>2. conn' = [conn EXCEPT ![p][h][s] = d] /\ remote' = [remote EXCEPT ![h][kind][name] = M]
  <2> DEFINE e == [c EXCEPT !.sent[kind][name] = Tail(@),
                            !.list[kind] = CASE adds -> @ \cup {name} [] removes -> @ \ {name} [] OTHER -> @]
  <2>0. conn' = [conn EXCEPT ![p][h][s] = e]
      BY Zenon DEF network_socket_handle_request
  <2>3. e = d
    <3> HIDE DEF adds, removes
    <3> QED
        BY <1>1, Zenon DEF Conn
  <2> HIDE DEF e, d
  <2>1. conn' = [conn EXCEPT ![p][h][s] = d]
      BY <2>0, <2>3, Zenon
  <2>2. remote' = [remote EXCEPT ![h][kind][name] = M]
      BY ZenonT(60), Zenon DEF network_socket_handle_request
  <2> QED
      BY <2>1, <2>2, Zenon
<1>3. c.sent[kind][name] \in Seq(BOOLEAN) /\ c.list[kind] \subseteq Name
    BY <1>1, Zenon DEF Conn
<1>4. q0 \in Seq(BOOLEAN) /\ enabled \in BOOLEAN
    BY <1>1, <1>3, FirstSent, Zenon
<1>5. L \subseteq Name /\ \A n \in Name : n \in L <=> IF n = name THEN adds \/ (n \in c.list[kind] /\ ~removes) ELSE n \in c.list[kind]
    BY <1>3, <1>4, Zenon
<1>6. M \subseteq Host /\ \A q \in Host : q \in M <=> IF q = p THEN adds \/ (q \in remote[h][kind][name] /\ ~removes) ELSE q \in remote[h][kind][name]
  <2>1. remote[h][kind][name] \subseteq Host
      BY DEF Inv, TypeOK
  <2> QED
      BY <1>4, <2>1, Zenon
<1>7. adds \in BOOLEAN /\ removes \in BOOLEAN
    BY <1>4, Zenon
<1>8. /\ adds <=> enabled /\ name \notin c.list[kind] /\ p \in DOMAIN peers[h] /\ name \in peers[h][p].names
      /\ removes <=> ~enabled /\ name \in c.list[kind]
    BY Zenon
<1>9. d.sent = [c.sent EXCEPT ![kind][name] = Tail(@)]
    BY <1>1, Zenon DEF Conn
<1> HIDE DEF L, M, q0, adds, removes, enabled
<1>10. /\ d \in Conn /\ d.tx = c.tx /\ d.rx = c.rx /\ d.msg = c.msg
       /\ \A k \in Kind : d.list[k] = IF k = kind THEN L ELSE c.list[k]
    BY <1>1, <1>4, <1>5, ZenonT(60), Zenon DEF Conn
<1>11. \A k \in Kind, n \in Name :
          n \in d.list[k] <=> IF k = kind /\ n = name THEN adds \/ (n \in c.list[k] /\ ~removes) ELSE n \in c.list[k]
    BY <1>5, <1>10
<1>12. /\ remote' \in [Host -> [Kind -> [Name -> SUBSET Host]]]
       /\ \A g \in Host, k \in Kind, n \in Name :
              remote'[g][k][n] = IF g = h /\ k = kind /\ n = name THEN M ELSE remote[g][k][n]
  <2>1. remote \in [Host -> [Kind -> [Name -> SUBSET Host]]]
      BY Zenon DEF Inv, TypeOK
  <2> QED
      BY <1>2, <1>6, <2>1
<1>13. \A g, q \in Host, k \in Kind, n \in Name :
          q \in remote'[g][k][n] <=>
              IF g = h /\ q = p /\ k = kind /\ n = name THEN adds \/ (q \in remote[g][k][n] /\ ~removes)
              ELSE q \in remote[g][k][n]
    BY <1>6, <1>12
<1> HIDE DEF d
<1>14. Registers(h, p, s, kind, name, d, adds, removes)
    BY <1>1, <1>2, <1>8, <1>9, <1>10, <1>11, <1>12, <1>13, Zenon DEF enabled, Registers
<1> QED
    BY <1>7, <1>10, <1>14, Zenon

LEMMA HandleRequestKeeps ==
    ASSUME Inv, NEW h \in Host, NEW p \in Host, NEW s \in Slot, NEW kind \in Kind, NEW name \in Name,
           network_socket_handle_request(h, p, s, kind, name), faults' \in 0 .. MaxFaults
    PROVE  Inv'
<1>1. PICK d \in Conn, adds \in BOOLEAN, removes \in BOOLEAN : Registers(h, p, s, kind, name, d, adds, removes)
    BY Announced, Zenon
<1> DEFINE c == conn[p][h][s]
<1>0. c \in Conn /\ c.rx = "auth" /\ rx[h][p] = s /\ Ends(p, h, s) /\ p # h
  <2>1. c.rx = "auth"
      BY Zenon DEF network_socket_handle_request
  <2> QED
      BY <2>1, Connection, NoConnIsConn DEF Ends
<1>2. UNCHANGED <<handles, known, open, peers, timer, tx, rx>>
    BY Zenon DEF network_socket_handle_request
<1>3. notified' \in [Host -> SUBSET Name]
  <2>1. PICK told \in BOOLEAN : handle_publish(h, IF told THEN {name} ELSE {})
    <3> DEFINE enabled == Head(c.sent[kind][name])
               has == name \in c.list[kind]
               added == enabled /\ ~has /\ p \in DOMAIN peers[h] /\ name \in peers[h][p].names
               removed == ~enabled /\ has
               told == kind = "publish" /\ (removed \/ (enabled /\ (has \/ added) /\ Authenticated(h, p)))
    <3>1. handle_publish(h, IF told THEN {name} ELSE {})
        BY Zenon DEF network_socket_handle_request
    <3>2. told \in BOOLEAN
        BY Zenon
    <3> HIDE DEF told
    <3> QED
        BY <3>1, <3>2, Zenon
  <2> DEFINE N == IF told THEN {name} ELSE {}
  <2>2. N \in SUBSET Name
      BY Zenon
  <2> HIDE DEF N
  <2> QED
      BY <2>1, <2>2, Told, Zenon DEF N
<1>4. /\ conn' \in Table
      /\ \A a, b \in Host, z \in Slot :
           conn'[a][b][z] = IF a = p /\ b = h /\ z = s THEN d ELSE conn[a][b][z]
  <2>1. conn \in Table /\ conn' = [conn EXCEPT ![p][h][s] = d]
      BY <1>1, Zenon DEF Inv, TypeOK, Table, Registers
  <2> QED
      BY <2>1, Zenon DEF Table
<1>5. d.tx = c.tx /\ d.rx = c.rx /\ d.msg = c.msg
    BY <1>1, Zenon DEF Registers
<1>6. /\ remote' \in [Host -> [Kind -> [Name -> SUBSET Host]]]
      /\ \A g, q \in Host, k \in Kind, n \in Name :
           q \in remote'[g][k][n] <=>
               IF g = h /\ q = p /\ k = kind /\ n = name THEN adds \/ (q \in remote[g][k][n] /\ ~removes)
               ELSE q \in remote[g][k][n]
    BY <1>1, Zenon DEF Registers
<1>7. \A k \in Kind, n \in Name :
          n \in d.list[k] <=> IF k = kind /\ n = name THEN adds \/ (n \in c.list[k] /\ ~removes)
                              ELSE n \in c.list[k]
    BY <1>1, Zenon DEF Registers
<1>8. adds => p \in DOMAIN peers[h]
    BY <1>1, Zenon DEF Registers
<1>9. TypeOK'
    BY <1>2, <1>3, <1>4, <1>6, Zenon DEF Inv, TypeOK, Table
<1>10. Channels'
  <2> SUFFICES ASSUME NEW a \in Host, NEW b \in Host, NEW z \in Slot
               PROVE  Ends(a, b, z)'
      BY Zenon DEF Channels
  <2>1. Ends(a, b, z)
      BY Connection, Zenon
  <2>2. CASE a = p /\ b = h /\ z = s
      BY <1>0, <1>2, <1>4, <1>5, <2>2, Zenon DEF Ends
  <2>3. CASE ~(a = p /\ b = h /\ z = s)
      BY <1>2, <1>4, <2>1, <2>3, Zenon DEF Ends
  <2> QED
      BY <2>2, <2>3, Zenon
<1>11. RemoteMirrorsChannels'
  <2> SUFFICES ASSUME NEW g \in Host, NEW q \in Host, NEW k \in Kind, NEW n \in Name
               PROVE  q \in remote'[g][k][n] <=> rx'[g][q] # 0 /\ n \in conn'[q][g][rx'[g][q]].list[k]
      BY Zenon DEF RemoteMirrorsChannels
  <2>1. q \in remote[g][k][n] <=> rx[g][q] # 0 /\ n \in conn[q][g][rx[g][q]].list[k]
      BY Zenon DEF Inv, RemoteMirrorsChannels
  <2>2. rx[g][q] \in Slot \cup {0} /\ 0 \notin Slot
    <3>1. rx \in [Host -> [Host -> Slot \cup {0}]]
        BY Zenon DEF Inv, TypeOK
    <3> QED
        BY <3>1, SlotAssumption, Zenon
  <2>3. CASE g = h /\ q = p
    <3>1. conn'[q][g][rx'[g][q]] = d /\ rx'[g][q] # 0 /\ conn[q][g][rx[g][q]] = c
        BY <1>0, <1>2, <1>4, <2>2, <2>3, Zenon
    <3>2. q \in remote'[g][k][n] <=>
              IF k = kind /\ n = name THEN adds \/ (q \in remote[g][k][n] /\ ~removes) ELSE q \in remote[g][k][n]
        BY <1>6, <2>3, Zenon
    <3>3. n \in d.list[k] <=> IF k = kind /\ n = name THEN adds \/ (n \in c.list[k] /\ ~removes) ELSE n \in c.list[k]
        BY <1>7, Zenon
    <3>4. q \in remote[g][k][n] <=> n \in c.list[k]
        BY <2>1, <3>1, <1>2, Zenon
    <3> QED
        BY <3>1, <3>2, <3>3, <3>4, ZenonT(60), Zenon
  <2>4. CASE ~(g = h /\ q = p)
    <3>1. rx[g][q] # 0 => conn'[q][g][rx[g][q]] = conn[q][g][rx[g][q]]
        BY <1>4, <2>2, <2>4
    <3>2. q \in remote'[g][k][n] <=> q \in remote[g][k][n]
        BY <1>6, <2>4, Zenon
    <3> QED
        BY <1>2, <2>1, <3>1, <3>2, Zenon
  <2> QED
      BY <2>3, <2>4, Zenon
<1>12. Networks'
    BY <1>2, Zenon DEF Inv, Networks
<1>13. FormerPeersDropped'
  <2>1. \A g, q \in Host : q \notin DOMAIN peers[g] =>
            \A k \in Kind, n \in Name : q \in remote'[g][k][n] => q \in remote[g][k][n]
      BY <1>6, <1>8, Zenon
  <2> QED
      BY <1>2, <2>1, FormerKept, Zenon DEF Inv
<1>14. PeersPursued'
  <2>1. ASSUME NEW g \in Host, NEW q \in DOMAIN peers[g], Authenticated(g, q)
        PROVE  Authenticated(g, q)'
    <3>1. q \in Host /\ tx[g][q] \in Slot /\ conn[g][q][tx[g][q]].tx = "auth"
        BY <2>1, ReportOf, SMTT(30) DEF Inv, Networks, TypeOK, Authenticated
    <3> QED
        BY <1>2, <1>4, <1>5, <2>1, <3>1 DEF Authenticated
  <2> QED
      BY <1>2, <2>1, PursuedKept, Zenon DEF Inv
<1> QED
    BY <1>9, <1>10, <1>11, <1>12, <1>13, <1>14, Zenon DEF Inv

-----------------------------------------------------------------------------
(* Steps of the clients *)

LEMMA PubsubSet ==
    ASSUME Inv, NEW h \in Host, NEW send \in [Kind -> [Name -> Seq(BOOLEAN)]],
           pubsub_set(h, send) \/ conn' = conn
    PROVE  /\ conn' \in Table
           /\ \A a, b \in Host, s \in Slot :
                /\ conn'[a][b][s] = conn[a][b][s] \/ conn'[a][b][s] = Announce(conn[a][b][s], send)
                /\ conn'[a][b][s].tx = conn[a][b][s].tx /\ conn'[a][b][s].rx = conn[a][b][s].rx
                /\ conn'[a][b][s].msg = conn[a][b][s].msg /\ conn'[a][b][s].list = conn[a][b][s].list
<1>1. conn \in Table
    BY Zenon DEF Inv, TypeOK, Table
<1> DEFINE F(p, s) == IF s = tx[h][p] /\ conn[h][p][s].tx = "auth"
                      THEN Announce(conn[h][p][s], send) ELSE conn[h][p][s]
<1>2. \A p \in Host, s \in Slot : F(p, s) \in Conn
    BY Connection, AnnounceOn, Zenon
<1>3. CASE conn' = [conn EXCEPT ![h] = [p \in Host |-> [s \in Slot |-> F(p, s)]]]
  <2> HIDE DEF F
  <2>1. /\ conn' \in Table
        /\ \A a, b \in Host, s \in Slot : conn'[a][b][s] = IF a = h THEN F(b, s) ELSE conn[a][b][s]
      BY <1>1, <1>2, <1>3, Zenon DEF Table
  <2>2. \A a, b \in Host, s \in Slot : conn'[a][b][s] = conn[a][b][s] \/ conn'[a][b][s] = Announce(conn[a][b][s], send)
      BY <2>1 DEF F
  <2>3. \A a, b \in Host, s \in Slot :
            /\ Announce(conn[a][b][s], send).tx = conn[a][b][s].tx /\ Announce(conn[a][b][s], send).rx = conn[a][b][s].rx
            /\ Announce(conn[a][b][s], send).msg = conn[a][b][s].msg
            /\ Announce(conn[a][b][s], send).list = conn[a][b][s].list
      BY Connection, AnnounceOn, ZenonT(60)
  <2>4. conn' \in Table
      BY <2>1, Zenon
  <2> HIDE DEF Announce
  <2>5. \A a, b \in Host, s \in Slot :
            /\ conn'[a][b][s].tx = conn[a][b][s].tx /\ conn'[a][b][s].rx = conn[a][b][s].rx
            /\ conn'[a][b][s].msg = conn[a][b][s].msg /\ conn'[a][b][s].list = conn[a][b][s].list
      BY <2>2, <2>3, SMTT(30)
  <2> QED
      BY <2>2, <2>4, <2>5, ZenonT(60)
<1>4. CASE conn' = conn
    BY <1>1, <1>4, Zenon
<1>5. pubsub_set(h, send) => conn' = [conn EXCEPT ![h] = [p \in Host |-> [s \in Slot |-> F(p, s)]]]
    BY Zenon DEF pubsub_set
<1> QED
    BY <1>3, <1>4, <1>5, Zenon

LEMMA ClientKeeps ==
    ASSUME Inv, NEW h \in Host, NEW send \in [Kind -> [Name -> Seq(BOOLEAN)]],
           pubsub_set(h, send) \/ conn' = conn,
           handles' \in [Host -> [Kind -> [Name -> SUBSET Client]]],
           known' \in [Host -> [Kind -> SUBSET Name]],
           UNCHANGED <<remote, open, peers, timer, tx, rx>>,
           notified' \in [Host -> SUBSET Name], faults' \in 0 .. MaxFaults
    PROVE  Inv'
<1>1. /\ conn' \in Table
      /\ \A a, b \in Host, s \in Slot :
                /\ conn'[a][b][s] = conn[a][b][s] \/ conn'[a][b][s] = Announce(conn[a][b][s], send)
                /\ conn'[a][b][s].tx = conn[a][b][s].tx /\ conn'[a][b][s].rx = conn[a][b][s].rx
                /\ conn'[a][b][s].msg = conn[a][b][s].msg /\ conn'[a][b][s].list = conn[a][b][s].list
    BY PubsubSet, Zenon
<1>2. TypeOK'
    BY <1>1, Zenon DEF Inv, TypeOK, Table
<1>3. Channels' /\ RemoteMirrorsChannels'
  <2>1. Drops(h, {})
      BY <1>1, SMTT(30) DEF Drops
  <2>2. ASSUME NEW a \in Host, NEW b \in Host, NEW s \in Slot
        PROVE  Sound(a, b, conn'[a][b][s])
    <3>1. Ends(a, b, s) /\ conn[a][b][s] \in Conn
        BY Connection, Zenon
    <3>2. a = b => Announce(conn[a][b][s], send) = conn[a][b][s]
        BY <3>1, NoConnIsConn, ZenonT(60), Zenon DEF Ends, Announce
    <3>3. /\ conn'[a][b][s].tx = conn[a][b][s].tx /\ conn'[a][b][s].rx = conn[a][b][s].rx
          /\ conn'[a][b][s].msg = conn[a][b][s].msg
          /\ conn'[a][b][s] = conn[a][b][s] \/ conn'[a][b][s] = Announce(conn[a][b][s], send)
        BY <1>1, SMTT(30)
    <3> QED
        BY <3>1, <3>2, <3>3, Zenon DEF Ends, Sound
  <2> QED
      BY <2>1, <2>2, DropsKeeps, ZenonT(60), Zenon DEF Inv
<1>4. Networks' /\ FormerPeersDropped'
    BY FormerKept, ZenonT(60), Zenon DEF Inv, Networks
<1>5. PeersPursued'
  <2>1. ASSUME NEW g \in Host, NEW q \in DOMAIN peers[g], Authenticated(g, q)
        PROVE  Authenticated(g, q)'
    <3>1. q \in Host /\ tx[g][q] \in Slot /\ conn[g][q][tx[g][q]].tx = "auth"
        BY <2>1, AuthenticatedPeer, Zenon
    <3>2. tx' = tx
        BY Zenon
    <3>3. conn'[g][q][tx[g][q]].tx = "auth"
        BY <1>1, <3>1, Zenon
    <3> QED
        BY <2>1, <3>2, <3>3, Zenon DEF Authenticated
  <2> QED
      BY <2>1, PursuedKept, Zenon DEF Inv
<1> QED
    BY <1>2, <1>3, <1>4, <1>5, Zenon DEF Inv

LEMMA ClientPubsubKeeps ==
    ASSUME Inv, NEW h \in Host, NEW c \in Client, NEW kind \in Kind, NEW name \in Name,
           client_pubsub(h, c, kind, name), faults' \in 0 .. MaxFaults
    PROVE  Inv'
<1> DEFINE send == [k \in Kind |-> [n \in Name |-> IF k = kind /\ n = name THEN <<TRUE>> ELSE <<>>]]
<1>1. send \in [Kind -> [Name -> Seq(BOOLEAN)]]
  <2>1. <<TRUE>> \in Seq(BOOLEAN) /\ <<>> \in Seq(BOOLEAN)
      OBVIOUS
  <2> QED
      BY <2>1, Zenon
<1>2. pubsub_set(h, send) \/ conn' = conn
    BY Zenon DEF client_pubsub
<1>3. /\ handles' \in [Host -> [Kind -> [Name -> SUBSET Client]]]
      /\ known' \in [Host -> [Kind -> SUBSET Name]]
  <2>1. handles \in [Host -> [Kind -> [Name -> SUBSET Client]]] /\ known \in [Host -> [Kind -> SUBSET Name]]
      BY ZenonT(60), Zenon DEF Inv, TypeOK
  <2>2. handles' \in [Host -> [Kind -> [Name -> SUBSET Client]]]
      BY <2>1, SMTT(30) DEF client_pubsub
  <2>3. known' \in [Host -> [Kind -> SUBSET Name]]
      BY <2>1, Zenon DEF client_pubsub
  <2> QED
      BY <2>2, <2>3, Zenon
<1>4. notified' \in [Host -> SUBSET Name]
  <2> DEFINE N == IF kind = "publish" THEN {name} ELSE {}
  <2>1. handle_publish(h, N) /\ N \in SUBSET Name
      BY Zenon DEF client_pubsub
  <2> HIDE DEF N
  <2> QED
      BY <2>1, Told, Zenon
<1> HIDE DEF send
<1> QED
    BY <1>1, <1>2, <1>3, <1>4, ClientKeeps, Zenon DEF client_pubsub

LEMMA ClientDisconnectKeeps ==
    ASSUME Inv, NEW h \in Host, NEW c \in Client,
           client_disconnect(h, c), faults' \in 0 .. MaxFaults
    PROVE  Inv'
<1> DEFINE left == [k \in Kind |-> [n \in Name |-> handles[h][k][n] \ {c}]]
           had(k, n) == c \in handles[h][k][n]
           send == [k \in Kind |-> [n \in Name |-> IF had(k, n) /\ (left[k][n] = {} \/ k = "publish")
                                                   THEN <<left[k][n] # {}>> ELSE <<>>]]
           N == {n \in Name : had("publish", n)}
<1>1. send \in [Kind -> [Name -> Seq(BOOLEAN)]]
  <2>1. <<>> \in Seq(BOOLEAN) /\ \A b \in BOOLEAN : <<b>> \in Seq(BOOLEAN)
      OBVIOUS
  <2>2. \A k \in Kind, n \in Name : (left[k][n] # {}) \in BOOLEAN
      BY Zenon
  <2> HIDE DEF left, had
  <2> QED
      BY <2>1, <2>2, Zenon
<1>2. /\ pubsub_set(h, send) /\ handle_publish(h, N)
      /\ handles' = [handles EXCEPT ![h] = left]
      /\ UNCHANGED <<known, remote, open, peers, timer, tx, rx>>
    BY Zenon DEF client_disconnect
<1>3. left \in [Kind -> [Name -> SUBSET Client]]
    BY SMTT(30) DEF Inv, TypeOK
<1>4. N \in SUBSET Name
    BY Zenon
<1> HIDE DEF send, left, N
<1>5. /\ handles' \in [Host -> [Kind -> [Name -> SUBSET Client]]]
      /\ known' \in [Host -> [Kind -> SUBSET Name]]
      /\ notified' \in [Host -> SUBSET Name]
  <2>1. handles \in [Host -> [Kind -> [Name -> SUBSET Client]]] /\ known \in [Host -> [Kind -> SUBSET Name]]
      BY Zenon DEF Inv, TypeOK
  <2>2. handles' \in [Host -> [Kind -> [Name -> SUBSET Client]]]
      BY <1>2, <1>3, <2>1, Zenon
  <2>3. known' \in [Host -> [Kind -> SUBSET Name]]
      BY <1>2, <2>1, Zenon
  <2>4. notified' \in [Host -> SUBSET Name]
      BY <1>2, <1>4, Told, Zenon DEF Inv
  <2> QED
      BY <2>2, <2>3, <2>4, Zenon
<1> QED
    BY <1>1, <1>2, <1>5, ClientKeeps, Zenon

-----------------------------------------------------------------------------
(* Steps of a whole network *)

Fresh == [NoConn EXCEPT !.tx = "open", !.rx = "backlog"]

LEMMA FreshIsConn ==
    /\ Fresh \in Conn /\ Fresh.tx = "open" /\ Fresh.rx = "backlog" /\ Fresh.msg = "none"
    /\ Fresh.list = NoList /\ Fresh.sent = NoneSent
BY NoConnIsConn, ZenonT(60), Zenon DEF Fresh, Conn

\* Connection c becomes d when h closes some of its ends, its accepting ends from
\* R among them, and opens others.
Closing(h, R, a, b, s, c, d) ==
    IF b = h /\ a \in R /\ rx[h][a] = s THEN d = CloseRx(c)
    ELSE \/ d = c
         \/ a = h /\ d = CloseTx(c)
         \/ b = h /\ c.rx # "auth" /\ d = CloseRx(c)
         \/ a = h /\ a # b /\ c.rx = "closed" /\ d = Fresh

Closes(h, R) == \A a, b \in Host, s \in Slot : Closing(h, R, a, b, s, conn[a][b][s], conn'[a][b][s])

LEMMA ClosingStep ==
    ASSUME Inv, NEW h \in Host, NEW R,
           Closes(h, R),
           \A g, p \in Host : rx'[g][p] = IF g = h /\ p \in R THEN 0 ELSE rx[g][p],
           \A g, p \in Host, k \in Kind, n \in Name :
               p \in remote'[g][k][n] <=> p \in remote[g][k][n] /\ ~(g = h /\ p \in R)
    PROVE  Channels' /\ RemoteMirrorsChannels'
<1>1. ASSUME NEW a \in Host, NEW b \in Host, NEW s \in Slot
      PROVE  /\ IF b = h /\ a \in R /\ rx[h][a] = s
                THEN conn'[a][b][s].rx = "closed" /\ conn'[a][b][s].list = NoList
                ELSE /\ conn'[a][b][s].rx = "auth" <=> conn[a][b][s].rx = "auth"
                     /\ conn'[a][b][s].list = conn[a][b][s].list
             /\ Sound(a, b, conn'[a][b][s])
  <2> DEFINE c == conn[a][b][s]
             d == conn'[a][b][s]
  <2>0. c \in Conn /\ Ends(a, b, s) /\ Closing(h, R, a, b, s, c, d)
      BY Connection, Zenon DEF Closes
  <2>1. CASE b = h /\ a \in R /\ rx[h][a] = s
    <3>1. d = CloseRx(c)
        BY <2>0, <2>1, Zenon DEF Closing
    <3> QED
        BY <2>1, <3>1, RxClosed
  <2>2. CASE ~(b = h /\ a \in R /\ rx[h][a] = s)
    <3>1. \/ d = c
          \/ a = h /\ d = CloseTx(c)
          \/ b = h /\ c.rx # "auth" /\ d = CloseRx(c)
          \/ a = h /\ a # b /\ c.rx = "closed" /\ d = Fresh
        BY <2>0, <2>2, ZenonT(60), Zenon DEF Closing
    <3>2. CASE d = c
        BY <2>0, <2>2, <3>2, Zenon DEF Ends, Sound
    <3>3. CASE a = h /\ d = CloseTx(c)
        BY <2>2, <3>3, TxClosed, SMTT(30)
    <3>4. CASE b = h /\ c.rx # "auth" /\ d = CloseRx(c)
      <4>1. c.list = NoList
          BY <2>0, <3>4, Zenon DEF Ends
      <4>2. d.rx = "closed" /\ d.list = NoList /\ Sound(a, b, d)
          BY <3>4, RxClosed, SMTT(30)
      <4> QED
          BY <2>2, <3>4, <4>1, <4>2, Zenon
    <3>5. CASE a = h /\ a # b /\ c.rx = "closed" /\ d = Fresh
        BY <2>0, <2>2, <3>5, FreshIsConn, Zenon DEF Ends, Sound
    <3> QED
        BY <3>1, <3>2, <3>3, <3>4, <3>5, Zenon
  <2> QED
      BY <2>1, <2>2, Zenon
<1>2. Drops(h, R)
    BY <1>1, SMTT(30) DEF Drops
<1> QED
    BY <1>1, <1>2, DropsKeeps, Zenon DEF Inv

\* The other hosts do not notice before their own callbacks.
LEMMA OthersPursue ==
    ASSUME Inv, NEW h \in Host, NEW R, NEW g \in Host, g # h,
           Closes(h, R),
           tx'[g] = tx[g], NEW p \in DOMAIN peers[g], Authenticated(g, p)
    PROVE  Authenticated(g, p)'
<1>1. p \in Host /\ tx[g][p] \in Slot /\ conn[g][p][tx[g][p]].tx = "auth"
    BY ReportOf, SMTT(30) DEF Inv, Networks, TypeOK, Authenticated
<1> DEFINE s == tx[g][p]
           c == conn[g][p][s]
           d == conn'[g][p][s]
<1>2. Closing(h, R, g, p, s, c, d)
    BY <1>1, Zenon DEF Closes
<1>3. d = c \/ d = CloseRx(c)
    BY <1>2, ZenonT(60), Zenon DEF Closing
<1>4. CloseRx(c).tx = c.tx
    BY <1>1, RxClosed, Zenon
<1>5. d.tx = "auth"
    BY <1>1, <1>3, <1>4, Zenon
<1> QED
    BY <1>1, <1>5, Zenon DEF Authenticated

LEMMA EmptiedTx ==
    ASSUME TypeOK, NEW h \in Host, NEW S, tx' = Without(tx, h, S)
    PROVE  /\ tx' \in [Host -> [Host -> Slot \cup {0}]]
           /\ \A g, p \in Host : tx'[g][p] = IF g = h /\ p \in S THEN 0 ELSE tx[g][p]
           /\ \A g \in Host : g # h => tx'[g] = tx[g]
<1>1. tx \in [Host -> [Host -> Slot \cup {0}]]
    BY Zenon DEF TypeOK
<1> QED
    BY <1>1, Zenon DEF Without

LEMMA EmptiedRx ==
    ASSUME TypeOK, NEW h \in Host, NEW S, rx' = Without(rx, h, S)
    PROVE  /\ rx' \in [Host -> [Host -> Slot \cup {0}]]
           /\ \A g, p \in Host : rx'[g][p] = IF g = h /\ p \in S THEN 0 ELSE rx[g][p]
<1>1. rx \in [Host -> [Host -> Slot \cup {0}]]
    BY Zenon DEF TypeOK
<1> QED
    BY <1>1, Zenon DEF Without

\* Only hosts with a connection can have registered names.
LEMMA CleanedUpClosed ==
    ASSUME Inv, NEW h \in Host, NEW R, remote' = network_rx_cleanup_state(h, Closed(h, R))
    PROVE  /\ remote' \in [Host -> [Kind -> [Name -> SUBSET Host]]]
           /\ \A g, p \in Host, k \in Kind, n \in Name :
                  p \in remote'[g][k][n] <=> p \in remote[g][k][n] /\ ~(g = h /\ p \in R)
<1> DEFINE C == Closed(h, R)
<1>1. TypeOK /\ remote' = network_rx_cleanup_state(h, C)
    BY Zenon DEF Inv
<1>2. \A p : p \in C <=> p \in R /\ rx[h][p] # 0
    BY Zenon DEF Closed
<1> HIDE DEF C
<1>3. /\ remote' \in [Host -> [Kind -> [Name -> SUBSET Host]]]
      /\ \A g, q \in Host, k \in Kind, n \in Name :
             q \in remote'[g][k][n] <=> q \in remote[g][k][n] /\ ~(g = h /\ q \in C)
    BY <1>1, CleanedUp, Zenon
<1>4. \A p \in Host, k \in Kind, n \in Name : p \in remote[h][k][n] => rx[h][p] # 0
    BY Zenon DEF Inv, RemoteMirrorsChannels
<1> QED
    BY <1>2, <1>3, <1>4, Zenon

LEMMA OpenKeeps ==
    ASSUME Inv, NEW h \in Host, NEW P \in Peers(h), network_open(h, P), faults' \in 0 .. MaxFaults
    PROVE  Inv'
<1>1. /\ UNCHANGED <<handles, known, remote, tx, rx, conn>>
      /\ open' = [open EXCEPT ![h] = TRUE] /\ timer' = [timer EXCEPT ![h] = TRUE]
      /\ peers' = [peers EXCEPT ![h] = P]
      /\ notified' \in [Host -> SUBSET Name]
    BY Told, Zenon DEF network_open
<1>2. /\ peers' \in [Host -> UNION {Peers(g) : g \in Host}]
      /\ \A g \in Host : peers'[g] = IF g = h THEN P ELSE peers[g]
    BY <1>1, Zenon DEF Inv, TypeOK
<1>3. /\ open' \in [Host -> BOOLEAN] /\ timer' \in [Host -> BOOLEAN]
      /\ \A g \in Host : g # h => open'[g] = open[g] /\ timer'[g] = timer[g]
      /\ open'[h] /\ timer'[h]
    BY <1>1, Zenon DEF Inv, TypeOK
<1>4. TypeOK'
    BY <1>1, <1>2, <1>3, Zenon DEF Inv, TypeOK
<1>5. Channels' /\ RemoteMirrorsChannels'
  <2>1. Channels'
      BY <1>1, ChannelsSame, Zenon DEF Inv
  <2>2. RemoteMirrorsChannels'
      BY <1>1, Zenon DEF Inv, RemoteMirrorsChannels
  <2> QED
      BY <2>1, <2>2, Zenon
<1>6. Networks'
    BY <1>2, <1>3, Zenon DEF Inv, Networks
<1>7. FormerPeersDropped'
    BY <1>1, <1>2, <1>3 DEF Inv, FormerPeersDropped
<1>8. PeersPursued'
    BY <1>1, <1>2, <1>3, Zenon DEF Inv, PeersPursued, Authenticated
<1> QED
    BY <1>4, <1>5, <1>6, <1>7, <1>8, Zenon DEF Inv

\* Ends closed by network_tx_socket_close and network_rx_socket_close.
LEMMA ClosedIsClosing ==
    ASSUME Inv, NEW h \in Host, NEW T, NEW R, NEW a \in Host, NEW b \in Host, NEW s \in Slot
    PROVE  Closing(h, R, a, b, s, conn[a][b][s], CloseChannels(h, T, R)[a][b][s])
<1> DEFINE c == conn[a][b][s]
<1>0. c \in Conn /\ Ends(a, b, s)
    BY Connection, Zenon
<1>1. CloseChannels(h, T, R)[a][b][s] =
          IF a = h /\ b \in T /\ tx[h][b] = s THEN CloseTx(c)
          ELSE IF b = h /\ a \in R /\ rx[h][a] = s THEN CloseRx(c) ELSE c
  <2>1. TypeOK /\ Channels
      BY Zenon DEF Inv
  <2> QED
      BY <2>1, ClosedChannels
<1>2. a = h /\ b = h => CloseTx(c) = c /\ CloseRx(c) = c
    BY <1>0, CloseTxOf, CloseRxOf, Zenon DEF Ends
<1> QED
    BY <1>1, <1>2, Zenon DEF Closing

LEMMA UpdateKeeps ==
    ASSUME Inv, NEW h \in Host, NEW P \in Peers(h), network_update(h, P), faults' \in 0 .. MaxFaults
    PROVE  Inv'
<1> DEFINE changed == {p \in DOMAIN peers[h] : IF p \in DOMAIN P THEN P[p] # peers[h][p] ELSE peers[h][p].limited}
<1>1. /\ conn' = CloseChannels(h, changed, changed)
      /\ tx' = Without(tx, h, changed) /\ rx' = Without(rx, h, changed)
      /\ remote' = network_rx_cleanup_state(h, Closed(h, changed))
      /\ handle_publish(h, Lost(h, Closed(h, changed)))
      /\ peers' = [peers EXCEPT ![h] = P] /\ timer' = [timer EXCEPT ![h] = TRUE]
      /\ UNCHANGED <<handles, known, open>> /\ open[h]
    BY Zenon DEF network_update
<1> HIDE DEF changed
<1>2. /\ conn' \in Table
      /\ Closes(h, changed)
  <2>1. TypeOK /\ Channels
      BY Zenon DEF Inv
  <2>2. CloseChannels(h, changed, changed) \in Table
      BY <2>1, ClosedChannels, Zenon
  <2> QED
      BY <1>1, <2>2, ClosedIsClosing, Zenon DEF Closes
<1>4. /\ tx' \in [Host -> [Host -> Slot \cup {0}]]
      /\ \A g \in Host : g # h => tx'[g] = tx[g]
    BY <1>1, EmptiedTx, ZenonT(60), Zenon DEF Inv
<1>5. /\ rx' \in [Host -> [Host -> Slot \cup {0}]]
      /\ \A g, p \in Host : rx'[g][p] = IF g = h /\ p \in changed THEN 0 ELSE rx[g][p]
    BY <1>1, EmptiedRx DEF Inv
<1>6. /\ remote' \in [Host -> [Kind -> [Name -> SUBSET Host]]]
      /\ \A g, p \in Host, k \in Kind, n \in Name :
             p \in remote'[g][k][n] <=> p \in remote[g][k][n] /\ ~(g = h /\ p \in changed)
    BY <1>1, CleanedUpClosed, Zenon
<1>7. /\ peers' \in [Host -> UNION {Peers(g) : g \in Host}]
      /\ \A g \in Host : peers'[g] = IF g = h THEN P ELSE peers[g]
    BY <1>1, Zenon DEF Inv, TypeOK
<1>8. /\ timer' \in [Host -> BOOLEAN] /\ timer'[h]
      /\ \A g \in Host : g # h => timer'[g] = timer[g]
    BY <1>1, Zenon DEF Inv, TypeOK
<1>9. TypeOK'
  <2>1. notified' \in [Host -> SUBSET Name]
      BY <1>1, Told, ZenonT(60), Zenon DEF Lost
  <2> QED
      BY <1>1, <1>2, <1>4, <1>5, <1>6, <1>7, <1>8, <2>1, Zenon DEF Inv, TypeOK, Table
<1>10. Channels' /\ RemoteMirrorsChannels'
    BY <1>2, <1>5, <1>6, ClosingStep, Zenon
<1>11. Networks'
    BY <1>1, <1>7, <1>8, Zenon DEF Inv, Networks
<1>12. FormerPeersDropped'
  <2> SUFFICES ASSUME NEW g \in Host, NEW p \in Host, p \notin DOMAIN peers[g], ~timer[g], g # h
               PROVE  tx'[g][p] = 0 /\ rx'[g][p] = 0 /\ \A k \in Kind, n \in Name : p \notin remote'[g][k][n]
      BY <1>7, <1>8, Zenon DEF FormerPeersDropped
  <2>1. tx[g][p] = 0 /\ rx[g][p] = 0 /\ \A k \in Kind, n \in Name : p \notin remote[g][k][n]
      BY Zenon DEF Inv, FormerPeersDropped
  <2>2. tx'[g][p] = 0 /\ rx'[g][p] = 0
      BY <1>4, <1>5, <2>1, Zenon
  <2>3. \A k \in Kind, n \in Name : p \notin remote'[g][k][n]
      BY <1>6, <2>1, ZenonT(60), Zenon
  <2> QED
      BY <2>2, <2>3, Zenon
<1>13. PeersPursued'
  <2> SUFFICES ASSUME NEW g \in Host, open[g], g # h, NEW p \in DOMAIN peers[g]
               PROVE  Authenticated(g, p)' \/ timer'[g]
      BY <1>1, <1>7, <1>8, Zenon DEF PeersPursued
  <2>1. Authenticated(g, p) \/ timer[g]
      BY Zenon DEF Inv, PeersPursued
  <2> QED
      BY <1>2, <1>4, <1>8, <2>1, OthersPursue, Zenon
<1> QED
    BY <1>9, <1>10, <1>11, <1>12, <1>13 DEF Inv

\* network_close and the end of the daemon.
LEMMA GoneKeeps ==
    ASSUME Inv, NEW h \in Host, NEW R, Host \subseteq R, conn' \in Table,
           Closes(h, R),
           tx' = Without(tx, h, R), rx' = Without(rx, h, R),
           remote' \in [Host -> [Kind -> [Name -> SUBSET Host]]],
           \A g, p \in Host, k \in Kind, n \in Name :
               p \in remote'[g][k][n] <=> p \in remote[g][k][n] /\ ~(g = h /\ p \in R),
           open' = [open EXCEPT ![h] = FALSE], peers' = [peers EXCEPT ![h] = NoPeers],
           timer' = [timer EXCEPT ![h] = FALSE],
           handles' \in [Host -> [Kind -> [Name -> SUBSET Client]]],
           known' \in [Host -> [Kind -> SUBSET Name]],
           notified' \in [Host -> SUBSET Name], faults' \in 0 .. MaxFaults
    PROVE  Inv'
<1>4. /\ tx' \in [Host -> [Host -> Slot \cup {0}]]
      /\ \A g, p \in Host : tx'[g][p] = IF g = h /\ p \in R THEN 0 ELSE tx[g][p]
      /\ \A g \in Host : g # h => tx'[g] = tx[g]
    BY EmptiedTx, SMTT(30) DEF Inv
<1>5. /\ rx' \in [Host -> [Host -> Slot \cup {0}]]
      /\ \A g, p \in Host : rx'[g][p] = IF g = h /\ p \in R THEN 0 ELSE rx[g][p]
    BY EmptiedRx DEF Inv
<1>7. /\ peers' \in [Host -> UNION {Peers(g) : g \in Host}]
      /\ \A g \in Host : peers'[g] = IF g = h THEN NoPeers ELSE peers[g]
      /\ NoPeers \in Peers(h) /\ DOMAIN NoPeers = {}
  <2> DEFINE U == UNION {Peers(g) : g \in Host}
  <2>1. peers \in [Host -> U]
      BY ZenonT(60), Zenon DEF Inv, TypeOK
  <2>2. NoPeers \in Peers(h) /\ DOMAIN NoPeers = {}
      BY NoReport, Zenon
  <2>3. NoPeers \in U
      BY <2>2, SMTT(30)
  <2> HIDE DEF U
  <2>4. peers' \in [Host -> U] /\ \A g \in Host : peers'[g] = IF g = h THEN NoPeers ELSE peers[g]
      BY <2>1, <2>3, Zenon
  <2> QED
      BY <2>2, <2>4, Zenon DEF U
<1>8. /\ timer' \in [Host -> BOOLEAN] /\ open' \in [Host -> BOOLEAN] /\ ~timer'[h] /\ ~open'[h]
      /\ \A g \in Host : g # h => timer'[g] = timer[g] /\ open'[g] = open[g]
    BY SMTT(30) DEF Inv, TypeOK
<1>9. TypeOK'
    BY <1>4, <1>5, <1>7, <1>8, Zenon DEF Inv, TypeOK, Table
<1>10. Channels' /\ RemoteMirrorsChannels'
    BY <1>5, ClosingStep, ZenonT(60), Zenon
<1>11. Networks'
    BY <1>7, <1>8, SMTT(30) DEF Inv, Networks
<1>12. FormerPeersDropped'
  <2> SUFFICES ASSUME NEW g \in Host, NEW p \in Host, g = h \/ (p \notin DOMAIN peers[g] /\ ~timer[g])
               PROVE  tx'[g][p] = 0 /\ rx'[g][p] = 0 /\ \A k \in Kind, n \in Name : p \notin remote'[g][k][n]
      BY <1>7, <1>8, SMTT(30) DEF FormerPeersDropped
  <2>1. CASE g = h
    <3>1. p \in R
        BY Zenon
    <3>2. tx'[g][p] = 0
        BY <1>4, <2>1, <3>1, Zenon
    <3>3. rx'[g][p] = 0
        BY <1>5, <2>1, <3>1, Zenon
    <3>4. \A k \in Kind, n \in Name : p \notin remote'[g][k][n]
        BY <2>1, <3>1, Zenon
    <3> QED
        BY <3>2, <3>3, <3>4, Zenon
  <2>2. CASE g # h
    <3>1. tx[g][p] = 0 /\ rx[g][p] = 0 /\ \A k \in Kind, n \in Name : p \notin remote[g][k][n]
        BY <2>2, Zenon DEF Inv, FormerPeersDropped
    <3>2. tx'[g][p] = 0
        BY <1>4, <2>2, <3>1, Zenon
    <3>3. rx'[g][p] = 0
        BY <1>5, <2>2, <3>1
    <3>4. \A k \in Kind, n \in Name : p \notin remote'[g][k][n]
        BY <3>1, ZenonT(60), Zenon
    <3> QED
        BY <3>2, <3>3, <3>4, SMTT(30)
  <2> QED
      BY <2>1, <2>2, Zenon
<1>13. PeersPursued'
  <2> SUFFICES ASSUME NEW g \in Host, open[g], g # h, NEW p \in DOMAIN peers[g]
               PROVE  Authenticated(g, p)' \/ timer'[g]
      BY <1>7, <1>8, SMTT(30) DEF PeersPursued
  <2>1. Authenticated(g, p) \/ timer[g]
      BY Zenon DEF Inv, PeersPursued
  <2>2. tx'[g] = tx[g] /\ timer'[g] = timer[g]
      BY <1>4, <1>8, Zenon
  <2>3. Authenticated(g, p) => Authenticated(g, p)'
      BY <2>2, OthersPursue, ZenonT(60), Zenon
  <2> QED
      BY <2>1, <2>2, <2>3, Zenon
<1> QED
    BY <1>9, <1>10, <1>11, <1>12, <1>13, Zenon DEF Inv

LEMMA CloseCloses ==
    ASSUME Inv, NEW h \in Host, NEW R, R = Host, network_close(h)
    PROVE  conn' \in Table /\ Closes(h, R)
<1> DEFINE F(a, b, s) == CASE a = h /\ tx[h][b] = s -> CloseTx(conn[a][b][s])
                           [] b = h /\ (rx[h][a] = s \/ conn[a][b][s].rx = "backlog") -> CloseRx(conn[a][b][s])
                           [] OTHER -> conn[a][b][s]
<1>1. conn' = [a \in Host |-> [b \in Host |-> [s \in Slot |-> F(a, b, s)]]]
    BY Zenon DEF network_close, CloseAll
<1>2. Host \subseteq R
    BY Zenon
<1>3. ASSUME NEW a \in Host, NEW b \in Host, NEW s \in Slot
      PROVE  F(a, b, s) \in Conn /\ Closing(h, R, a, b, s, conn[a][b][s], F(a, b, s))
  <2> DEFINE c == conn[a][b][s]
  <2>1. c \in Conn /\ Ends(a, b, s) /\ CloseTx(c) \in Conn /\ CloseRx(c) \in Conn
      BY Connection, CloseTxOf, CloseRxOf, Zenon
  <2>2. CASE a = b
    <3>1. c = NoConn /\ CloseTx(c) = NoConn /\ CloseRx(c) = NoConn
        BY <2>1, <2>2, CloseTxOf, CloseRxOf, Zenon DEF Ends
    <3>2. F(a, b, s) = c
        BY <3>1, Zenon
    <3> HIDE DEF F
    <3> QED
        BY <2>1, <3>1, <3>2, Zenon DEF Closing
  <2>3. CASE a # b
    <3>1. IF b = h /\ rx[h][a] = s THEN F(a, b, s) = CloseRx(c)
          ELSE \/ F(a, b, s) = c
               \/ a = h /\ F(a, b, s) = CloseTx(c)
               \/ b = h /\ c.rx # "auth" /\ F(a, b, s) = CloseRx(c)
        BY <2>1, <2>3, Zenon
    <3> HIDE DEF F
    <3> QED
        BY <1>2, <2>1, <3>1, Zenon DEF Closing
  <2> QED
      BY <2>2, <2>3, Zenon
<1> HIDE DEF F
<1> QED
    BY <1>1, <1>3, Zenon DEF Table, Closes

LEMMA CloseKeeps ==
    ASSUME Inv, NEW h \in Host, network_close(h), faults' \in 0 .. MaxFaults
    PROVE  Inv'
<1> DEFINE R == Host
<1>1. /\ tx' = Without(tx, h, R) /\ rx' = Without(rx, h, R)
      /\ remote' = network_rx_cleanup_state(h, Closed(h, R))
      /\ handle_publish(h, Lost(h, Closed(h, R)))
      /\ open' = [open EXCEPT ![h] = FALSE] /\ peers' = [peers EXCEPT ![h] = NoPeers]
      /\ timer' = [timer EXCEPT ![h] = FALSE] /\ UNCHANGED <<handles, known>>
    BY Zenon DEF network_close, CloseAll
<1>2. Host \subseteq R
    BY Zenon
<1>3. R = Host
    BY Zenon
<1> HIDE DEF R
<1>4. conn' \in Table /\ Closes(h, R)
    BY <1>3, CloseCloses, Zenon
<1>5. /\ remote' \in [Host -> [Kind -> [Name -> SUBSET Host]]]
      /\ \A g, p \in Host, k \in Kind, n \in Name :
             p \in remote'[g][k][n] <=> p \in remote[g][k][n] /\ ~(g = h /\ p \in R)
    BY <1>1, CleanedUpClosed, ZenonT(60), Zenon
<1>6. notified' \in [Host -> SUBSET Name]
    BY <1>1, Told, Zenon DEF Lost
<1>7. handles' \in [Host -> [Kind -> [Name -> SUBSET Client]]] /\ known' \in [Host -> [Kind -> SUBSET Name]]
    BY <1>1, Zenon DEF Inv, TypeOK
<1> QED
    BY <1>1, <1>2, <1>4, <1>5, <1>6, <1>7, GoneKeeps, Zenon

LEMMA RestartCloses ==
    ASSUME Inv, NEW h \in Host, NEW R, R = Host, Restart(h)
    PROVE  conn' \in Table /\ Closes(h, R)
<1> DEFINE F(a, b, s) == CASE a = h -> CloseTx(conn[a][b][s])
                           [] b = h -> CloseRx(conn[a][b][s])
                           [] OTHER -> conn[a][b][s]
<1>1. conn' = [a \in Host |-> [b \in Host |-> [s \in Slot |-> F(a, b, s)]]]
    BY Zenon DEF Restart
<1>2. Host \subseteq R
    OBVIOUS
<1>3. ASSUME NEW a \in Host, NEW b \in Host, NEW s \in Slot
      PROVE  F(a, b, s) \in Conn /\ Closing(h, R, a, b, s, conn[a][b][s], F(a, b, s))
  <2> DEFINE c == conn[a][b][s]
  <2>1. c \in Conn /\ Ends(a, b, s) /\ CloseTx(c) \in Conn /\ CloseRx(c) \in Conn
      BY Connection, CloseTxOf, CloseRxOf
  <2>2. CASE a = b
    <3>1. c = NoConn /\ CloseTx(c) = NoConn /\ CloseRx(c) = NoConn
        BY <2>1, <2>2, CloseTxOf, CloseRxOf DEF Ends
    <3>2. F(a, b, s) = c
        BY <3>1, Zenon
    <3> HIDE DEF F
    <3> QED
        BY <2>1, <3>1, <3>2 DEF Closing
  <2>3. CASE a # b
    <3>1. IF b = h /\ rx[h][a] = s THEN F(a, b, s) = CloseRx(c)
          ELSE \/ F(a, b, s) = c
               \/ a = h /\ F(a, b, s) = CloseTx(c)
               \/ b = h /\ c.rx # "auth" /\ F(a, b, s) = CloseRx(c)
        BY <2>1, <2>3 DEF Ends
    <3> HIDE DEF F
    <3> QED
        BY <1>2, <2>1, <3>1 DEF Closing
  <2> QED
      BY <2>2, <2>3, Zenon
<1> HIDE DEF F
<1> QED
    BY <1>1, <1>3 DEF Table, Closes

LEMMA RestartKeeps ==
    ASSUME Inv, NEW h \in Host, Restart(h), faults' \in 0 .. MaxFaults
    PROVE  Inv'
<1> DEFINE R == Host
<1>1. /\ tx' = Without(tx, h, R) /\ rx' = Without(rx, h, R)
      /\ remote' = [remote EXCEPT ![h] = [k \in Kind |-> [n \in Name |-> {}]]]
      /\ handles' = [handles EXCEPT ![h] = [k \in Kind |-> [n \in Name |-> {}]]]
      /\ known' = [known EXCEPT ![h] = NoList]
      /\ handle_publish(h, {})
      /\ open' = [open EXCEPT ![h] = FALSE] /\ peers' = [peers EXCEPT ![h] = NoPeers]
      /\ timer' = [timer EXCEPT ![h] = FALSE]
    BY Zenon DEF Restart
<1>2. Host \subseteq R
    OBVIOUS
<1>3. R = Host
    OBVIOUS
<1> HIDE DEF R
<1>4. conn' \in Table /\ Closes(h, R)
    BY <1>3, RestartCloses
<1>5. /\ remote' \in [Host -> [Kind -> [Name -> SUBSET Host]]]
      /\ \A g, p \in Host, k \in Kind, n \in Name :
             p \in remote'[g][k][n] <=> p \in remote[g][k][n] /\ ~(g = h /\ p \in R)
  <2>1. remote \in [Host -> [Kind -> [Name -> SUBSET Host]]]
      BY Zenon DEF Inv, TypeOK
  <2> QED
      BY <1>1, <1>2, <2>1, Zenon
<1>6. notified' \in [Host -> SUBSET Name]
    BY <1>1, Told, Zenon
<1>7. handles' \in [Host -> [Kind -> [Name -> SUBSET Client]]] /\ known' \in [Host -> [Kind -> SUBSET Name]]
    BY <1>1, Zenon DEF Inv, TypeOK, NoList
<1> QED
    BY <1>1, <1>2, <1>4, <1>5, <1>6, <1>7, GoneKeeps, Zenon

LEMMA ConnectKeeps ==
    ASSUME Inv, NEW h \in Host, NEW fails, network_connect_peers(h, fails), faults' \in 0 .. MaxFaults
    PROVE  Inv'
<1> DEFINE pending == {p \in DOMAIN peers[h] : ~Authenticated(h, p)}
           others == Host \ DOMAIN peers[h]
           T == pending \cup others
           closed == CloseChannels(h, T, others)
           Free(p) == {s \in Slot : closed[h][p][s] = NoConn}
           new == [p \in pending |-> IF p \in fails THEN 0 ELSE CHOOSE s \in Free(p) : TRUE]
           F(p, s) == IF p \in pending /\ s = new[p] THEN Fresh ELSE closed[h][p][s]
<1>1. /\ \A p \in pending \ fails : Free(p) # {}
      /\ conn' = [closed EXCEPT ![h] = [p \in Host |-> [s \in Slot |-> F(p, s)]]]
      /\ tx' = [tx EXCEPT ![h] = [p \in Host |-> CASE p \in pending -> new[p] [] p \in others -> 0 [] OTHER -> tx[h][p]]]
      /\ rx' = Without(rx, h, others)
      /\ remote' = network_rx_cleanup_state(h, Closed(h, others))
      /\ handle_publish(h, Lost(h, Closed(h, others)))
      /\ timer' = [timer EXCEPT ![h] = pending # {}] /\ timer[h]
      /\ UNCHANGED <<handles, known, open, peers>>
    BY ZenonT(60), Zenon DEF network_connect_peers, Fresh
<1>2. /\ DOMAIN peers[h] \subseteq Host \ {h} /\ pending \subseteq DOMAIN peers[h]
      /\ \A p \in DOMAIN peers[h] : p \in pending <=> ~Authenticated(h, p)
      /\ \A p \in Host : p \in others <=> p \notin DOMAIN peers[h]
      /\ 0 \notin Slot
    BY ReportOf, SlotAssumption, Zenon DEF Inv, Networks
<1>3. ASSUME NEW p \in pending
      PROVE  /\ new[p] \in Slot \cup {0}
             /\ \A s \in Slot : s = new[p] => closed[h][p][s] = NoConn
  <2>1. CASE p \in fails
      BY <1>2, <2>1, Zenon
  <2>2. CASE p \notin fails
    <3>1. new[p] = CHOOSE s \in Free(p) : TRUE
        BY <2>2, Zenon
    <3>2. \E s \in Free(p) : TRUE
        BY <1>1, <2>2, Zenon
    <3>3. new[p] \in Free(p)
      <4> HIDE DEF Free, new
      <4> QED
          BY <3>1, <3>2, Zenon
    <3> HIDE DEF new
    <3> QED
        BY <3>3, Zenon
  <2> QED
      BY <2>1, <2>2, ZenonT(60), Zenon
<1>4. closed \in Table
  <2>1. TypeOK /\ Channels
      BY Zenon DEF Inv
  <2> HIDE DEF T, others
  <2> QED
      BY <2>1, ClosedChannels, Zenon
<1>5. \A a, b \in Host, s \in Slot :
          closed[a][b][s] = IF a = h /\ b \in T /\ tx[h][b] = s THEN CloseTx(conn[a][b][s])
                            ELSE IF b = h /\ a \in others /\ rx[h][a] = s THEN CloseRx(conn[a][b][s])
                            ELSE conn[a][b][s]
  <2>1. TypeOK /\ Channels
      BY DEF Inv
  <2> HIDE DEF T, others
  <2> QED
      BY <2>1, ClosedChannels, SMTT(30)
<1>6. \A a, b \in Host, s \in Slot : Closing(h, others, a, b, s, conn[a][b][s], closed[a][b][s])
  <2> HIDE DEF T, others
  <2> QED
      BY ClosedIsClosing, Zenon
<1>7. \A p \in Host : p \in T <=> p \in pending \/ p \in others
    BY Zenon
<1> HIDE DEF pending, others, T, closed, Free, new
<1>8. /\ conn' \in Table
      /\ \A a, b \in Host, s \in Slot : conn'[a][b][s] = IF a = h THEN F(b, s) ELSE closed[a][b][s]
  <2>1. \A p \in Host, s \in Slot : F(p, s) \in Conn
      BY <1>4, FreshIsConn, SMTT(30) DEF Table
  <2> HIDE DEF F
  <2> QED
      BY <1>1, <1>4, <2>1, Zenon DEF Table
<1>9. Closes(h, others)
  <2> SUFFICES ASSUME NEW a \in Host, NEW b \in Host, NEW s \in Slot
               PROVE  Closing(h, others, a, b, s, conn[a][b][s], conn'[a][b][s])
      BY Zenon DEF Closes
  <2>1. CASE conn'[a][b][s] = closed[a][b][s]
      BY <1>6, <2>1, Zenon
  <2>2. CASE a = h /\ b \in pending /\ s = new[b] /\ conn'[a][b][s] = Fresh
    <3> DEFINE c == conn[a][b][s]
    <3>1. c \in Conn /\ a # b
        BY <1>2, <2>2, Connection, Zenon
    <3>2. closed[a][b][s] = NoConn
        BY <1>3, <2>2, Zenon
    <3>3. closed[a][b][s] = CloseTx(c) \/ closed[a][b][s] = c
        BY <1>5, <2>2, <3>1, SMTT(30)
    <3>4. c.rx = "closed"
        BY <3>1, <3>2, <3>3, CloseTxOf, NoConnIsConn, SMTT(30)
    <3> QED
        BY <2>2, <3>1, <3>4, Zenon DEF Closing
  <2> QED
      BY <1>8, <2>1, <2>2, SMTT(30)
<1>10. /\ tx' \in [Host -> [Host -> Slot \cup {0}]]
       /\ \A g \in Host : g # h => tx'[g] = tx[g]
       /\ \A p \in Host : p \in others => tx'[h][p] = 0
       /\ \A p \in DOMAIN peers[h] : p \notin pending => tx'[h][p] = tx[h][p]
  <2> DEFINE G(p) == CASE p \in pending -> new[p] [] p \in others -> 0 [] OTHER -> tx[h][p]
  <2>1. tx \in [Host -> [Host -> Slot \cup {0}]] /\ tx' = [tx EXCEPT ![h] = [p \in Host |-> G(p)]]
      BY <1>1, Zenon DEF Inv, TypeOK
  <2>2. \A p \in Host : /\ G(p) \in Slot \cup {0} /\ (p \in others => G(p) = 0)
                        /\ p \notin pending /\ p \notin others => G(p) = tx[h][p]
      BY <1>2, <1>3, <2>1, Zenon
  <2> HIDE DEF G
  <2> QED
      BY <1>2, <2>1, <2>2, Zenon
<1>11. /\ rx' \in [Host -> [Host -> Slot \cup {0}]]
       /\ \A g, p \in Host : rx'[g][p] = IF g = h /\ p \in others THEN 0 ELSE rx[g][p]
    BY <1>1, EmptiedRx DEF Inv
<1>12. /\ remote' \in [Host -> [Kind -> [Name -> SUBSET Host]]]
       /\ \A g, p \in Host, k \in Kind, n \in Name :
             p \in remote'[g][k][n] <=> p \in remote[g][k][n] /\ ~(g = h /\ p \in others)
    BY <1>1, CleanedUpClosed, Zenon
<1>13. /\ timer' \in [Host -> BOOLEAN] /\ (pending # {} => timer'[h])
       /\ \A g \in Host : g # h => timer'[g] = timer[g]
    BY <1>1, Zenon DEF Inv, TypeOK
<1>14. TypeOK'
  <2>1. notified' \in [Host -> SUBSET Name]
      BY <1>1, Told, Zenon DEF Lost
  <2> QED
      BY <1>1, <1>8, <1>10, <1>11, <1>12, <1>13, <2>1, Zenon DEF Inv, TypeOK, Table
<1>15. Channels' /\ RemoteMirrorsChannels'
    BY <1>9, <1>11, <1>12, ClosingStep, Zenon
<1>16. Networks'
    BY <1>1, <1>13, Zenon DEF Inv, Networks
<1>17. FormerPeersDropped'
  <2> SUFFICES ASSUME NEW g \in Host, NEW p \in Host, p \notin DOMAIN peers[g], g = h \/ ~timer[g]
               PROVE  tx'[g][p] = 0 /\ rx'[g][p] = 0 /\ \A k \in Kind, n \in Name : p \notin remote'[g][k][n]
      BY <1>1, <1>13, SMTT(30) DEF FormerPeersDropped
  <2>1. CASE g = h
      BY <1>2, <1>10, <1>11, <1>12, <2>1, Zenon
  <2>2. CASE g # h
    <3>1. tx[g][p] = 0 /\ rx[g][p] = 0 /\ \A k \in Kind, n \in Name : p \notin remote[g][k][n]
        BY <2>2, Zenon DEF Inv, FormerPeersDropped
    <3>2. tx'[g][p] = 0 /\ rx'[g][p] = 0
        BY <1>10, <1>11, <2>2, <3>1, Zenon
    <3>3. \A k \in Kind, n \in Name : p \notin remote'[g][k][n]
        BY <1>12, <3>1, ZenonT(60), Zenon
    <3> QED
        BY <3>2, <3>3, Zenon
  <2> QED
      BY <2>1, <2>2, Zenon
<1>18. PeersPursued'
  <2> SUFFICES ASSUME NEW g \in Host, open[g], NEW p \in DOMAIN peers[g]
               PROVE  Authenticated(g, p)' \/ timer'[g]
      BY <1>1, Zenon DEF PeersPursued
  <2>1. CASE g # h
    <3>1. Authenticated(g, p) \/ timer[g]
        BY Zenon DEF Inv, PeersPursued
    <3>2. tx'[g] = tx[g] /\ timer'[g] = timer[g]
        BY <1>10, <1>13, <2>1, Zenon
    <3>3. Authenticated(g, p) => Authenticated(g, p)'
        BY <1>9, <2>1, <3>2, OthersPursue, Zenon
    <3> QED
        BY <3>1, <3>2, <3>3, Zenon
  <2>2. CASE g = h /\ p \notin pending
    <3>1. p \in Host /\ p # h /\ Authenticated(h, p) /\ p \notin T
        BY <1>2, <1>7, <2>2, Zenon
    <3>2. tx[h][p] \in Slot /\ conn[h][p][tx[h][p]].tx = "auth"
        BY <3>1, SMTT(30) DEF Authenticated, Inv, TypeOK
    <3>3. conn'[h][p][tx[h][p]] = conn[h][p][tx[h][p]]
      <4> DEFINE s == tx[h][p]
      <4>1. s \in Slot
          BY <3>2, Zenon
      <4> HIDE DEF s
      <4>2. closed[h][p][s] = conn[h][p][s]
          BY <1>5, <3>1, <4>1, SMTT(30)
      <4>3. conn'[h][p][s] = closed[h][p][s]
          BY <1>8, <2>2, <3>1, <4>1, SMTT(30)
      <4> QED
          BY <4>2, <4>3, Zenon DEF s
    <3>4. tx'[h][p] = tx[h][p]
        BY <1>2, <1>10, <2>2, <3>1, Zenon
    <3>5. tx[h][p] # 0
        BY <3>1, Zenon DEF Authenticated
    <3> QED
        BY <2>2, <3>2, <3>3, <3>4, <3>5, Zenon DEF Authenticated
  <2>3. CASE g = h /\ p \in pending
      BY <1>13, <2>3, Zenon
  <2> QED
      BY <2>1, <2>2, <2>3, Zenon
<1> QED
    BY <1>14, <1>15, <1>16, <1>17, <1>18, Zenon DEF Inv

(***************************************************************************)
(* The invariant holds of every behaviour.                                 *)
(***************************************************************************)

LEMMA StepKeeps ==
    ASSUME Inv, NEW h \in Host, Step(h), UNCHANGED faults
    PROVE  Inv'
<1>1. faults' \in 0 .. MaxFaults
    BY Zenon DEF Inv, TypeOK
<1>2. CASE ClientStep(h)
    BY <1>1, <1>2, ClientPubsubKeeps, ClientDisconnectKeeps, Zenon DEF ClientStep
<1>3. CASE \E P \in Peers(h) : network_open(h, P)
    BY <1>1, <1>3, OpenKeeps, Zenon
<1>4. CASE network_connect_peers(h, {})
    BY <1>1, <1>4, ConnectKeeps, Zenon
<1>5. ASSUME NEW p \in Host, NEW s \in Slot, Handshake(h, p, s)
      PROVE  Inv'
  <2>1. TRUE \in BOOLEAN
      BY Zenon
  <2> QED
      BY <1>1, <1>5, <2>1, AcceptKeeps, RecvHelloKeeps, CheckAuthKeeps, AuthDataKeeps,
         TxDisconnectKeeps, RxDisconnectKeeps, Zenon DEF Handshake
<1>6. ASSUME NEW p \in Host, NEW s \in Slot, Announcement(h, p, s)
      PROVE  Inv'
    BY <1>1, <1>6, HandleRequestKeeps, Zenon DEF Announcement
<1> QED
    BY <1>2, <1>3, <1>4, <1>5, <1>6, Zenon DEF Step

LEMMA FaultKeeps ==
    ASSUME Inv, NEW h \in Host, Fault(h), faults < MaxFaults, faults' = faults + 1
    PROVE  Inv'
<1>1. faults' \in 0 .. MaxFaults
    BY BoundsAssumption DEF Inv, TypeOK
<1>2. CASE \E P \in Peers(h) : network_update(h, P)
    BY <1>1, <1>2, UpdateKeeps, Zenon
<1>3. CASE network_close(h)
    BY <1>1, <1>3, CloseKeeps, Zenon
<1>4. CASE Restart(h)
    BY <1>1, <1>4, RestartKeeps
<1>5. CASE \E p \in Host : network_connect_peers(h, {p})
    BY <1>1, <1>5, ConnectKeeps, Zenon
<1>6. ASSUME NEW p \in Host, NEW s \in Slot, Failure(h, p, s)
      PROVE  Inv'
  <2>1. TRUE \in BOOLEAN /\ FALSE \in BOOLEAN
      BY Zenon
  <2> QED
      BY <1>1, <1>6, <2>1, RecvHelloKeeps, CheckAuthKeeps, AuthFailsKeeps, AcceptTimeoutKeeps,
         TxDisconnectKeeps, RxDisconnectKeeps, ZenonT(60), Zenon DEF Failure
<1> QED
    BY <1>2, <1>3, <1>4, <1>5, <1>6, Zenon DEF Fault

LEMMA InvNext == Inv /\ [Next]_vars => Inv'
<1>1. ASSUME Inv, Next
      PROVE  Inv'
    BY <1>1, StepKeeps, FaultKeeps, Zenon DEF Next
<1>2. ASSUME Inv, UNCHANGED vars
      PROVE  Inv'
  <2>1. /\ conn' = conn /\ tx' = tx /\ rx' = rx /\ remote' = remote /\ handles' = handles /\ known' = known
        /\ open' = open /\ peers' = peers /\ timer' = timer /\ notified' = notified /\ faults' = faults
      BY <1>2, Zenon DEF vars
  <2>2. TypeOK'
      BY <1>2, <2>1, Zenon DEF Inv, TypeOK
  <2>3. Channels'
      BY <1>2, <2>1, ChannelsSame, Zenon DEF Inv
  <2>4. Networks'
      BY <1>2, <2>1, Zenon DEF Inv, Networks
  <2>5. RemoteMirrorsChannels'
      BY <1>2, <2>1, Zenon DEF Inv, RemoteMirrorsChannels
  <2>6. FormerPeersDropped'
      BY <1>2, <2>1, Zenon DEF Inv, FormerPeersDropped
  <2>7. PeersPursued'
      BY <1>2, <2>1, Zenon DEF Inv, PeersPursued, Authenticated
  <2> QED
      BY <2>2, <2>3, <2>4, <2>5, <2>6, <2>7, Zenon DEF Inv
<1> QED
    BY <1>1, <1>2, Zenon

LEMMA Always == Spec => []Inv
    BY InvInit, InvNext, PTL DEF Spec

\* Whatever the callbacks of the daemons do, and in whichever order, the tables
\* of networks[] and core keep their types.
THEOREM TypeCorrect == Spec => []TypeOK
<1>1. Inv => TypeOK
    BY Zenon DEF Inv
<1> QED
    BY <1>1, Always, PTL

\* core.remote_publish and core.remote_subscribe hold exactly what the current
\* incoming connections have announced, however many connections of a peer
\* replace each other, fail or are closed by either end.
THEOREM MirrorsChannels == Spec => []RemoteMirrorsChannels
<1>1. Inv => RemoteMirrorsChannels
    BY Zenon DEF Inv
<1> QED
    BY <1>1, Always, PTL

\* A host that unetd no longer reports has neither connections nor
\* registrations left once the timer of network_connect_peers has run.
THEOREM FormerDropped == Spec => []FormerPeersDropped
<1>1. Inv => FormerPeersDropped
    BY Zenon DEF Inv
<1> QED
    BY <1>1, Always, PTL

\* No sequence of failed handshakes, timeouts, lost connections, reports and
\* restarts leaves a peer without a connection and without the timer that
\* opens one.
THEOREM Pursued == Spec => []PeersPursued
<1>1. Inv => PeersPursued
    BY Zenon DEF Inv
<1> QED
    BY <1>1, Always, PTL
=============================================================================
