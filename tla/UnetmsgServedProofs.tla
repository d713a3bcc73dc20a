------------------------ MODULE UnetmsgServedProofs -------------------------
(***************************************************************************)
(* Further proofs about UnetmsgPeers: who is told of a publisher that      *)
(* comes into reach, and what holds where every report of unetd has a      *)
(* unetmsg service.  Most steps neither authenticate a connection nor add  *)
(* to what is announced over one; they are treated together.               *)
(***************************************************************************)
EXTENDS UnetmsgPeersProofs

-----------------------------------------------------------------------------
(* Steps that only take away *)

\* An authenticated connection was one before, and either its accepting end is
\* closed now or nothing was announced over it.
Kept(c, d) ==
    d.tx = "auth" =>
        /\ c.tx = "auth"
        /\ d.rx = "closed" \/ (c.rx # "closed" /\ d.list = c.list /\ d.sent = c.sent)

Quiet ==
    /\ \A a, b \in Host, s \in Slot : Kept(conn[a][b][s], conn'[a][b][s])
    /\ \A a, b \in Host : \/ tx'[a][b] = 0 \/ tx'[a][b] = tx[a][b]
                          \/ tx'[a][b] \in Slot /\ conn'[a][b][tx'[a][b]].tx # "auth"
    /\ \A h, p \in Host, k \in Kind, n \in Name : p \in remote'[h][k][n] => p \in remote[h][k][n]

LEMMA KeptOf ==
    ASSUME NEW c \in Conn
    PROVE  /\ Kept(c, c) /\ Kept(c, CloseTx(c)) /\ Kept(c, CloseRx(c))
           /\ \A d : d.tx # "auth" => Kept(c, d)
           /\ \A d : c.rx # "closed" /\ d.tx = c.tx /\ d.list = c.list /\ d.sent = c.sent => Kept(c, d)
<1>1. Kept(c, c)
    BY Zenon DEF Kept
<1>2. Kept(c, CloseTx(c))
    BY CloseTxOf, Zenon DEF Kept
<1>3. Kept(c, CloseRx(c))
    BY CloseRxOf, Zenon DEF Kept
<1> QED
    BY <1>1, <1>2, <1>3, Zenon DEF Kept

LEMMA KeptOne ==
    ASSUME Inv, NEW a \in Host, NEW b \in Host, NEW s \in Slot, NEW d,
           conn' = [conn EXCEPT ![a][b][s] = d], Kept(conn[a][b][s], d)
    PROVE  \A x, y \in Host, z \in Slot : Kept(conn[x][y][z], conn'[x][y][z])
<1> SUFFICES ASSUME NEW x \in Host, NEW y \in Host, NEW z \in Slot
             PROVE  Kept(conn[x][y][z], conn'[x][y][z])
    BY Zenon
<1>1. conn \in Table
    BY Zenon DEF Inv, TypeOK, Table
<1>2. conn'[x][y][z] = IF x = a /\ y = b /\ z = s THEN d ELSE conn[x][y][z]
    BY <1>1, Zenon DEF Table
<1>3. Kept(conn[x][y][z], conn[x][y][z])
    BY KeptOf, Connection, Zenon
<1> QED
    BY <1>2, <1>3, Zenon

LEMMA KeptClosing ==
    ASSUME Inv, NEW h \in Host, NEW R, NEW a \in Host, NEW b \in Host, NEW s \in Slot, NEW d,
           Closing(h, R, a, b, s, conn[a][b][s], d)
    PROVE  Kept(conn[a][b][s], d)
<1> DEFINE c == conn[a][b][s]
<1>1. d = c \/ d = CloseTx(c) \/ d = CloseRx(c) \/ d = Fresh
    BY Zenon DEF Closing
<1>2. c \in Conn
    BY Connection, Zenon
<1>3. Fresh.tx # "auth"
    BY FreshIsConn, Zenon
<1> HIDE DEF c
<1>4. Kept(c, d)
    BY <1>1, <1>2, <1>3, KeptOf, Zenon
<1> QED
    BY <1>4, Zenon DEF c

-----------------------------------------------------------------------------
(* Which steps these are *)

LEMMA TxCloseQuiet ==
    ASSUME Inv, NEW h \in Host, NEW p \in Host, NEW s \in Slot,
           network_tx_socket_close(h, p, s), remote' = remote
    PROVE  Quiet
<1> DEFINE d == CloseTx(conn[h][p][s])
<1>1. conn' = [conn EXCEPT ![h][p][s] = d] /\ tx' = [tx EXCEPT ![h][p] = IF @ = s THEN 0 ELSE @]
    BY Zenon DEF network_tx_socket_close
<1>2. Kept(conn[h][p][s], d)
    BY KeptOf, Connection, Zenon
<1>3. \A a, b \in Host : tx'[a][b] = 0 \/ tx'[a][b] = tx[a][b]
    BY <1>1, Zenon DEF Inv, TypeOK
<1> HIDE DEF d
<1>4. \A x, y \in Host, z \in Slot : Kept(conn[x][y][z], conn'[x][y][z])
    BY <1>1, <1>2, KeptOne, Zenon
<1> QED
    BY <1>3, <1>4, Zenon DEF Quiet

LEMMA RxQuiet ==
    ASSUME Inv, NEW h \in Host, NEW p \in Host, NEW s \in Slot, NEW d,
           conn' = [conn EXCEPT ![p][h][s] = d], Kept(conn[p][h][s], d), tx' = tx,
           \A g, q \in Host, k \in Kind, n \in Name : q \in remote'[g][k][n] => q \in remote[g][k][n]
    PROVE  Quiet
BY KeptOne, Zenon DEF Quiet

LEMMA RecvHelloQuiet ==
    ASSUME Inv, NEW h \in Host, NEW p \in Host, NEW s \in Slot, NEW ok \in BOOLEAN, RecvHello(h, p, s, ok)
    PROVE  Quiet
<1> DEFINE c == conn[h][p][s]
           d == [c EXCEPT !.tx = "waiting", !.msg = IF conn[h][p][s].rx = "closed" THEN "none" ELSE "auth"]
<1>1. remote' = remote
    BY Zenon DEF RecvHello
<1>2. CASE ok
  <2>1. conn' = [conn EXCEPT ![h][p][s] = d] /\ tx' = tx
      BY <1>2, Zenon DEF RecvHello
  <2>2. c \in Conn
      BY Connection, Zenon
  <2>3. d.tx = "waiting"
      BY <2>2, Zenon DEF Conn
  <2>4. Kept(c, d)
      BY <2>3, Zenon DEF Kept
  <2> HIDE DEF d
  <2> QED
      BY <1>1, <2>1, <2>4, KeptOne, Zenon DEF Quiet
<1>3. CASE ~ok
    BY <1>1, <1>3, TxCloseQuiet, Zenon DEF RecvHello
<1> QED
    BY <1>2, <1>3, Zenon

LEMMA AcceptQuiet ==
    ASSUME Inv, NEW h \in Host, NEW p \in Host, NEW s \in Slot, network_accept(h, p, s)
    PROVE  Quiet
<1> DEFINE c == conn[p][h][s]
           b == [c EXCEPT !.rx = "open", !.msg = IF conn[p][h][s].tx = "closed" THEN "none" ELSE "hello"]
           d == IF open[h] /\ p \in DOMAIN peers[h] THEN b ELSE CloseRx(c)
<1>1. remote' = remote /\ tx' = tx /\ c.rx = "backlog" /\ c \in Conn
    BY Connection, Zenon DEF network_accept
<1>2. conn' = [conn EXCEPT ![p][h][s] = d]
    BY Zenon DEF network_accept
<1>3. b.tx = c.tx /\ b.list = c.list /\ b.sent = c.sent
    BY <1>1, Zenon DEF Conn
<1> HIDE DEF b
<1>4. Kept(c, b) /\ Kept(c, CloseRx(c))
    BY <1>1, <1>3, KeptOf, Zenon
<1>5. Kept(c, d)
    BY <1>4, Zenon
<1> HIDE DEF d
<1> QED
    BY <1>1, <1>2, <1>5, RxQuiet, Zenon

LEMMA RxDisconnectQuiet ==
    ASSUME Inv, NEW h \in Host, NEW p \in Host, NEW s \in Slot,
           AcceptTimeout(h, p, s) \/ RxDisconnect(h, p, s)
    PROVE  Quiet
<1> DEFINE d == CloseRx(conn[p][h][s])
           R == {p}
<1>1. conn' = [conn EXCEPT ![p][h][s] = d] /\ tx' = tx
    BY Zenon DEF AcceptTimeout, RxDisconnect
<1>2. Kept(conn[p][h][s], d)
    BY KeptOf, Connection, Zenon
<1>3. remote' = remote \/ remote' = network_rx_cleanup_state(h, R)
    BY Zenon DEF AcceptTimeout, RxDisconnect
<1> HIDE DEF d, R
<1>4. \A g, q \in Host, k \in Kind, n \in Name : q \in remote'[g][k][n] => q \in remote[g][k][n]
    BY <1>3, CleanedUp DEF Inv
<1> QED
    BY <1>1, <1>2, <1>4, RxQuiet, Zenon

LEMMA CheckAuthQuiet ==
    ASSUME Inv, NEW h \in Host, NEW p \in Host, NEW s \in Slot, NEW ok \in BOOLEAN, NEW reply \in BOOLEAN,
           network_check_auth(h, p, s, ok, reply)
    PROVE  Quiet
<1> DEFINE c == conn[p][h][s]
           T == {}
           R == {p}
           old == CloseChannels(h, T, R)
           d == [c EXCEPT !.rx = "auth",
                          !.msg = IF reply /\ conn[p][h][s].tx # "closed" THEN "token" ELSE "none"]
<1>1. tx' = tx /\ c.rx = "open" /\ c \in Conn /\ Ends(p, h, s)
    BY Connection, Zenon DEF network_check_auth
<1>2. CASE ~(ok /\ open[h] /\ p \in DOMAIN peers[h])
  <2> DEFINE e == CloseRx(c)
  <2>1. conn' = [conn EXCEPT ![p][h][s] = e] /\ remote' = remote
      BY <1>2, Zenon DEF network_check_auth
  <2>2. Kept(c, e)
      BY <1>1, KeptOf, Zenon
  <2> HIDE DEF e
  <2> QED
      BY <1>1, <2>1, <2>2, RxQuiet, Zenon
<1>3. CASE ok /\ open[h] /\ p \in DOMAIN peers[h]
  <2>1. /\ conn' = [old EXCEPT ![p][h][s] =
                       [@ EXCEPT !.rx = "auth",
                                 !.msg = IF reply /\ conn[p][h][s].tx # "closed" THEN "token" ELSE "none"]]
        /\ remote' = network_rx_cleanup_state(h, R)
      BY <1>3, Zenon DEF network_check_auth
  <2>2. d.tx = c.tx /\ d.list = c.list /\ d.sent = c.sent
      BY <1>1, Zenon DEF Conn
  <2>3. \A x : x \notin T /\ (x \in R <=> x = p)
      BY Zenon
  <2>4. rx[h][p] # s
      BY <1>1, Zenon DEF Ends
  <2> HIDE DEF T, R
  <2>5. old \in Table /\ old[p][h][s] = c
    <3>1. TypeOK /\ Channels
        BY Zenon DEF Inv
    <3> QED
        BY <2>3, <2>4, <3>1, ClosedChannels
  <2>6. conn' = [old EXCEPT ![p][h][s] = d]
      BY <2>1, <2>5, Zenon
  <2>7. Kept(c, d)
    <3> HIDE DEF d
    <3> QED
        BY <1>1, <2>2, KeptOf, Zenon
  <2>8. \A g, q \in Host, k \in Kind, n \in Name : q \in remote'[g][k][n] => q \in remote[g][k][n]
      BY <2>1, CleanedUp, Zenon DEF Inv
  <2>9. \A x, y \in Host, z \in Slot : Kept(conn[x][y][z], old[x][y][z])
      BY ClosedIsClosing, KeptClosing, Zenon
  <2> HIDE DEF old, d
  <2>10. \A x, y \in Host, z \in Slot : conn'[x][y][z] = IF x = p /\ y = h /\ z = s THEN d ELSE old[x][y][z]
      BY <2>5, <2>6 DEF Table
  <2>11. \A x, y \in Host, z \in Slot : Kept(conn[x][y][z], conn'[x][y][z])
    <3> SUFFICES ASSUME NEW x \in Host, NEW y \in Host, NEW z \in Slot
                 PROVE  Kept(conn[x][y][z], conn'[x][y][z])
        BY Zenon
    <3>1. CASE x = p /\ y = h /\ z = s
      <4>1. conn'[x][y][z] = d /\ conn[x][y][z] = c
          BY <2>10, <3>1, Zenon
      <4> QED
          BY <2>7, <4>1, Zenon
    <3>2. CASE ~(x = p /\ y = h /\ z = s)
      <4>1. conn'[x][y][z] = old[x][y][z]
          BY <2>10, <3>2, Zenon
      <4> QED
          BY <2>9, <4>1, Zenon
    <3> QED
        BY <3>1, <3>2, Zenon
  <2> QED
      BY <1>1, <2>8, <2>11, Zenon DEF Quiet
<1> QED
    BY <1>2, <1>3, Zenon

LEMMA OpenQuiet ==
    ASSUME Inv, NEW h \in Host, NEW P, network_open(h, P)
    PROVE  Quiet
<1>1. conn' = conn /\ tx' = tx /\ remote' = remote
    BY Zenon DEF network_open
<1>2. \A a, b \in Host, s \in Slot : Kept(conn[a][b][s], conn[a][b][s])
    BY KeptOf, Connection, Zenon
<1> QED
    BY <1>1, <1>2, Zenon DEF Quiet

\* Whole networks: h closes the ends of its connections from the hosts R.
LEMMA ClosesQuiet ==
    ASSUME Inv, NEW h \in Host, NEW R, Closes(h, R), tx' = Without(tx, h, R),
           \A g, q \in Host, k \in Kind, n \in Name : q \in remote'[g][k][n] => q \in remote[g][k][n]
    PROVE  Quiet
<1>1. \A a, b \in Host, s \in Slot : Kept(conn[a][b][s], conn'[a][b][s])
    BY KeptClosing, Zenon DEF Closes
<1>2. \A a, b \in Host : tx'[a][b] = 0 \/ tx'[a][b] = tx[a][b]
    BY EmptiedTx DEF Inv
<1> QED
    BY <1>1, <1>2, Zenon DEF Quiet

LEMMA UpdateQuiet ==
    ASSUME Inv, NEW h \in Host, NEW P, network_update(h, P)
    PROVE  Quiet
<1> DEFINE R == {p \in DOMAIN peers[h] : IF p \in DOMAIN P THEN P[p] # peers[h][p] ELSE peers[h][p].limited}
<1>1. conn' = CloseChannels(h, R, R) /\ tx' = Without(tx, h, R)
      /\ remote' = network_rx_cleanup_state(h, Closed(h, R))
    BY Zenon DEF network_update
<1> HIDE DEF R
<1>2. Closes(h, R)
    BY <1>1, ClosedIsClosing, Zenon DEF Closes
<1>3. \A g, q \in Host, k \in Kind, n \in Name : q \in remote'[g][k][n] => q \in remote[g][k][n]
    BY <1>1, CleanedUpClosed
<1> QED
    BY <1>1, <1>2, <1>3, ClosesQuiet, Zenon

LEMMA GoneQuiet ==
    ASSUME Inv, NEW h \in Host, network_close(h) \/ Restart(h)
    PROVE  Quiet
<1> DEFINE R == Host
<1>1. tx' = Without(tx, h, R)
    BY Zenon DEF network_close, CloseAll, Restart
<1>2. network_close(h) => remote' = network_rx_cleanup_state(h, Closed(h, R))
    BY Zenon DEF network_close, CloseAll
<1>3. R = Host
    BY Zenon
<1> HIDE DEF R
<1>4. Closes(h, R)
    BY <1>3, CloseCloses, RestartCloses, Zenon
<1>5. network_close(h) => \A g, q \in Host, k \in Kind, n \in Name : q \in remote'[g][k][n] => q \in remote[g][k][n]
    BY <1>2, CleanedUpClosed
<1>6. Restart(h) => \A g, q \in Host, k \in Kind, n \in Name : q \in remote'[g][k][n] => q \in remote[g][k][n]
    BY DEF Restart, Inv, TypeOK
<1> QED
    BY <1>1, <1>4, <1>5, <1>6, ClosesQuiet, Zenon

LEMMA ConnectQuiet ==
    ASSUME Inv, Inv', NEW h \in Host, NEW fails, network_connect_peers(h, fails)
    PROVE  Quiet
<1> DEFINE pending == {p \in DOMAIN peers[h] : ~Authenticated(h, p)}
           others == Host \ DOMAIN peers[h]
           T == pending \cup others
           closed == CloseChannels(h, T, others)
           Free(p) == {s \in Slot : closed[h][p][s] = NoConn}
           new == [p \in pending |-> IF p \in fails THEN 0 ELSE CHOOSE s \in Free(p) : TRUE]
           F(p, s) == IF p \in pending /\ s = new[p] THEN Fresh ELSE closed[h][p][s]
           G(p) == CASE p \in pending -> new[p] [] p \in others -> 0 [] OTHER -> tx[h][p]
<1>1. /\ conn' = [closed EXCEPT ![h] = [p \in Host |-> [s \in Slot |-> F(p, s)]]]
      /\ tx' = [tx EXCEPT ![h] = [p \in Host |-> G(p)]]
      /\ remote' = network_rx_cleanup_state(h, Closed(h, others))
    BY Zenon DEF network_connect_peers, Fresh
<1>0. \A p \in pending : p \notin others
    BY Zenon
<1> HIDE DEF pending, others, T, new
<1>2. closed \in Table
  <2>1. TypeOK /\ Channels
      BY Zenon DEF Inv
  <2> QED
      BY <2>1, ClosedChannels, Zenon
<1>3. \A a, b \in Host, s \in Slot : Kept(conn[a][b][s], closed[a][b][s])
    BY ClosedIsClosing, KeptClosing, Zenon
<1>4. \A a, b \in Host, s \in Slot : Kept(conn[a][b][s], Fresh)
    BY FreshIsConn, Zenon DEF Kept
<1> HIDE DEF closed
<1>5. \A a, b \in Host, s \in Slot : conn'[a][b][s] = IF a = h THEN F(b, s) ELSE closed[a][b][s]
  <2> HIDE DEF F
  <2> QED
      BY <1>1, <1>2, Zenon DEF Table
<1>6. ASSUME NEW a \in Host, NEW b \in Host, NEW s \in Slot
      PROVE  Kept(conn[a][b][s], conn'[a][b][s])
  <2>1. conn'[a][b][s] = Fresh \/ conn'[a][b][s] = closed[a][b][s]
      BY <1>5
  <2> QED
      BY <1>3, <1>4, <2>1, Zenon
<1>7. ASSUME NEW a \in Host, NEW b \in Host
      PROVE  \/ tx'[a][b] = 0 \/ tx'[a][b] = tx[a][b]
             \/ tx'[a][b] \in Slot /\ conn'[a][b][tx'[a][b]].tx # "auth"
  <2>1. tx' \in [Host -> [Host -> Slot \cup {0}]] /\ tx \in [Host -> [Host -> Slot \cup {0}]]
      BY Zenon DEF Inv, TypeOK
  <2>2. tx'[a][b] = IF a = h THEN G(b) ELSE tx[a][b]
    <3> HIDE DEF G
    <3> QED
        BY <1>1, <2>1, Zenon
  <2>3. CASE a = h /\ b \in pending
    <3>1. tx'[a][b] = new[b]
        BY <1>0, <2>2, <2>3, Zenon
    <3>2. new[b] \in Slot => conn'[a][b][new[b]] = Fresh
        BY <1>5, <2>3, Zenon
    <3> QED
        BY <2>1, <3>1, <3>2, FreshIsConn
  <2>4. CASE ~(a = h /\ b \in pending)
      BY <2>2, <2>4, Zenon
  <2> QED
      BY <2>3, <2>4, Zenon
<1>8. \A g, q \in Host, k \in Kind, n \in Name : q \in remote'[g][k][n] => q \in remote[g][k][n]
    BY <1>1, CleanedUpClosed
<1> QED
    BY <1>6, <1>7, <1>8, Zenon DEF Quiet

-----------------------------------------------------------------------------
(* Publishers that come into reach *)

\* What PublishersNotified says of a step.
Notifies == \A h \in Host, n \in Name : ~(Reachable(h, n)' \subseteq Reachable(h, n)) => n \in notified'[h]

LEMMA QuietNotifies ==
    ASSUME Inv, Inv', Quiet
    PROVE  Notifies
<1> SUFFICES ASSUME NEW h \in Host, NEW n \in Name, NEW p \in Reachable(h, n)'
             PROVE  p \in Reachable(h, n)
    BY Zenon DEF Notifies
<1>1. p \in remote'[h]["publish"][n] /\ Authenticated(h, p)'
    BY Zenon DEF Reachable
<1>2. p \in Host /\ "publish" \in Kind /\ tx'[h][p] \in Slot \cup {0} /\ 0 \notin Slot
  <2>1. remote' \in [Host -> [Kind -> [Name -> SUBSET Host]]] /\ tx' \in [Host -> [Host -> Slot \cup {0}]]
      BY Zenon DEF Inv, TypeOK
  <2>2. p \in Host /\ "publish" \in Kind
      BY <1>1, <2>1, KindAssumption
  <2> QED
      BY <2>1, <2>2, SlotAssumption, Zenon
<1>3. tx'[h][p] \in Slot /\ conn'[h][p][tx'[h][p]].tx = "auth"
    BY <1>1, <1>2, Zenon DEF Authenticated
<1>4. tx'[h][p] = tx[h][p] /\ Kept(conn[h][p][tx'[h][p]], conn'[h][p][tx'[h][p]])
    BY <1>2, <1>3, Zenon DEF Quiet
<1>5. Authenticated(h, p)
    BY <1>2, <1>3, <1>4, Zenon DEF Kept, Authenticated
<1>6. p \in remote[h]["publish"][n]
    BY <1>1, <1>2, Zenon DEF Quiet
<1> QED
    BY <1>5, <1>6, Zenon DEF Reachable

\* Clients change neither connections nor registrations.
LEMMA ClientNotifies ==
    ASSUME Inv, NEW h \in Host, NEW send \in [Kind -> [Name -> Seq(BOOLEAN)]],
           pubsub_set(h, send) \/ conn' = conn, tx' = tx, remote' = remote
    PROVE  Notifies
<1>1. \A a, b \in Host, s \in Slot : conn'[a][b][s].tx = conn[a][b][s].tx
    BY PubsubSet, SMTT(30)
<1>2. ASSUME NEW g \in Host, NEW n \in Name, NEW p \in Reachable(g, n)'
      PROVE  p \in Reachable(g, n)
  <2>1. p \in remote[g]["publish"][n] /\ Authenticated(g, p)' /\ p \in Host
      BY <1>2, KindAssumption DEF Reachable, Inv, TypeOK
  <2>2. tx[g][p] \in Slot \cup {0}
      BY <2>1 DEF Inv, TypeOK
  <2> QED
      BY <1>1, <2>1, <2>2, Zenon DEF Reachable, Authenticated
<1> QED
    BY <1>2, Zenon DEF Notifies

LEMMA AuthDataNotifies ==
    ASSUME Inv, NEW h \in Host, NEW p \in Host, NEW s \in Slot, auth_data_cb(h, p, s)
    PROVE  Notifies
<1> DEFINE d == Announce([conn[h][p][s] EXCEPT !.tx = "auth", !.msg = "none"],
                         [k \in Kind |-> [n \in Name |-> IF n \in known[h][k] THEN <<TRUE>> ELSE <<>>]])
           N == IF rx[h][p] = 0 THEN {} ELSE conn[p][h][rx[h][p]].list["publish"]
<1>1. conn' = [conn EXCEPT ![h][p][s] = d] /\ handle_publish(h, N)
    BY ZenonT(60), Zenon DEF auth_data_cb
<1>2. tx' = tx /\ remote' = remote
    BY Zenon DEF auth_data_cb
<1> HIDE DEF d
<1>3. \A a, b \in Host, z \in Slot : ~(a = h /\ b = p) => conn'[a][b][z] = conn[a][b][z]
    BY <1>1, Zenon DEF Inv, TypeOK
<1>4. \A n \in Name : p \in remote[h]["publish"][n] => n \in notified'[h]
  <2>1. \A n \in Name : p \in remote[h]["publish"][n] => n \in N
      BY KindAssumption, Zenon DEF Inv, RemoteMirrorsChannels
  <2> HIDE DEF N
  <2> QED
      BY <1>1, <2>1, Zenon DEF handle_publish
<1>5. ASSUME NEW g \in Host, NEW n \in Name, NEW q \in Reachable(g, n)', n \notin notified'[g]
      PROVE  q \in Reachable(g, n)
  <2>1. q \in remote[g]["publish"][n] /\ Authenticated(g, q)' /\ q \in Host
      BY <1>2, <1>5, KindAssumption DEF Reachable, Inv, TypeOK
  <2>2. tx[g][q] \in Slot \cup {0}
      BY <2>1 DEF Inv, TypeOK
  <2>3. ~(g = h /\ q = p)
      BY <1>4, <1>5, <2>1, Zenon
  <2> QED
      BY <1>2, <1>3, <2>1, <2>2, <2>3, Zenon DEF Reachable, Authenticated
<1> QED
    BY <1>5, Zenon DEF Notifies

LEMMA HandleRequestNotifies ==
    ASSUME Inv, NEW h \in Host, NEW p \in Host, NEW s \in Slot, NEW kind \in Kind, NEW name \in Name,
           network_socket_handle_request(h, p, s, kind, name)
    PROVE  Notifies
<1>1. PICK d \in Conn, adds \in BOOLEAN, removes \in BOOLEAN : Registers(h, p, s, kind, name, d, adds, removes)
    BY Announced, Zenon
<1>2. conn' = [conn EXCEPT ![p][h][s] = d] /\ d.tx = conn[p][h][s].tx
    BY <1>1, Zenon DEF Registers
<1>7. adds <=> /\ Head(conn[p][h][s].sent[kind][name]) /\ name \notin conn[p][h][s].list[kind]
               /\ p \in DOMAIN peers[h] /\ name \in peers[h][p].names
    BY <1>1, Zenon DEF Registers
<1>8. /\ remote' \in [Host -> [Kind -> [Name -> SUBSET Host]]]
      /\ \A g, q \in Host, k \in Kind, n \in Name :
             q \in remote'[g][k][n] <=>
                 IF g = h /\ q = p /\ k = kind /\ n = name THEN adds \/ (q \in remote[g][k][n] /\ ~removes)
                 ELSE q \in remote[g][k][n]
    BY <1>1, Zenon DEF Registers
<1>3. tx' = tx
    BY Zenon DEF network_socket_handle_request
<1>4. kind = "publish" /\ adds /\ Authenticated(h, p) => name \in notified'[h]
  <2> DEFINE c == conn[p][h][s]
             enabled == Head(c.sent[kind][name])
             has == name \in c.list[kind]
             add == enabled /\ ~has /\ p \in DOMAIN peers[h] /\ name \in peers[h][p].names
             remove == ~enabled /\ has
             told == kind = "publish" /\ (remove \/ (enabled /\ (has \/ add) /\ Authenticated(h, p)))
             N == IF told THEN {name} ELSE {}
  <2>1. handle_publish(h, N)
      BY Zenon DEF network_socket_handle_request
  <2>2. kind = "publish" /\ adds /\ Authenticated(h, p) => name \in N
      BY <1>7, Zenon
  <2> HIDE DEF N
  <2> QED
      BY <2>1, <2>2, Zenon DEF handle_publish
<1>5. \A a, b \in Host, z \in Slot : conn'[a][b][z].tx = conn[a][b][z].tx
  <2>1. conn \in Table
      BY Zenon DEF Inv, TypeOK, Table
  <2> QED
      BY <1>2, <2>1 DEF Table
<1>6. ASSUME NEW g \in Host, NEW n \in Name, NEW q \in Reachable(g, n)', n \notin notified'[g]
      PROVE  q \in Reachable(g, n)
  <2>1. q \in remote'[g]["publish"][n] /\ Authenticated(g, q)' /\ q \in Host
    <3>1. q \in remote'[g]["publish"][n] /\ Authenticated(g, q)'
        BY <1>6, Zenon DEF Reachable
    <3> QED
        BY <1>8, <3>1, KindAssumption
  <2>2. tx[g][q] \in Slot \cup {0}
      BY <2>1, SMTT(30) DEF Inv, TypeOK
  <2>3. Authenticated(g, q)
      BY <1>3, <1>5, <2>1, <2>2, Zenon DEF Authenticated
  <2>4. q \in remote[g]["publish"][n]
      BY <1>4, <1>6, <1>8, <2>1, <2>3, KindAssumption, Zenon
  <2> QED
      BY <2>3, <2>4, Zenon DEF Reachable
<1> QED
    BY <1>6, Zenon DEF Notifies

\* What a client adds and takes away, as announcements.
Added(kind, name) == [k \in Kind |-> [n \in Name |-> IF k = kind /\ n = name THEN <<TRUE>> ELSE <<>>]]

Left(h, c) == [k \in Kind |-> [n \in Name |-> handles[h][k][n] \ {c}]]

Removed(h, c) ==
    [k \in Kind |-> [n \in Name |-> IF c \in handles[h][k][n] /\ (Left(h, c)[k][n] = {} \/ k = "publish")
                                    THEN <<Left(h, c)[k][n] # {}>> ELSE <<>>]]

LEMMA ClientSends ==
    ASSUME NEW h \in Host, NEW c \in Client, NEW kind \in Kind, NEW name \in Name
    PROVE  /\ Added(kind, name) \in [Kind -> [Name -> Seq(BOOLEAN)]]
           /\ Removed(h, c) \in [Kind -> [Name -> Seq(BOOLEAN)]]
<1>1. <<>> \in Seq(BOOLEAN) /\ \A b \in BOOLEAN : <<b>> \in Seq(BOOLEAN)
    OBVIOUS
<1>2. Added(kind, name) \in [Kind -> [Name -> Seq(BOOLEAN)]]
    BY <1>1, Zenon DEF Added
<1>3. \A k \in Kind, n \in Name : (Left(h, c)[k][n] # {}) \in BOOLEAN
    BY Zenon
<1>4. Removed(h, c) \in [Kind -> [Name -> Seq(BOOLEAN)]]
    BY <1>1, <1>3, Zenon DEF Removed
<1> QED
    BY <1>2, <1>4, Zenon

LEMMA PubsubIs ==
    ASSUME NEW h \in Host, NEW c \in Client, NEW kind \in Kind, NEW name \in Name,
           client_pubsub(h, c, kind, name)
    PROVE  /\ IF handles[h][kind][name] = {} \/ kind = "publish"
              THEN pubsub_set(h, Added(kind, name)) ELSE conn' = conn
           /\ handles' = [handles EXCEPT ![h][kind][name] = @ \cup {c}]
           /\ known' = [known EXCEPT ![h][kind] = @ \cup {name}]
           /\ UNCHANGED <<remote, open, peers, timer, tx, rx>>
BY Zenon DEF client_pubsub, Added

LEMMA DisconnectIs ==
    ASSUME NEW h \in Host, NEW c \in Client, client_disconnect(h, c)
    PROVE  /\ pubsub_set(h, Removed(h, c))
           /\ handles' = [handles EXCEPT ![h] = Left(h, c)]
           /\ UNCHANGED <<known, remote, open, peers, timer, tx, rx>>
BY Zenon DEF client_disconnect, Left, Removed

LEMMA NotifiesNext == Inv /\ Inv' /\ [Next]_vars => [Notifies]_vars
<1> SUFFICES ASSUME Inv, Inv', Next
             PROVE  Notifies
    BY Zenon
<1>1. PICK h \in Host : Step(h) \/ Fault(h)
    BY Zenon DEF Next
<1>2. ASSUME NEW c \in Client, NEW k \in Kind, NEW n \in Name, client_pubsub(h, c, k, n)
      PROVE  Notifies
  <2> DEFINE send == Added(k, n)
  <2>1. (pubsub_set(h, send) \/ conn' = conn) /\ tx' = tx /\ remote' = remote
      BY <1>2, PubsubIs, Zenon
  <2>2. send \in [Kind -> [Name -> Seq(BOOLEAN)]]
      BY ClientSends, Zenon
  <2> HIDE DEF send
  <2> QED
      BY <2>1, <2>2, ClientNotifies, Zenon
<1>3. ASSUME NEW c \in Client, client_disconnect(h, c)
      PROVE  Notifies
  <2> DEFINE send == Removed(h, c)
  <2>1. pubsub_set(h, send) /\ tx' = tx /\ remote' = remote
      BY <1>3, DisconnectIs, Zenon
  <2>2. send \in [Kind -> [Name -> Seq(BOOLEAN)]]
    <3>1. PICK k \in Kind, n \in Name : TRUE
        BY <1>3, Zenon DEF client_disconnect
    <3> QED
        BY <3>1, ClientSends, Zenon
  <2> HIDE DEF send
  <2> QED
      BY <2>1, <2>2, ClientNotifies, Zenon
<1>4. ASSUME NEW p \in Host, NEW s \in Slot, Handshake(h, p, s)
      PROVE  Notifies
  <2>1. CASE auth_data_cb(h, p, s)
      BY <2>1, AuthDataNotifies, Zenon
  <2>2. CASE conn[h][p][s].rx = "closed" /\ TxDisconnect(h, p, s)
      BY <2>2, TxCloseQuiet, QuietNotifies, Zenon DEF TxDisconnect
  <2>3. CASE network_accept(h, p, s)
      BY <2>3, AcceptQuiet, QuietNotifies, Zenon
  <2>4. CASE RecvHello(h, p, s, TRUE)
      BY <2>4, RecvHelloQuiet, QuietNotifies, Zenon
  <2>5. CASE network_check_auth(h, p, s, TRUE, TRUE)
      BY <2>5, CheckAuthQuiet, QuietNotifies, ZenonT(60), Zenon
  <2>6. CASE conn[p][h][s].tx = "closed" /\ RxDisconnect(h, p, s)
      BY <2>6, RxDisconnectQuiet, QuietNotifies, Zenon
  <2> QED
      BY <1>4, <2>1, <2>2, <2>3, <2>4, <2>5, <2>6, Zenon DEF Handshake
<1>5. ASSUME NEW p \in Host, NEW s \in Slot, Failure(h, p, s)
      PROVE  Notifies
  <2>1. CASE \E ok, reply \in BOOLEAN : RecvHello(h, p, s, ok) \/ network_check_auth(h, p, s, ok, reply)
      BY <2>1, RecvHelloQuiet, CheckAuthQuiet, QuietNotifies, Zenon
  <2>2. CASE AuthFails(h, p, s) \/ TxDisconnect(h, p, s)
      BY <2>2, TxCloseQuiet, QuietNotifies, Zenon DEF AuthFails, TxDisconnect
  <2>3. CASE AcceptTimeout(h, p, s) \/ RxDisconnect(h, p, s)
      BY <2>3, RxDisconnectQuiet, QuietNotifies, Zenon
  <2> QED
      BY <1>5, <2>1, <2>2, <2>3, Zenon DEF Failure
<1>6. ASSUME NEW p \in Host, NEW s \in Slot, Announcement(h, p, s)
      PROVE  Notifies
    BY <1>6, HandleRequestNotifies, Zenon DEF Announcement
<1>7. CASE \E fails : network_connect_peers(h, fails)
    BY <1>7, ConnectQuiet, QuietNotifies, Zenon
<1>8. CASE (\E P \in Peers(h) : network_open(h, P) \/ network_update(h, P)) \/ network_close(h) \/ Restart(h)
    BY <1>8, OpenQuiet, UpdateQuiet, GoneQuiet, QuietNotifies, Zenon
<1> QED
    BY <1>1, <1>2, <1>3, <1>4, <1>5, <1>6, <1>7, <1>8, Zenon DEF Step, ClientStep, Fault

\* Whichever of auth_data_cb and network_socket_handle_request is the last to
\* make a publisher of a peer reachable, it calls handle_publish for the name,
\* and no other callback makes one reachable.
THEOREM SubscribersTold == Spec => PublishersNotified
<1>1. [Notifies]_vars =>
          [\A h \in Host, n \in Name : ~(Reachable(h, n)' \subseteq Reachable(h, n)) => n \in notified'[h]]_vars
    BY Zenon DEF Notifies
<1> QED
    BY <1>1, Always, NotifiesNext, PTL DEF Spec, PublishersNotified

-----------------------------------------------------------------------------
(* Networks whose reports always have a unetmsg service *)

\* Only peers are connected, and a name with clients has an entry.
Members == \A h, p \in Host : rx[h][p] # 0 => p \in DOMAIN peers[h]

Entries == \A h \in Host, k \in Kind, n \in Name : handles[h][k][n] # {} => n \in known[h][k]

\* What NoAnnouncementLost says of one connection.
Informed(c, k, n, allowed) ==
    c.rx # "closed" => IF c.sent[k][n] = <<>> THEN n \in c.list[k] \/ ~allowed
                       ELSE c.sent[k][n][Len(c.sent[k][n])]

AllowedAt(p, h, n) == h \in DOMAIN peers[p] /\ n \in peers[p][h].names

InformedAll ==
    \A h, p \in Host, k \in Kind, n \in Name :
        Authenticated(h, p) /\ handles[h][k][n] # {} =>
            Informed(conn[h][p][tx[h][p]], k, n, AllowedAt(p, h, n))

Served == Members /\ Entries /\ OnlyAllowed /\ InformedAll

LEMMA ServedGives == Served => OnlyAllowed /\ NoAnnouncementLost
BY Zenon DEF Served, InformedAll, Informed, AllowedAt, NoAnnouncementLost

\* Who is connected was a peer and keeps its list.
ListsKept ==
    \A h, p \in Host : rx'[h][p] # 0 =>
        p \in DOMAIN peers[h] /\ p \in DOMAIN peers'[h] /\ peers'[h][p] = peers[h][p]

ClientsKept ==
    \A h \in Host, k \in Kind, n \in Name :
        handles'[h][k][n] # {} => handles[h][k][n] # {} /\ n \in known'[h][k]

LEMMA ServedQuiet ==
    ASSUME Inv, Inv', Served, Quiet, ListsKept, ClientsKept
    PROVE  Served'
<1>1. Members'
    BY Zenon DEF Members, ListsKept
<1>2. Entries'
    BY Zenon DEF Entries, ClientsKept
<1>3. OnlyAllowed'
  <2> SUFFICES ASSUME NEW h \in Host, NEW p \in Host, NEW k \in Kind, NEW n \in Name, p \in remote'[h][k][n]
               PROVE  p \in DOMAIN peers'[h] /\ n \in peers'[h][p].names
      BY Zenon DEF OnlyAllowed
  <2>1. rx'[h][p] # 0
      BY Zenon DEF Inv, RemoteMirrorsChannels
  <2>2. p \in DOMAIN peers[h] /\ n \in peers[h][p].names
    <3>1. p \in remote[h][k][n]
        BY Zenon DEF Quiet
    <3> QED
        BY <3>1, Zenon DEF Served, OnlyAllowed
  <2> QED
      BY <2>1, <2>2, Zenon DEF ListsKept
<1>4. InformedAll'
  <2> SUFFICES ASSUME NEW h \in Host, NEW p \in Host, NEW k \in Kind, NEW n \in Name,
                      Authenticated(h, p)', handles'[h][k][n] # {}
               PROVE  Informed(conn[h][p][tx[h][p]], k, n, AllowedAt(p, h, n))'
      BY Zenon DEF InformedAll
  <2> DEFINE s == tx'[h][p]
             c == conn[h][p][s]
             d == conn'[h][p][s]
  <2> SUFFICES ASSUME d.rx # "closed"
               PROVE  Informed(conn[h][p][tx[h][p]], k, n, AllowedAt(p, h, n))'
      BY ZenonT(60), Zenon DEF Informed
  <2>1. s \in Slot /\ d.tx = "auth" /\ d.rx = "auth" /\ rx'[p][h] # 0 /\ s # 0
    <3>1. s \in Slot /\ s # 0 /\ d.tx = "auth"
        BY DEF Inv, TypeOK, Authenticated
    <3>2. \A z \in Slot : Ends(h, p, z)'
        BY Zenon DEF Inv, Channels
    <3> QED
        BY <3>1, <3>2, Zenon DEF Ends
  <2>2. s = tx[h][p] /\ Kept(c, d)
      BY <2>1, Zenon DEF Quiet
  <2>3. c.tx = "auth" /\ c.rx # "closed" /\ d.list = c.list /\ d.sent = c.sent
      BY <2>1, <2>2, Zenon DEF Kept
  <2>4. Authenticated(h, p)
      BY <2>1, <2>2, <2>3, Zenon DEF Authenticated
  <2>5. handles[h][k][n] # {}
      BY Zenon DEF ClientsKept
  <2>6. Informed(c, k, n, AllowedAt(p, h, n))
      BY <2>2, <2>4, <2>5, Zenon DEF Served, InformedAll
  <2>7. AllowedAt(p, h, n)' <=> AllowedAt(p, h, n)
      BY <2>1, Zenon DEF ListsKept, AllowedAt
  <2> QED
      BY <2>2, <2>3, <2>6, <2>7, Zenon DEF Informed
<1> QED
    BY <1>1, <1>2, <1>3, <1>4, Zenon DEF Served

LEMMA SameReport ==
    ASSUME Served, UNCHANGED <<handles, known, peers>>,
           \A h, p \in Host : rx'[h][p] = 0 \/ rx'[h][p] = rx[h][p] \/ p \in DOMAIN peers[h]
    PROVE  ListsKept /\ ClientsKept
BY Zenon DEF Served, Members, Entries, ListsKept, ClientsKept

\* The steps of one connection that are quiet.
LEMMA ConnectionServed ==
    ASSUME Inv, Inv', Served, NEW h \in Host, NEW p \in Host, NEW s \in Slot,
           NEW ok \in BOOLEAN, NEW reply \in BOOLEAN,
           \/ RecvHello(h, p, s, ok) \/ AuthFails(h, p, s) \/ TxDisconnect(h, p, s)
           \/ network_accept(h, p, s) \/ network_check_auth(h, p, s, ok, reply)
           \/ AcceptTimeout(h, p, s) \/ RxDisconnect(h, p, s)
    PROVE  Served'
<1>1. Quiet
  <2>1. CASE RecvHello(h, p, s, ok) \/ network_check_auth(h, p, s, ok, reply)
      BY <2>1, RecvHelloQuiet, CheckAuthQuiet, Zenon
  <2>2. CASE AuthFails(h, p, s) \/ TxDisconnect(h, p, s)
      BY <2>2, TxCloseQuiet, Zenon DEF AuthFails, TxDisconnect
  <2>3. CASE network_accept(h, p, s) \/ AcceptTimeout(h, p, s) \/ RxDisconnect(h, p, s)
      BY <2>3, AcceptQuiet, RxDisconnectQuiet, Zenon
  <2> QED
      BY <2>1, <2>2, <2>3, Zenon
<1>2. UNCHANGED <<handles, known, peers>>
    BY Zenon DEF RecvHello, AuthFails, TxDisconnect, network_accept, network_check_auth, AcceptTimeout, RxDisconnect
<1>3. \A g, q \in Host : rx'[g][q] = 0 \/ rx'[g][q] = rx[g][q] \/ q \in DOMAIN peers[g]
  <2>1. rx \in [Host -> [Host -> Slot \cup {0}]]
      BY Zenon DEF Inv, TypeOK
  <2>2. CASE rx' = rx
      BY <2>2, Zenon
  <2>3. CASE rx' = [rx EXCEPT ![h][p] = s] /\ p \in DOMAIN peers[h]
      BY <2>1, <2>3, Zenon
  <2>4. CASE rx' = [rx EXCEPT ![h][p] = IF rx[h][p] = s THEN 0 ELSE @]
      BY <2>1, <2>4, Zenon
  <2>5. CASE network_check_auth(h, p, s, ok, reply)
    <3>1. rx' = rx \/ (rx' = [rx EXCEPT ![h][p] = s] /\ p \in DOMAIN peers[h])
        BY <2>5, ZenonT(60), Zenon DEF network_check_auth
    <3> QED
        BY <2>2, <2>3, <3>1, Zenon
  <2> QED
      BY <2>2, <2>4, <2>5, Zenon DEF RecvHello, AuthFails, TxDisconnect, network_accept, AcceptTimeout, RxDisconnect
<1>4. ListsKept /\ ClientsKept
    BY <1>2, <1>3, SameReport, Zenon
<1> QED
    BY <1>1, <1>4, ServedQuiet, Zenon

LEMMA ConnectServed ==
    ASSUME Inv, Inv', Served, NEW h \in Host, NEW fails, network_connect_peers(h, fails)
    PROVE  Served'
<1> DEFINE others == Host \ DOMAIN peers[h]
<1>1. rx' = Without(rx, h, others) /\ UNCHANGED <<handles, known, peers>>
    BY Zenon DEF network_connect_peers
<1> HIDE DEF others
<1>2. \A g, q \in Host : rx'[g][q] = 0 \/ rx'[g][q] = rx[g][q] \/ q \in DOMAIN peers[g]
    BY <1>1, EmptiedRx, SMTT(30) DEF Inv
<1>3. ListsKept /\ ClientsKept
    BY <1>1, <1>2, SameReport, Zenon
<1> QED
    BY <1>3, ConnectQuiet, ServedQuiet, Zenon

LEMMA OpenServed ==
    ASSUME Inv, Inv', Served, NEW h \in Host, NEW P, network_open(h, P)
    PROVE  Served'
<1>1. UNCHANGED <<handles, known, rx>> /\ peers' = [peers EXCEPT ![h] = P] /\ ~open[h]
    BY Zenon DEF network_open
<1>2. \A g \in Host : g # h => peers'[g] = peers[g]
    BY <1>1, Zenon DEF Inv, TypeOK
<1>3. \A p \in Host : rx[h][p] = 0
    BY <1>1, Zenon DEF Inv, Networks, Served, Members
<1>4. ListsKept /\ ClientsKept
    BY <1>1, <1>2, <1>3, Zenon DEF Served, Members, Entries, ListsKept, ClientsKept
<1> QED
    BY <1>4, OpenQuiet, ServedQuiet, Zenon

\* Peers without a list would keep their connection after they are gone.
LEMMA UpdateServed ==
    ASSUME Limited = {TRUE}, Inv, Inv', Served, NEW h \in Host, NEW P, network_update(h, P)
    PROVE  Served'
<1> DEFINE R == {p \in DOMAIN peers[h] : IF p \in DOMAIN P THEN P[p] # peers[h][p] ELSE peers[h][p].limited}
<1>1. rx' = Without(rx, h, R) /\ UNCHANGED <<handles, known>> /\ peers' = [peers EXCEPT ![h] = P]
    BY Zenon DEF network_update
<1>2. \A p \in DOMAIN peers[h] : peers[h][p].limited
    BY ReportOf, Zenon DEF Inv, Networks
<1>3. \A p \in DOMAIN peers[h] : p \notin R => p \in DOMAIN P /\ P[p] = peers[h][p]
    BY <1>2, Zenon
<1> HIDE DEF R
<1>4. \A g, p \in Host : rx'[g][p] = IF g = h /\ p \in R THEN 0 ELSE rx[g][p]
    BY <1>1, EmptiedRx, SMTT(30) DEF Inv
<1>5. \A g \in Host : peers'[g] = IF g = h THEN P ELSE peers[g]
    BY <1>1, Zenon DEF Inv, TypeOK
<1>6. ASSUME NEW g \in Host, NEW p \in Host, rx'[g][p] # 0
      PROVE  p \in DOMAIN peers[g] /\ p \in DOMAIN peers'[g] /\ peers'[g][p] = peers[g][p]
  <2>1. rx[g][p] # 0 /\ (g = h => p \notin R)
      BY <1>4, <1>6, Zenon
  <2>2. p \in DOMAIN peers[g]
      BY <2>1, Zenon DEF Served, Members
  <2> QED
      BY <1>3, <1>5, <2>1, <2>2, Zenon
<1>7. ListsKept /\ ClientsKept
    BY <1>1, <1>6, Zenon DEF Served, Entries, ListsKept, ClientsKept
<1> QED
    BY <1>7, UpdateQuiet, ServedQuiet, Zenon

LEMMA GoneServed ==
    ASSUME Inv, Inv', Served, NEW h \in Host, network_close(h) \/ Restart(h)
    PROVE  Served'
<1> DEFINE R == Host
<1>1. rx' = Without(rx, h, R) /\ peers' = [peers EXCEPT ![h] = NoPeers]
    BY Zenon DEF network_close, CloseAll, Restart
<1>2. \A p \in Host : p \in R
    BY Zenon
<1> HIDE DEF R
<1>3. \A g, p \in Host : rx'[g][p] = IF g = h /\ p \in R THEN 0 ELSE rx[g][p]
    BY <1>1, EmptiedRx, SMTT(30) DEF Inv
<1>4. \A g \in Host : g # h => peers'[g] = peers[g]
    BY <1>1, Zenon DEF Inv, TypeOK
<1>5. ListsKept
    BY <1>2, <1>3, <1>4, Zenon DEF Served, Members, ListsKept
<1>6. ClientsKept
  <2>1. handles \in [Host -> [Kind -> [Name -> SUBSET Client]]] /\ known \in [Host -> [Kind -> SUBSET Name]]
      BY ZenonT(60), Zenon DEF Inv, TypeOK
  <2>2. CASE network_close(h)
      BY <2>2, Zenon DEF network_close, Served, Entries, ClientsKept
  <2>3. CASE Restart(h)
    <3>1. /\ handles' = [handles EXCEPT ![h] = [k \in Kind |-> [n \in Name |-> {}]]]
          /\ known' = [known EXCEPT ![h] = NoList]
        BY <2>3, Zenon DEF Restart
    <3>2. \A g \in Host, k \in Kind, n \in Name :
              IF g = h THEN handles'[g][k][n] = {} ELSE handles'[g][k][n] = handles[g][k][n] /\ known'[g] = known[g]
        BY <2>1, <3>1, Zenon
    <3> QED
        BY <3>2 DEF Served, Entries, ClientsKept
  <2> QED
      BY <2>2, <2>3, Zenon
<1> QED
    BY <1>5, <1>6, GoneQuiet, ServedQuiet, Zenon

\* Announcing a name as in use informs the peer of it; announcing other names
\* leaves what it knows of this one.
LEMMA AnnounceInforms ==
    ASSUME NEW c \in Conn, NEW send \in [Kind -> [Name -> Seq(BOOLEAN)]], NEW k \in Kind, NEW n \in Name,
           NEW allowed,
           send[k][n] = <<TRUE>> \/ (send[k][n] = <<>> /\ Informed(c, k, n, allowed))
    PROVE  Informed(Announce(c, send), k, n, allowed)
<1> DEFINE d == Announce(c, send)
           q == c.sent[k][n]
<1>1. CASE c.rx = "closed"
    BY <1>1, AnnounceOn, Zenon DEF Informed
<1>2. CASE c.rx # "closed"
  <2>1. d.sent[k][n] = q \o send[k][n] /\ d.list = c.list /\ d.rx = c.rx /\ q \in Seq(BOOLEAN)
    <3>1. q \in Seq(BOOLEAN)
        BY Zenon DEF Conn
    <3> QED
        BY <1>2, <3>1, AnnounceOn, ZenonT(60), Zenon
  <2>2. CASE send[k][n] = <<TRUE>>
    <3>1. d.sent[k][n] = q \o <<TRUE>>
        BY <2>1, <2>2, Zenon
    <3>2. q \o <<TRUE>> # <<>> /\ (q \o <<TRUE>>)[Len(q \o <<TRUE>>)]
        BY <2>1, SMTT(30)
    <3> HIDE DEF d, q
    <3> QED
        BY <3>1, <3>2, Zenon DEF Informed, d
  <2>3. CASE send[k][n] = <<>> /\ Informed(c, k, n, allowed)
    <3>1. d.sent[k][n] = q
        BY <2>1, <2>3, SMTT(30)
    <3> HIDE DEF d
    <3> QED
        BY <1>2, <2>1, <2>3, <3>1, Zenon DEF Informed, d
  <2> QED
      BY <2>2, <2>3, Zenon
<1> QED
    BY <1>1, <1>2, Zenon

\* pubsub_set reaches the authenticated connections of h and no other.
LEMMA PubsubAt ==
    ASSUME Inv, NEW h \in Host, NEW send \in [Kind -> [Name -> Seq(BOOLEAN)]], pubsub_set(h, send)
    PROVE  \A a, b \in Host, s \in Slot :
               conn'[a][b][s] = IF a = h /\ s = tx[h][b] /\ conn[a][b][s].tx = "auth"
                                THEN Announce(conn[a][b][s], send) ELSE conn[a][b][s]
<1> DEFINE F(q, z) == IF z = tx[h][q] /\ conn[h][q][z].tx = "auth"
                      THEN Announce(conn[h][q][z], send) ELSE conn[h][q][z]
<1>1. conn' = [conn EXCEPT ![h] = [q \in Host |-> [z \in Slot |-> F(q, z)]]]
    BY Zenon DEF pubsub_set
<1>2. conn \in Table
    BY Zenon DEF Inv, TypeOK, Table
<1>3. \A a, b \in Host, s \in Slot : conn'[a][b][s] = IF a = h THEN F(b, s) ELSE conn[a][b][s]
  <2> HIDE DEF F
  <2> QED
      BY <1>1, <1>2, Zenon DEF Table
<1> QED
    BY <1>3

\* A channel that is authenticated after a step that opens none was there before.
LEMMA AuthenticatedOn ==
    ASSUME Inv, tx' = tx, NEW g \in Host, NEW p \in Host, Authenticated(g, p)'
    PROVE  /\ tx'[g][p] = tx[g][p] /\ tx[g][p] \in Slot /\ tx[g][p] # 0
           /\ conn'[g][p][tx[g][p]].tx = "auth"
<1>1. tx[g][p] \in Slot \cup {0}
    BY DEF Inv, TypeOK
<1>2. tx'[g][p] # 0 /\ conn'[g][p][tx'[g][p]].tx = "auth"
    BY ZenonT(60), Zenon DEF Authenticated
<1> QED
    BY <1>1, <1>2, Zenon

\* A name of g that has clients had them before and is not announced now, or it
\* is announced as in use.
LEMMA ClientServed ==
    ASSUME Inv, Inv', Served, NEW h \in Host, NEW send \in [Kind -> [Name -> Seq(BOOLEAN)]],
           pubsub_set(h, send), UNCHANGED <<remote, peers, tx, rx>>, Entries',
           \A g \in Host, k \in Kind, n \in Name :
               handles'[g][k][n] # {} => \/ g = h /\ send[k][n] = <<TRUE>>
                                         \/ handles[g][k][n] # {} /\ (g = h => send[k][n] = <<>>)
    PROVE  Served'
<1>1. Members' /\ OnlyAllowed'
    BY Zenon DEF Served, Members, OnlyAllowed
<1>2. InformedAll'
  <2> SUFFICES ASSUME NEW g \in Host, NEW p \in Host, NEW k \in Kind, NEW n \in Name,
                      Authenticated(g, p)', handles'[g][k][n] # {}
               PROVE  Informed(conn[g][p][tx[g][p]], k, n, AllowedAt(p, g, n))'
      BY ZenonT(60), Zenon DEF InformedAll
  <2> DEFINE s == tx[g][p]
             c == conn[g][p][s]
             al == AllowedAt(p, g, n)
  <2>1. tx'[g][p] = s /\ s \in Slot /\ s # 0
      BY AuthenticatedOn, Zenon
  <2>2. conn'[g][p][s] = IF g = h /\ c.tx = "auth" THEN Announce(c, send) ELSE c
    <3>1. \A a, b \in Host, z \in Slot :
               conn'[a][b][z] = IF a = h /\ z = tx[h][b] /\ conn[a][b][z].tx = "auth"
                                THEN Announce(conn[a][b][z], send) ELSE conn[a][b][z]
        BY PubsubAt, SMTT(30)
    <3> QED
        BY <2>1, <3>1, ZenonT(60)
  <2>3. c \in Conn /\ (AllowedAt(p, g, n)' <=> al)
      BY <2>1, Connection, Zenon DEF AllowedAt
  <2>4. c.tx = "auth"
      BY <2>1, <2>2, <2>3, AnnounceOn, ZenonT(60), Zenon DEF Authenticated
  <2>5. handles[g][k][n] # {} => Informed(c, k, n, al)
      BY <2>1, <2>4, Zenon DEF Served, InformedAll, Authenticated
  <2>6. Informed(conn'[g][p][s], k, n, al)
    <3>1. CASE g = h
      <4>1. send[k][n] = <<TRUE>> \/ (send[k][n] = <<>> /\ Informed(c, k, n, al))
          BY <2>5, <3>1, Zenon
      <4> HIDE DEF c, al
      <4>2. Informed(Announce(c, send), k, n, al)
          BY <2>3, <4>1, AnnounceInforms, Zenon
      <4> QED
          BY <2>2, <2>4, <3>1, <4>2, Zenon
    <3>2. CASE g # h
        BY <2>2, <2>5, <3>2, ZenonT(60), Zenon
    <3> QED
        BY <3>1, <3>2, ZenonT(60), Zenon
  <2> HIDE DEF al
  <2> QED
      BY <2>1, <2>3, <2>6, Zenon DEF Informed
<1> QED
    BY <1>1, <1>2, Zenon DEF Served

LEMMA ClientPubsubServed ==
    ASSUME Inv, Inv', Served, NEW h \in Host, NEW c \in Client, NEW kind \in Kind, NEW name \in Name,
           client_pubsub(h, c, kind, name)
    PROVE  Served'
<1> DEFINE send == Added(kind, name)
           first == handles[h][kind][name] = {} \/ kind = "publish"
<1>1. /\ IF first THEN pubsub_set(h, send) ELSE conn' = conn
      /\ handles' = [handles EXCEPT ![h][kind][name] = @ \cup {c}]
      /\ known' = [known EXCEPT ![h][kind] = @ \cup {name}]
      /\ UNCHANGED <<remote, open, peers, timer, tx, rx>>
    BY PubsubIs, Zenon
<1>2. /\ handles \in [Host -> [Kind -> [Name -> SUBSET Client]]]
      /\ known \in [Host -> [Kind -> SUBSET Name]]
    BY ZenonT(60), Zenon DEF Inv, TypeOK
<1>3. \A g \in Host, k \in Kind, n \in Name :
          /\ ~(g = h /\ k = kind /\ n = name) => handles'[g][k][n] = handles[g][k][n]
          /\ n \in known[g][k] \/ (g = h /\ k = kind /\ n = name) => n \in known'[g][k]
    BY <1>1, <1>2, SMTT(30)
<1>4. Entries'
    BY <1>3, Zenon DEF Served, Entries
<1>5. CASE first
  <2>1. send \in [Kind -> [Name -> Seq(BOOLEAN)]]
      BY ClientSends, Zenon
  <2>2. \A k \in Kind, n \in Name : send[k][n] = IF k = kind /\ n = name THEN <<TRUE>> ELSE <<>>
      BY Zenon DEF Added
  <2> HIDE DEF send
  <2>3. pubsub_set(h, send) /\ UNCHANGED <<remote, peers, tx, rx>>
      BY <1>1, <1>5, Zenon
  <2>4. \A g \in Host, k \in Kind, n \in Name :
            handles'[g][k][n] # {} => \/ g = h /\ send[k][n] = <<TRUE>>
                                      \/ handles[g][k][n] # {} /\ (g = h => send[k][n] = <<>>)
    <3> SUFFICES ASSUME NEW g \in Host, NEW k \in Kind, NEW n \in Name, handles'[g][k][n] # {}
                 PROVE  \/ g = h /\ send[k][n] = <<TRUE>>
                        \/ handles[g][k][n] # {} /\ (g = h => send[k][n] = <<>>)
        BY Zenon
    <3>1. CASE g = h /\ k = kind /\ n = name
        BY <2>2, <3>1, Zenon
    <3>2. CASE ~(g = h /\ k = kind /\ n = name)
      <4>1. handles[g][k][n] # {}
          BY <1>3, <3>2
      <4>2. g = h => send[k][n] = <<>>
          BY <2>2, <3>2, Zenon
      <4> QED
          BY <4>1, <4>2, ZenonT(60), Zenon
    <3> QED
        BY <3>1, <3>2, Zenon
  <2> QED
      BY <1>4, <2>1, <2>3, <2>4, ClientServed, ZenonT(60), Zenon
<1>6. CASE ~first
  <2>1. conn' = conn
      BY <1>1, <1>6, Zenon
  <2>2. Quiet
    <3>1. \A a, b \in Host, s \in Slot : Kept(conn[a][b][s], conn[a][b][s])
        BY KeptOf, Connection, Zenon
    <3> QED
        BY <1>1, <2>1, <3>1, Zenon DEF Quiet
  <2>3. ListsKept
      BY <1>1, Zenon DEF Served, Members, ListsKept
  <2>4. ClientsKept
      BY <1>3, <1>4, <1>6 DEF Entries, ClientsKept
  <2> QED
      BY <2>2, <2>3, <2>4, ServedQuiet, Zenon
<1> QED
    BY <1>5, <1>6, Zenon

LEMMA ClientDisconnectServed ==
    ASSUME Inv, Inv', Served, NEW h \in Host, NEW c \in Client, client_disconnect(h, c)
    PROVE  Served'
<1> DEFINE send == Removed(h, c)
<1>1. /\ pubsub_set(h, send) /\ handles' = [handles EXCEPT ![h] = Left(h, c)]
      /\ UNCHANGED <<known, remote, peers, tx, rx>>
    BY DisconnectIs, Zenon
<1>2. PICK k0 \in Kind, n0 \in Name : TRUE
    BY Zenon DEF client_disconnect
<1>3. send \in [Kind -> [Name -> Seq(BOOLEAN)]]
    BY <1>2, ClientSends, Zenon
<1>4. \A g \in Host, k \in Kind, n \in Name :
          handles'[g][k][n] = IF g = h THEN handles[g][k][n] \ {c} ELSE handles[g][k][n]
  <2>1. handles \in [Host -> [Kind -> [Name -> SUBSET Client]]]
      BY Zenon DEF Inv, TypeOK
  <2> QED
      BY <1>1, <2>1, Zenon DEF Left
<1>5. ASSUME NEW k \in Kind, NEW n \in Name, handles'[h][k][n] # {}
      PROVE  send[k][n] = <<TRUE>> \/ (handles[h][k][n] # {} /\ send[k][n] = <<>>)
  <2>1. Left(h, c)[k][n] # {} /\ handles[h][k][n] # {}
    <3>1. handles[h][k][n] \ {c} # {}
        BY <1>4, <1>5, Zenon
    <3>2. Left(h, c)[k][n] = handles[h][k][n] \ {c}
        BY Zenon DEF Left
    <3> QED
        BY <3>1, <3>2, Zenon
  <2>2. (Left(h, c)[k][n] # {}) = TRUE
      BY <2>1, Zenon
  <2>3. send[k][n] = IF c \in handles[h][k][n] /\ (Left(h, c)[k][n] = {} \/ k = "publish")
                     THEN <<Left(h, c)[k][n] # {}>> ELSE <<>>
      BY Zenon DEF Removed
  <2>4. <<Left(h, c)[k][n] # {}>> = <<TRUE>>
      BY <2>2, Zenon
  <2> HIDE DEF send
  <2> QED
      BY <2>1, <2>3, <2>4, ZenonT(60), Zenon
<1> HIDE DEF send
<1>6. \A g \in Host, k \in Kind, n \in Name :
          handles'[g][k][n] # {} => \/ g = h /\ send[k][n] = <<TRUE>>
                                    \/ handles[g][k][n] # {} /\ (g = h => send[k][n] = <<>>)
  <2> SUFFICES ASSUME NEW g \in Host, NEW k \in Kind, NEW n \in Name, handles'[g][k][n] # {}
               PROVE  \/ g = h /\ send[k][n] = <<TRUE>>
                      \/ handles[g][k][n] # {} /\ (g = h => send[k][n] = <<>>)
      BY ZenonT(60), Zenon
  <2>1. CASE g = h
      BY <1>5, <2>1, Zenon
  <2>2. CASE g # h
      BY <1>4, <2>2, Zenon
  <2> QED
      BY <2>1, <2>2, Zenon
<1>7. Entries'
  <2>1. \A g \in Host, k \in Kind, n \in Name : handles'[g][k][n] # {} => handles[g][k][n] # {}
    <3> SUFFICES ASSUME NEW g \in Host, NEW k \in Kind, NEW n \in Name, NEW x \in handles'[g][k][n]
                 PROVE  x \in handles[g][k][n]
        BY Zenon
    <3> QED
        BY <1>4, Zenon
  <2>2. known' = known
      BY <1>1, Zenon
  <2> QED
      BY <2>1, <2>2, Zenon DEF Served, Entries
<1> QED
    BY <1>1, <1>3, <1>6, <1>7, ClientServed, ZenonT(60), Zenon

LEMMA AuthDataServed ==
    ASSUME Inv, Inv', Served, NEW h \in Host, NEW p \in Host, NEW s \in Slot, auth_data_cb(h, p, s)
    PROVE  Served'
<1> DEFINE b == [conn[h][p][s] EXCEPT !.tx = "auth", !.msg = "none"]
           send == [k \in Kind |-> [n \in Name |-> IF n \in known[h][k] THEN <<TRUE>> ELSE <<>>]]
           d == Announce(b, send)
<1>1. conn' = [conn EXCEPT ![h][p][s] = d]
    BY ZenonT(60), Zenon DEF auth_data_cb
<1>2. UNCHANGED <<handles, known, remote, peers, tx, rx>>
    BY Zenon DEF auth_data_cb
<1>3. b \in Conn
  <2>1. conn[h][p][s] \in Conn
      BY Connection, Zenon
  <2> QED
      BY <2>1, Zenon DEF Conn
<1>4. send \in [Kind -> [Name -> Seq(BOOLEAN)]] /\ \A k \in Kind, n \in Name : n \in known[h][k] => send[k][n] = <<TRUE>>
    BY KnownNames, Zenon
<1> HIDE DEF b, send
<1>5. ASSUME NEW k \in Kind, NEW n \in Name, NEW al, n \in known[h][k]
      PROVE  Informed(d, k, n, al)
    BY <1>3, <1>4, <1>5, AnnounceInforms, ZenonT(60), Zenon
<1> HIDE DEF d
<1>6. \A x, y \in Host, z \in Slot : conn'[x][y][z] = IF x = h /\ y = p /\ z = s THEN d ELSE conn[x][y][z]
  <2>1. conn \in Table
      BY ZenonT(60), Zenon DEF Inv, TypeOK, Table
  <2>2. d \in Conn
      BY <1>3, <1>4, AnnounceOn, Zenon DEF d
  <2>3. Becomes(h, p, s, d)
      BY <1>1, Zenon DEF Becomes
  <2> QED
      BY <2>1, <2>2, <2>3, OneChanged
<1>7. Members' /\ Entries' /\ OnlyAllowed'
    BY <1>2, Zenon DEF Served, Members, Entries, OnlyAllowed
<1>8. InformedAll'
  <2> SUFFICES ASSUME NEW g \in Host, NEW q \in Host, NEW k \in Kind, NEW n \in Name,
                      Authenticated(g, q)', handles'[g][k][n] # {}
               PROVE  Informed(conn[g][q][tx[g][q]], k, n, AllowedAt(q, g, n))'
      BY ZenonT(60), Zenon DEF InformedAll
  <2> DEFINE z == tx[g][q]
             al == AllowedAt(q, g, n)
  <2>1. tx'[g][q] = z /\ z \in Slot /\ z # 0 /\ conn'[g][q][z].tx = "auth"
      BY <1>2, AuthenticatedOn, Zenon
  <2>2. AllowedAt(q, g, n)' <=> al
      BY <1>2, Zenon DEF AllowedAt
  <2>3. Informed(conn'[g][q][z], k, n, al)
    <3>1. CASE g = h /\ q = p /\ z = s
      <4>1. n \in known[h][k]
          BY <1>2, <3>1, Zenon DEF Served, Entries
      <4>2. conn'[g][q][z] = d
          BY <1>6, <2>1, <3>1, Zenon
      <4> QED
          BY <1>5, <4>1, <4>2, Zenon
    <3>2. CASE ~(g = h /\ q = p /\ z = s)
      <4>1. conn'[g][q][z] = conn[g][q][z]
          BY <1>6, <2>1, <3>2, Zenon
      <4>2. Authenticated(g, q)
          BY <2>1, <4>1, Zenon DEF Authenticated
      <4> QED
          BY <1>2, <4>1, <4>2, Zenon DEF Served, InformedAll
    <3> QED
        BY <3>1, <3>2, Zenon
  <2> HIDE DEF al
  <2> QED
      BY <2>1, <2>2, <2>3, Zenon DEF Informed
<1> QED
    BY <1>7, <1>8, Zenon DEF Served

\* The next announcement of a name is read: it is the last one, or the last one
\* is still to come.
LEMMA ReadsOn ==
    ASSUME NEW q \in Seq(BOOLEAN), q # <<>>, q[Len(q)]
    PROVE  IF Tail(q) = <<>> THEN Head(q) ELSE Tail(q)[Len(Tail(q))]
<1>1. Len(q) \in Nat /\ Len(q) > 0 /\ Tail(q) \in Seq(BOOLEAN) /\ Len(Tail(q)) = Len(q) - 1
      /\ \A i \in 1 .. Len(Tail(q)) : Tail(q)[i] = q[i + 1]
    OBVIOUS
<1>2. CASE Tail(q) = <<>>
  <2> DEFINE t == Tail(q)
             l == Len(q)
             m == Len(t)
  <2>1. t = <<>> /\ l \in Nat /\ m = l - 1
      BY <1>1, <1>2, Zenon
  <2>2. Head(q) = q[1]
      OBVIOUS
  <2> HIDE DEF t, l
  <2>3. m = 0
      BY <2>1, Zenon
  <2> HIDE DEF m
  <2>4. l = 1
      BY <2>1, <2>3
  <2> QED
      BY <1>2, <2>2, <2>4, ZenonT(60), Zenon DEF l
<1>3. CASE Tail(q) # <<>>
  <2> DEFINE t == Tail(q)
             m == Len(t)
  <2>1. m \in Nat /\ m # 0 /\ m + 1 = Len(q)
      BY <1>1, <1>3
  <2>2. \A i \in 1 .. m : t[i] = q[i + 1]
      BY <1>1, Zenon
  <2> HIDE DEF m
  <2>3. t[m] = q[m + 1]
      BY <2>1, <2>2
  <2>4. t[Len(t)]
      BY <2>1, <2>3, Zenon DEF m
  <2> QED
      BY <1>3, <2>4, Zenon
<1> QED
    BY <1>2, <1>3, Zenon

LEMMA HandleRequestServed ==
    ASSUME Inv, Inv', Served, NEW h \in Host, NEW p \in Host, NEW s \in Slot, NEW kind \in Kind, NEW name \in Name,
           network_socket_handle_request(h, p, s, kind, name)
    PROVE  Served'
<1> DEFINE c == conn[p][h][s]
<1>1. PICK d \in Conn, adds \in BOOLEAN, removes \in BOOLEAN : Registers(h, p, s, kind, name, d, adds, removes)
    BY Announced, Zenon
<1>2. /\ conn' = [conn EXCEPT ![p][h][s] = d] /\ d.tx = c.tx /\ d.rx = c.rx
      /\ c.sent[kind][name] # <<>> /\ d.sent = [c.sent EXCEPT ![kind][name] = Tail(@)]
    BY <1>1, Zenon DEF Registers
<1>3. /\ adds <=> /\ Head(c.sent[kind][name]) /\ name \notin c.list[kind]
                  /\ p \in DOMAIN peers[h] /\ name \in peers[h][p].names
      /\ removes <=> ~Head(c.sent[kind][name]) /\ name \in c.list[kind]
    BY <1>1, Zenon DEF Registers
<1>4. \A k \in Kind, n \in Name :
          n \in d.list[k] <=> IF k = kind /\ n = name THEN adds \/ (n \in c.list[k] /\ ~removes)
                              ELSE n \in c.list[k]
    BY <1>1, Zenon DEF Registers
<1>5. \A g, q \in Host, k \in Kind, n \in Name :
          q \in remote'[g][k][n] <=>
              IF g = h /\ q = p /\ k = kind /\ n = name THEN adds \/ (q \in remote[g][k][n] /\ ~removes)
              ELSE q \in remote[g][k][n]
    BY <1>1, Zenon DEF Registers
<1>6. UNCHANGED <<handles, known, peers, tx, rx>>
    BY ZenonT(60), Zenon DEF network_socket_handle_request
<1>7. Members' /\ Entries'
    BY <1>6, Zenon DEF Served, Members, Entries
<1>8. OnlyAllowed'
  <2> SUFFICES ASSUME NEW g \in Host, NEW q \in Host, NEW k \in Kind, NEW n \in Name, q \in remote'[g][k][n]
               PROVE  q \in DOMAIN peers[g] /\ n \in peers[g][q].names
      BY <1>6, Zenon DEF OnlyAllowed
  <2>1. CASE q \in remote[g][k][n]
      BY <2>1, Zenon DEF Served, OnlyAllowed
  <2>2. CASE q \notin remote[g][k][n]
    <3>1. g = h /\ q = p /\ k = kind /\ n = name /\ adds
        BY <1>5, <2>2, Zenon
    <3> QED
        BY <1>3, <3>1, ZenonT(60), Zenon
  <2> QED
      BY <2>1, <2>2, Zenon
<1>9. c \in Conn /\ c.sent[kind][name] \in Seq(BOOLEAN) /\ c.sent \in [Kind -> [Name -> Seq(BOOLEAN)]]
  <2>1. c \in Conn
      BY Connection, Zenon
  <2> QED
      BY <2>1, Zenon DEF Conn
<1>10. ASSUME NEW k \in Kind, NEW n \in Name, Informed(c, k, n, AllowedAt(h, p, n))
       PROVE  Informed(d, k, n, AllowedAt(h, p, n))
  <2> SUFFICES ASSUME c.rx # "closed"
               PROVE  Informed(d, k, n, AllowedAt(h, p, n))
      BY <1>2, Zenon DEF Informed
  <2>1. CASE ~(k = kind /\ n = name)
    <3>1. d.sent[k][n] = c.sent[k][n] /\ (n \in d.list[k] <=> n \in c.list[k])
      <4>1. d.sent[k][n] = c.sent[k][n]
        <5> DEFINE f == c.sent
                   t == Tail(f[kind][name])
        <5>1. d.sent = [f EXCEPT ![kind][name] = t] /\ f \in [Kind -> [Name -> Seq(BOOLEAN)]]
            BY <1>2, <1>9, ZenonT(60), Zenon
        <5> HIDE DEF f, t
        <5>2. d.sent[k][n] = f[k][n]
            BY <2>1, <5>1, SMTT(30)
        <5> QED
            BY <5>2, Zenon DEF f
      <4>2. n \in d.list[k] <=> n \in c.list[k]
          BY <1>4, <2>1, Zenon
      <4> QED
          BY <4>1, <4>2, Zenon
    <3> QED
        BY <1>10, <3>1, ZenonT(60), Zenon DEF Informed
  <2>2. CASE k = kind /\ n = name
    <3> DEFINE q == c.sent[k][n]
    <3>1. d.sent[k][n] = Tail(q) /\ q \in Seq(BOOLEAN) /\ q # <<>>
        BY <1>2, <1>9, <2>2, ZenonT(60)
    <3>2. q[Len(q)]
        BY <1>10, <3>1, Zenon DEF Informed
    <3>3. IF Tail(q) = <<>> THEN Head(q) ELSE Tail(q)[Len(Tail(q))]
        BY <3>1, <3>2, ReadsOn, Zenon
    <3>4. Head(q) => n \in d.list[k] \/ ~AllowedAt(h, p, n)
        BY <1>3, <1>4, <2>2, ZenonT(60), Zenon DEF AllowedAt
    <3> HIDE DEF q
    <3> QED
        BY <3>1, <3>3, <3>4, Zenon DEF Informed
  <2> QED
      BY <2>1, <2>2, Zenon
<1>11. \A x, y \in Host, z \in Slot : conn'[x][y][z] = IF x = p /\ y = h /\ z = s THEN d ELSE conn[x][y][z]
  <2>1. conn \in Table
      BY Zenon DEF Inv, TypeOK, Table
  <2>2. Becomes(p, h, s, d) /\ d \in Conn
      BY <1>2, Zenon DEF Becomes
  <2> QED
      BY <2>1, <2>2, OneChanged, SMTT(30)
<1>12. InformedAll'
  <2> SUFFICES ASSUME NEW g \in Host, NEW q \in Host, NEW k \in Kind, NEW n \in Name,
                      Authenticated(g, q)', handles'[g][k][n] # {}
               PROVE  Informed(conn[g][q][tx[g][q]], k, n, AllowedAt(q, g, n))'
      BY ZenonT(60), Zenon DEF InformedAll
  <2> DEFINE z == tx[g][q]
             al == AllowedAt(q, g, n)
  <2>1. tx'[g][q] = z /\ z \in Slot /\ z # 0 /\ conn'[g][q][z].tx = "auth"
      BY <1>6, AuthenticatedOn, Zenon
  <2>2. AllowedAt(q, g, n)' <=> al
      BY <1>6, Zenon DEF AllowedAt
  <2>3. conn[g][q][z].tx = "auth"
    <3> HIDE DEF z
    <3>1. conn'[g][q][z] = IF g = p /\ q = h /\ z = s THEN d ELSE conn[g][q][z]
        BY <1>11, <2>1, SMTT(30)
    <3>2. d.tx = c.tx
        BY <1>2, Zenon
    <3> QED
        BY <2>1, <3>1, <3>2, Zenon
  <2>4. Informed(conn[g][q][z], k, n, al)
      BY <1>6, <2>1, <2>3, Zenon DEF Served, InformedAll, Authenticated
  <2>5. Informed(conn'[g][q][z], k, n, al)
    <3>1. CASE g = p /\ q = h /\ z = s
      <4>1. conn'[g][q][z] = d /\ conn[g][q][z] = c
          BY <1>11, <2>1, <3>1, Zenon
      <4> QED
          BY <1>10, <2>4, <3>1, <4>1, Zenon
    <3>2. CASE ~(g = p /\ q = h /\ z = s)
      <4>1. conn'[g][q][z] = conn[g][q][z]
          BY <1>11, <2>1, <3>2, Zenon
      <4> QED
          BY <2>4, <4>1, Zenon
    <3> QED
        BY <3>1, <3>2, ZenonT(60), Zenon
  <2> HIDE DEF al
  <2> QED
      BY <2>1, <2>2, <2>5, Zenon DEF Informed
<1> QED
    BY <1>7, <1>8, <1>12, Zenon DEF Served

LEMMA ServedInit == Init => Served
<1> SUFFICES ASSUME Init PROVE Served
    BY Zenon
<1>1. Members /\ Entries /\ OnlyAllowed
    BY Zenon DEF Init, Members, Entries, OnlyAllowed
<1>2. InformedAll
    BY Zenon DEF Init, InformedAll, Authenticated
<1> QED
    BY <1>1, <1>2, Zenon DEF Served

LEMMA ServedNext ==
    ASSUME Limited = {TRUE}
    PROVE  Inv /\ Inv' /\ Served /\ [Next]_vars => Served'
<1> SUFFICES ASSUME Inv, Inv', Served, [Next]_vars
             PROVE  Served'
    BY Zenon
<1>1. CASE UNCHANGED vars
    BY <1>1 DEF vars, Served, Members, Entries, OnlyAllowed, InformedAll, Authenticated, AllowedAt
<1>2. ASSUME NEW h \in Host, Step(h)
      PROVE  Served'
  <2>1. CASE ClientStep(h)
      BY <2>1, ClientPubsubServed, ClientDisconnectServed, Zenon DEF ClientStep
  <2>2. CASE (\E P \in Peers(h) : network_open(h, P)) \/ network_connect_peers(h, {})
      BY <2>2, OpenServed, ConnectServed, Zenon
  <2>3. ASSUME NEW p \in Host, NEW s \in Slot, Handshake(h, p, s)
        PROVE  Served'
    <3>1. TRUE \in BOOLEAN
        BY Zenon
    <3>2. CASE auth_data_cb(h, p, s)
        BY <3>2, AuthDataServed, Zenon
    <3>3. CASE ~auth_data_cb(h, p, s)
        BY <2>3, <3>1, <3>3, ConnectionServed, Zenon DEF Handshake
    <3> QED
        BY <3>2, <3>3, Zenon
  <2>4. ASSUME NEW p \in Host, NEW s \in Slot, Announcement(h, p, s)
        PROVE  Served'
      BY <2>4, HandleRequestServed, Zenon DEF Announcement
  <2> QED
      BY <1>2, <2>1, <2>2, <2>3, <2>4, Zenon DEF Step
<1>3. ASSUME NEW h \in Host, Fault(h)
      PROVE  Served'
  <2>1. CASE \E P \in Peers(h) : network_update(h, P)
      BY <2>1, UpdateServed, Zenon
  <2>2. CASE network_close(h) \/ Restart(h)
      BY <2>2, GoneServed, Zenon
  <2>3. CASE \E p \in Host : network_connect_peers(h, {p})
      BY <2>3, ConnectServed, Zenon
  <2>4. ASSUME NEW p \in Host, NEW s \in Slot, Failure(h, p, s)
        PROVE  Served'
    <3>1. TRUE \in BOOLEAN /\ FALSE \in BOOLEAN
        BY Zenon
    <3> QED
        BY <2>4, <3>1, ConnectionServed, Zenon DEF Failure
  <2> QED
      BY <1>3, <2>1, <2>2, <2>3, <2>4, Zenon DEF Fault
<1> QED
    BY <1>1, <1>2, <1>3, Zenon DEF Next

\* Where every report has a unetmsg service, core.remote_publish and
\* core.remote_subscribe never name a host for something that its list of now
\* does not allow: network_update drops what the new lists do not cover.
THEOREM RegistrationsAllowed ==
    ASSUME Limited = {TRUE}
    PROVE  Spec => []OnlyAllowed
<1>1. Served => OnlyAllowed
    BY ServedGives, Zenon
<1> QED
    BY <1>1, Always, ServedInit, ServedNext, PTL DEF Spec

\* Where every report has a unetmsg service, no order of client requests,
\* handshakes, lost connections, reports and restarts leaves an authenticated
\* connection over which a name in use was neither announced nor refused.
THEOREM AnnouncementsReach ==
    ASSUME Limited = {TRUE}
    PROVE  Spec => []NoAnnouncementLost
<1>1. Served => NoAnnouncementLost
    BY ServedGives, Zenon
<1> QED
    BY <1>1, Always, ServedInit, ServedNext, PTL DEF Spec
=============================================================================
