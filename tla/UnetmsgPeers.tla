---------------------------- MODULE UnetmsgPeers ----------------------------
(***************************************************************************)
(* The unetmsg daemons of a network: unetmsgd.uc, unetmsgd-client.uc and   *)
(* unetmsgd-remote.uc.  Every daemon connects to each of its peers, proves *)
(* who it is, and then tells the peer over that connection which names its *)
(* clients publish and subscribe to.                                       *)
(*                                                                         *)
(* A daemon is single threaded: each of its callbacks is one action.       *)
(* Connections are TCP: what is sent arrives in order, or the connection   *)
(* breaks.  Messages about different names do not depend on each other, so *)
(* only the order of those about the same name is kept.                    *)
(***************************************************************************)
EXTENDS Naturals, Sequences

CONSTANTS
    Host,        \* hosts of the network
    Kind,        \* "publish", and "subscribe" where it is of interest
    Name,        \* names that clients publish or subscribe to
    Client,      \* clients a daemon can have
    Limited,     \* whether the reports have a unetmsg service: TRUE, FALSE or both
    Lists,       \* sets of names that the allowed lists can match
    Slot,        \* connections that can exist from one host to another
    Uses,        \* the <<kind, name>> pairs of the clients of each host
    MaxSent,     \* bound on announcements in flight, per name
    MaxFaults    \* bound on disturbances: failures, losses, reports, restarts

ASSUME KindAssumption == "publish" \in Kind /\ Kind \subseteq {"publish", "subscribe"}
ASSUME SlotAssumption == Slot \subseteq Nat \ {0}
ASSUME ListsAssumption == Lists \subseteq SUBSET Name
ASSUME LimitedAssumption == Limited \subseteq BOOLEAN /\ Limited # {}
ASSUME BoundsAssumption == MaxSent \in Nat /\ MaxFaults \in Nat

VARIABLES
    handles,     \* core.publish and core.subscribe: the clients of each name
    known,       \* the names that have an entry there, empty ones included
    remote,      \* core.remote_publish and core.remote_subscribe
    open,        \* networks[] has the network
    peers,       \* net.peers: the allowed names of each peer
    timer,       \* net.timer is armed
    tx,          \* net.tx_channels: the connection to each peer, 0 for none
    rx,          \* net.rx_channels: the connection from each peer, 0 for none
    conn,        \* connections by initiator, acceptor and slot
    faults,      \* disturbances so far
    notified     \* names of the last callback's handle_publish calls

vars == <<handles, known, remote, open, peers, timer, tx, rx, conn, faults, notified>>

(***************************************************************************)
(* State.                                                                  *)
(***************************************************************************)

\* The two ends of a connection, the handshake message in flight, the names
\* the acceptor has registered (publish and subscribe of its sock_data), and
\* the announcements in flight, TRUE for enabled.
Conn == [tx: {"closed", "open", "waiting", "auth"},
         rx: {"closed", "backlog", "open", "auth"},
         msg: {"none", "hello", "auth", "token"},
         list: [Kind -> SUBSET Name],
         sent: [Kind -> [Name -> Seq(BOOLEAN)]]]

NoList == [k \in Kind |-> {}]

NoneSent == [k \in Kind |-> [n \in Name |-> <<>>]]

NoConn == [tx |-> "closed", rx |-> "closed", msg |-> "none",
           list |-> NoList, sent |-> NoneSent]

\* The allowed list of a peer: none, or one that matches some names.
Allowed(limited) == [limited: {limited}, names: IF limited THEN Lists ELSE {Name}]

\* What unetd_network_check_peers makes of a report: without a service of type
\* unetmsg no peer has a list; with one, the peers that share a service with h
\* have the list of what these services allow.
Peers(h) == UNION {[S -> Allowed(l)] : S \in SUBSET (Host \ {h}), l \in Limited}

NoPeers == [p \in {} |-> {}]

Authenticated(h, p) == tx[h][p] # 0 /\ conn[h][p][tx[h][p]].tx = "auth"

(***************************************************************************)
(* Parts of the callbacks.                                                 *)
(***************************************************************************)

\* network_socket_close at one end.  What the closed end would have received
\* is lost; the other end still reads what is on its way.
CloseTx(c) == IF c.rx = "closed" THEN NoConn
              ELSE [c EXCEPT !.tx = "closed", !.msg = IF @ = "auth" THEN @ ELSE "none"]

CloseRx(c) == IF c.tx = "closed" THEN NoConn
              ELSE [c EXCEPT !.rx = "closed", !.msg = IF @ = "auth" THEN "none" ELSE @,
                             !.list = NoList, !.sent = NoneSent]

\* network_tx_socket_close for the channels of h to the hosts T and
\* network_rx_socket_close for those from the hosts R.
CloseChannels(h, T, R) ==
    [a \in Host |-> [b \in Host |-> [s \in Slot |->
        CASE a = h /\ b \in T /\ tx[h][b] = s -> CloseTx(conn[a][b][s])
          [] b = h /\ a \in R /\ rx[h][a] = s -> CloseRx(conn[a][b][s])
          [] OTHER -> conn[a][b][s]]]]

\* Mutant: the slot of a closed channel is gone, not empty.
Without_Drops(f, h, S) == [f EXCEPT ![h] = [p \in Host \ S |-> @[p]]]

Without(f, h, S) == [f EXCEPT ![h] = [p \in Host |-> IF p \in S THEN 0 ELSE @[p]]]

Closed(h, R) == {p \in R : rx[h][p] # 0}

\* network_rx_cleanup_state for the hosts R, and the names it notifies.
network_rx_cleanup_state(h, R) ==
    [remote EXCEPT ![h] = [k \in Kind |-> [n \in Name |-> @[k][n] \ R]]]

Lost(h, R) == {n \in Name : remote[h]["publish"][n] \cap R # {}}

handle_publish(h, N) == notified' = [g \in Host |-> IF g = h THEN N ELSE {}]

\* Announcements that are written to a connection.
Announce(c, send) ==
    IF c.rx = "closed" THEN c
    ELSE [c EXCEPT !.sent = [k \in Kind |-> [n \in Name |-> @[k][n] \o send[k][n]]]]

\* pubsub_set: to every peer whose outgoing connection is authenticated.
pubsub_set(h, send) ==
    conn' = [conn EXCEPT ![h] = [p \in Host |-> [s \in Slot |->
                IF s = tx[h][p] /\ @[p][s].tx = "auth"
                THEN Announce(@[p][s], send) ELSE @[p][s]]]]

\* Closing everything of h at once: network_close.
CloseAll(h) ==
    /\ conn' = [a \in Host |-> [b \in Host |-> [s \in Slot |->
                  LET c == conn[a][b][s]
                  IN  CASE a = h /\ tx[h][b] = s -> CloseTx(c)
                        [] b = h /\ (rx[h][a] = s \/ c.rx = "backlog") -> CloseRx(c)
                        [] OTHER -> c]]]
    /\ tx' = Without(tx, h, Host)
    /\ rx' = Without(rx, h, Host)
    /\ remote' = network_rx_cleanup_state(h, Closed(h, Host))
    /\ handle_publish(h, Lost(h, Closed(h, Host)))

(***************************************************************************)
(* Actions: clients of a daemon.                                           *)
(***************************************************************************)

Room(h) == \A p \in Host, s \in Slot, k \in Kind, n \in Name :
               Len(conn[h][p][s].sent[k][n]) < MaxSent

\* client_pubsub for one name; one for several is several in a row.
client_pubsub(h, c, kind, name) ==
    /\ Room(h)
    /\ <<kind, name>> \in Uses[h]
    /\ c \notin handles[h][kind][name]
    /\ IF handles[h][kind][name] = {} \/ kind = "publish"
       THEN pubsub_set(h, [k \in Kind |-> [n \in Name |->
                              IF k = kind /\ n = name THEN <<TRUE>> ELSE <<>>]])
       ELSE UNCHANGED conn
    /\ handles' = [handles EXCEPT ![h][kind][name] = @ \cup {c}]
    /\ known' = [known EXCEPT ![h][kind] = @ \cup {name}]
    /\ handle_publish(h, IF kind = "publish" THEN {name} ELSE {})
    /\ UNCHANGED <<remote, open, peers, timer, tx, rx>>

client_disconnect(h, c) ==
    LET left == [k \in Kind |-> [n \in Name |-> handles[h][k][n] \ {c}]]
        had(k, n) == c \in handles[h][k][n]
    IN  /\ Room(h)
        /\ \E k \in Kind, n \in Name : had(k, n)
        /\ handles' = [handles EXCEPT ![h] = left]
        /\ pubsub_set(h, [k \in Kind |-> [n \in Name |->
                             IF had(k, n) /\ (left[k][n] = {} \/ k = "publish")
                             THEN <<left[k][n] # {}>> ELSE <<>>]])
        /\ handle_publish(h, {n \in Name : had("publish", n)})
        /\ UNCHANGED <<known, remote, open, peers, timer, tx, rx>>

(***************************************************************************)
(* Actions: the connecting side.                                           *)
(***************************************************************************)

\* The timer of network_connect_peers: every peer without an authenticated
\* connection gets a new one, except those whose socket fails.
network_connect_peers(h, fails) ==
    LET pending == {p \in DOMAIN peers[h] : ~Authenticated(h, p)}
        others  == Host \ DOMAIN peers[h]
        closed  == CloseChannels(h, pending \cup others, others)
        Free(p) == {s \in Slot : closed[h][p][s] = NoConn}
        new     == [p \in pending |-> IF p \in fails THEN 0 ELSE CHOOSE s \in Free(p) : TRUE]
    IN  /\ timer[h]
        /\ \A p \in pending \ fails : Free(p) # {}
        /\ conn' = [closed EXCEPT ![h] = [p \in Host |-> [s \in Slot |->
                       IF p \in pending /\ s = new[p]
                       THEN [NoConn EXCEPT !.tx = "open", !.rx = "backlog"]
                       ELSE @[p][s]]]]
        /\ tx' = [tx EXCEPT ![h] = [p \in Host |->
                       CASE p \in pending -> new[p]
                         [] p \in others -> 0
                         [] OTHER -> @[p]]]
        /\ rx' = Without(rx, h, others)
        /\ remote' = network_rx_cleanup_state(h, Closed(h, others))
        /\ handle_publish(h, Lost(h, Closed(h, others)))
        /\ timer' = [timer EXCEPT ![h] = pending # {}]
        /\ UNCHANGED <<handles, known, open, peers>>

\* network_tx_socket_close of one channel that is open.
network_tx_socket_close(h, p, s) ==
    /\ conn' = [conn EXCEPT ![h][p][s] = CloseTx(@)]
    /\ tx' = [tx EXCEPT ![h][p] = IF @ = s THEN 0 ELSE @]

\* The hello of the peer arrives; ok: unetd has a token for it.
RecvHello(h, p, s, ok) ==
    /\ conn[h][p][s].msg = "hello"
    /\ conn[h][p][s].tx = "open"
    /\ IF ok
       THEN /\ conn' = [conn EXCEPT ![h][p][s] =
                          [@ EXCEPT !.tx = "waiting",
                                    !.msg = IF conn[h][p][s].rx = "closed" THEN "none" ELSE "auth"]]
            /\ UNCHANGED tx
       ELSE network_tx_socket_close(h, p, s)
    /\ handle_publish(h, {})
    /\ UNCHANGED <<handles, known, remote, open, peers, timer, rx>>

\* Mutant: the names the daemon already has are not announced.
auth_data_cb_Silent(h, p, s) ==
    /\ conn[h][p][s].msg = "token"
    /\ conn[h][p][s].tx = "waiting"
    /\ conn' = [conn EXCEPT ![h][p][s] = [@ EXCEPT !.tx = "auth", !.msg = "none"]]
    /\ handle_publish(h, IF rx[h][p] = 0 THEN {} ELSE conn[p][h][rx[h][p]].list["publish"])
    /\ UNCHANGED <<handles, known, remote, open, peers, timer, tx, rx>>

\* Mutant: subscribers are not told of what the peer had announced before.
auth_data_cb_Untold(h, p, s) ==
    /\ conn[h][p][s].msg = "token"
    /\ conn[h][p][s].tx = "waiting"
    /\ conn' = [conn EXCEPT ![h][p][s] =
                  Announce([@ EXCEPT !.tx = "auth", !.msg = "none"],
                           [k \in Kind |-> [n \in Name |->
                               IF n \in known[h][k] THEN <<TRUE>> ELSE <<>>]])]
    /\ handle_publish(h, {})
    /\ UNCHANGED <<handles, known, remote, open, peers, timer, tx, rx>>

\* auth_data_cb: the peer's token is valid.  All known names are announced,
\* and what the peer publishes can be reached from now on.
auth_data_cb(h, p, s) ==
    /\ conn[h][p][s].msg = "token"
    /\ conn[h][p][s].tx = "waiting"
    /\ conn' = [conn EXCEPT ![h][p][s] =
                  Announce([@ EXCEPT !.tx = "auth", !.msg = "none"],
                           [k \in Kind |-> [n \in Name |->
                               IF n \in known[h][k] THEN <<TRUE>> ELSE <<>>]])]
    /\ handle_publish(h, IF rx[h][p] = 0 THEN {} ELSE conn[p][h][rx[h][p]].list["publish"])
    /\ UNCHANGED <<handles, known, remote, open, peers, timer, tx, rx>>

\* auth_cb without a valid token, or the timer of the handshake.
AuthFails(h, p, s) ==
    /\ conn[h][p][s].tx = "waiting"
    /\ network_tx_socket_close(h, p, s)
    /\ handle_publish(h, {})
    /\ UNCHANGED <<handles, known, remote, open, peers, timer, rx>>

\* Mutant: a lost connection is not opened again.
TxDisconnect_NoRetry(h, p, s) ==
    /\ conn[h][p][s].tx # "closed"
    /\ network_tx_socket_close(h, p, s)
    /\ handle_publish(h, {})
    /\ UNCHANGED <<handles, known, remote, open, peers, timer, rx>>

\* disconnect_cb of the connecting side: the peer closed, or cannot be reached.
TxDisconnect(h, p, s) ==
    /\ conn[h][p][s].tx # "closed"
    /\ network_tx_socket_close(h, p, s)
    /\ timer' = [timer EXCEPT ![h] = @ \/ open[h]]
    /\ handle_publish(h, {})
    /\ UNCHANGED <<handles, known, remote, open, peers, rx>>

(***************************************************************************)
(* Actions: the accepting side.  h accepts, p connects.                    *)
(***************************************************************************)

\* A peer is sent the hello; any other host, and every host while the network
\* is closed, finds the connection closed.
network_accept(h, p, s) ==
    /\ conn[p][h][s].rx = "backlog"
    /\ conn' = [conn EXCEPT ![p][h][s] =
                  IF open[h] /\ p \in DOMAIN peers[h]
                  THEN [@ EXCEPT !.rx = "open", !.msg = IF conn[p][h][s].tx = "closed"
                                                           THEN "none" ELSE "hello"]
                  ELSE CloseRx(@)]
    /\ handle_publish(h, {})
    /\ UNCHANGED <<handles, known, remote, open, peers, timer, tx, rx>>

\* Mutant: the state of the connection that is replaced is kept.
network_check_auth_Keeps(h, p, s, ok, reply) ==
    /\ conn[p][h][s].msg = "auth"
    /\ conn[p][h][s].rx = "open"
    /\ ok /\ open[h] /\ p \in DOMAIN peers[h]
    /\ conn' = [CloseChannels(h, {}, {p}) EXCEPT ![p][h][s] =
                  [@ EXCEPT !.rx = "auth",
                            !.msg = IF reply /\ conn[p][h][s].tx # "closed" THEN "token" ELSE "none"]]
    /\ rx' = [rx EXCEPT ![h][p] = s]
    /\ handle_publish(h, {})
    /\ timer' = [timer EXCEPT ![h] = @ \/ ~Authenticated(h, p)]
    /\ UNCHANGED <<handles, known, remote, open, peers, tx>>

\* The auth message: unetd finds its token valid (ok), the connection replaces
\* the one the peer had, and unetd has a token for the reply (reply).
network_check_auth(h, p, s, ok, reply) ==
    /\ conn[p][h][s].msg = "auth"
    /\ conn[p][h][s].rx = "open"
    /\ IF ok /\ open[h] /\ p \in DOMAIN peers[h]
       THEN LET old == CloseChannels(h, {}, {p})
            IN  /\ conn' = [old EXCEPT ![p][h][s] =
                               [@ EXCEPT !.rx = "auth",
                                         !.msg = IF reply /\ conn[p][h][s].tx # "closed"
                                                 THEN "token" ELSE "none"]]
                /\ rx' = [rx EXCEPT ![h][p] = s]
                /\ remote' = network_rx_cleanup_state(h, {p})
                /\ handle_publish(h, Lost(h, {p}))
                /\ timer' = [timer EXCEPT ![h] = @ \/ ~Authenticated(h, p)]
       ELSE /\ conn' = [conn EXCEPT ![p][h][s] = CloseRx(@)]
            /\ handle_publish(h, {})
            /\ UNCHANGED <<rx, remote, timer>>
    /\ UNCHANGED <<handles, known, open, peers, tx>>

\* An announcement of the peer.  The code reads the list of a peer without
\* asking whether it is one; that exception changes nothing or ends the daemon.
network_socket_handle_request(h, p, s, kind, name) ==
    LET c       == conn[p][h][s]
        enabled == Head(c.sent[kind][name])
        has     == name \in c.list[kind]
        adds    == enabled /\ ~has /\ p \in DOMAIN peers[h] /\ name \in peers[h][p].names
        removes == ~enabled /\ has
        heard   == [c EXCEPT !.sent[kind][name] = Tail(@),
                             !.list[kind] = CASE adds -> @ \cup {name}
                                              [] removes -> @ \ {name}
                                              [] OTHER -> @]
        told    == kind = "publish" /\ (removes \/ (enabled /\ (has \/ adds) /\ Authenticated(h, p)))
    IN  /\ c.rx = "auth"
        /\ c.sent[kind][name] # <<>>
        /\ conn' = [conn EXCEPT ![p][h][s] = heard]
        /\ remote' = [remote EXCEPT ![h][kind][name] = CASE adds -> @ \cup {p}
                                                         [] removes -> @ \ {p}
                                                         [] OTHER -> @]
        /\ handle_publish(h, IF told THEN {name} ELSE {})
        /\ UNCHANGED <<handles, known, open, peers, timer, tx, rx>>

\* The timer of a connection that is not authenticated.
AcceptTimeout(h, p, s) ==
    /\ conn[p][h][s].rx = "open"
    /\ conn' = [conn EXCEPT ![p][h][s] = CloseRx(@)]
    /\ handle_publish(h, {})
    /\ UNCHANGED <<handles, known, remote, open, peers, timer, tx, rx>>

\* disconnect_cb of the accepting side: network_rx_socket_close.
RxDisconnect(h, p, s) ==
    LET current == rx[h][p] = s
    IN  /\ conn[p][h][s].rx \in {"open", "auth"}
        /\ conn' = [conn EXCEPT ![p][h][s] = CloseRx(@)]
        /\ rx' = [rx EXCEPT ![h][p] = IF current THEN 0 ELSE @]
        /\ remote' = IF current THEN network_rx_cleanup_state(h, {p}) ELSE remote
        /\ handle_publish(h, IF current THEN Lost(h, {p}) ELSE {})
        /\ UNCHANGED <<handles, known, open, peers, timer, tx>>

(***************************************************************************)
(* Actions: the network as unetd reports it.                               *)
(***************************************************************************)

network_open(h, P) ==
    /\ ~open[h]
    /\ open' = [open EXCEPT ![h] = TRUE]
    /\ peers' = [peers EXCEPT ![h] = P]
    /\ timer' = [timer EXCEPT ![h] = TRUE]
    /\ handle_publish(h, {})
    /\ UNCHANGED <<handles, known, remote, tx, rx, conn>>

\* Mutant: registrations outlive a change of the list.
network_update_Keeps(h, P) ==
    LET changed == {p \in DOMAIN peers[h] : IF p \in DOMAIN P THEN P[p] # peers[h][p]
                                                         ELSE peers[h][p].limited}
    IN  /\ open[h]
        /\ conn' = CloseChannels(h, changed, changed)
        /\ tx' = Without(tx, h, changed)
        /\ rx' = Without(rx, h, changed)
        /\ peers' = [peers EXCEPT ![h] = P]
        /\ timer' = [timer EXCEPT ![h] = TRUE]
        /\ handle_publish(h, {})
        /\ UNCHANGED <<handles, known, remote, open>>

\* Mutant: the timer is armed only when there is a peer to connect to.
network_update_NoPeers(h, P) ==
    LET changed == {p \in DOMAIN peers[h] : IF p \in DOMAIN P THEN P[p] # peers[h][p]
                                                         ELSE peers[h][p].limited}
    IN  /\ open[h]
        /\ conn' = CloseChannels(h, changed, changed)
        /\ tx' = Without(tx, h, changed)
        /\ rx' = Without(rx, h, changed)
        /\ remote' = network_rx_cleanup_state(h, Closed(h, changed))
        /\ handle_publish(h, Lost(h, Closed(h, changed)))
        /\ peers' = [peers EXCEPT ![h] = P]
        /\ timer' = [timer EXCEPT ![h] = @ \/ P # NoPeers]
        /\ UNCHANGED <<handles, known, open>>

\* Peers whose list changed, or that had one and are gone, lose their
\* connections; those that never had one lose them when the timer fires.
network_update(h, P) ==
    LET changed == {p \in DOMAIN peers[h] : IF p \in DOMAIN P THEN P[p] # peers[h][p]
                                                         ELSE peers[h][p].limited}
    IN  /\ open[h]
        /\ conn' = CloseChannels(h, changed, changed)
        /\ tx' = Without(tx, h, changed)
        /\ rx' = Without(rx, h, changed)
        /\ remote' = network_rx_cleanup_state(h, Closed(h, changed))
        /\ handle_publish(h, Lost(h, Closed(h, changed)))
        /\ peers' = [peers EXCEPT ![h] = P]
        /\ timer' = [timer EXCEPT ![h] = TRUE]
        /\ UNCHANGED <<handles, known, open>>

\* Also the first half of a network_update with another address; network_open
\* is the other half, or the next report, if the socket cannot be opened.
network_close(h) ==
    /\ open[h]
    /\ CloseAll(h)
    /\ open' = [open EXCEPT ![h] = FALSE]
    /\ peers' = [peers EXCEPT ![h] = NoPeers]
    /\ timer' = [timer EXCEPT ![h] = FALSE]
    /\ UNCHANGED <<handles, known>>

\* The daemon dies and is started again.
Restart(h) ==
    /\ conn' = [a \in Host |-> [b \in Host |-> [s \in Slot |->
                  CASE a = h -> CloseTx(conn[a][b][s])
                    [] b = h -> CloseRx(conn[a][b][s])
                    [] OTHER -> conn[a][b][s]]]]
    /\ tx' = Without(tx, h, Host)
    /\ rx' = Without(rx, h, Host)
    /\ handles' = [handles EXCEPT ![h] = [k \in Kind |-> [n \in Name |-> {}]]]
    /\ known' = [known EXCEPT ![h] = NoList]
    /\ remote' = [remote EXCEPT ![h] = [k \in Kind |-> [n \in Name |-> {}]]]
    /\ open' = [open EXCEPT ![h] = FALSE]
    /\ peers' = [peers EXCEPT ![h] = NoPeers]
    /\ timer' = [timer EXCEPT ![h] = FALSE]
    /\ handle_publish(h, {})

(***************************************************************************)
(* Specification.                                                          *)
(***************************************************************************)

Init ==
    /\ handles = [h \in Host |-> [k \in Kind |-> [n \in Name |-> {}]]]
    /\ known = [h \in Host |-> NoList]
    /\ remote = [h \in Host |-> [k \in Kind |-> [n \in Name |-> {}]]]
    /\ open = [h \in Host |-> FALSE]
    /\ peers = [h \in Host |-> NoPeers]
    /\ timer = [h \in Host |-> FALSE]
    /\ tx = [h \in Host |-> [p \in Host |-> 0]]
    /\ rx = [h \in Host |-> [p \in Host |-> 0]]
    /\ conn = [a \in Host |-> [b \in Host |-> [s \in Slot |-> NoConn]]]
    /\ faults = 0
    /\ notified = [h \in Host |-> {}]

\* Steps of a connection that goes well, or whose other end is closed.
Handshake(h, p, s) ==
    \/ network_accept(h, p, s)
    \/ RecvHello(h, p, s, TRUE)
    \/ network_check_auth(h, p, s, TRUE, TRUE)
    \/ auth_data_cb(h, p, s)
    \/ conn[h][p][s].rx = "closed" /\ TxDisconnect(h, p, s)
    \/ conn[p][h][s].tx = "closed" /\ RxDisconnect(h, p, s)

Announcement(h, p, s) ==
    \E k \in Kind, n \in Name : network_socket_handle_request(h, p, s, k, n)

\* unetd without a token or with an invalid one, timeouts, lost connections.
Failure(h, p, s) ==
    \/ RecvHello(h, p, s, FALSE)
    \/ network_check_auth(h, p, s, FALSE, FALSE)
    \/ network_check_auth(h, p, s, TRUE, FALSE)
    \/ AuthFails(h, p, s)
    \/ AcceptTimeout(h, p, s)
    \/ TxDisconnect(h, p, s)
    \/ RxDisconnect(h, p, s)

ClientStep(h) ==
    \E c \in Client :
        \/ \E k \in Kind, n \in Name : client_pubsub(h, c, k, n)
        \/ client_disconnect(h, c)

Step(h) ==
    \/ ClientStep(h)
    \/ \E P \in Peers(h) : network_open(h, P)
    \/ network_connect_peers(h, {})
    \/ \E p \in Host, s \in Slot : Handshake(h, p, s) \/ Announcement(h, p, s)

Fault(h) ==
    \/ \E P \in Peers(h) : network_update(h, P)
    \/ network_close(h)
    \/ Restart(h)
    \/ \E p \in Host : network_connect_peers(h, {p})
    \/ \E p \in Host, s \in Slot : Failure(h, p, s)

Next ==
    \E h \in Host :
        \/ Step(h) /\ UNCHANGED faults
        \/ faults < MaxFaults /\ Fault(h) /\ faults' = faults + 1

Spec == Init /\ [][Next]_vars

(***************************************************************************)
(* Properties.                                                             *)
(***************************************************************************)

\* Every variable has its type; in particular a message queue holds what the
\* callbacks write and every channel table names a connection or none.
TypeOK ==
    /\ handles \in [Host -> [Kind -> [Name -> SUBSET Client]]]
    /\ known \in [Host -> [Kind -> SUBSET Name]]
    /\ remote \in [Host -> [Kind -> [Name -> SUBSET Host]]]
    /\ open \in [Host -> BOOLEAN]
    /\ peers \in [Host -> UNION {Peers(h) : h \in Host}]
    /\ timer \in [Host -> BOOLEAN]
    /\ tx \in [Host -> [Host -> Slot \cup {0}]]
    /\ rx \in [Host -> [Host -> Slot \cup {0}]]
    /\ conn \in [Host -> [Host -> [Slot -> Conn]]]
    /\ faults \in 0 .. MaxFaults
    /\ notified \in [Host -> SUBSET Name]

\* What a daemon believes of its peers is what their current connections have
\* announced: no registration survives the connection it came over, and none
\* is dropped because an older connection of the same peer goes away.
RemoteMirrorsChannels ==
    \A h, p \in Host, k \in Kind, n \in Name :
        p \in remote[h][k][n] <=> rx[h][p] # 0 /\ n \in conn[p][h][rx[h][p]].list[k]

\* Where the network has a unetmsg service, a registration is one that the
\* configuration of now allows, although it was checked when it was made.
OnlyAllowed ==
    \A h, p \in Host, k \in Kind, n \in Name :
        p \in remote[h][k][n] => p \in DOMAIN peers[h] /\ n \in peers[h][p].names

\* A host that is no peer any more and still has a connection or registrations
\* loses them: the timer of network_connect_peers, which closes it, is armed.
FormerPeersDropped ==
    \A h, p \in Host : p \notin DOMAIN peers[h] =>
        \/ timer[h]
        \/ tx[h][p] = 0 /\ rx[h][p] = 0 /\ \A k \in Kind, n \in Name : p \notin remote[h][k][n]

\* As long as a peer has no authenticated connection, the timer that opens one
\* is armed: no failure of a handshake makes a daemon forget a peer.
PeersPursued ==
    \A h \in Host : open[h] =>
        \A p \in DOMAIN peers[h] : Authenticated(h, p) \/ timer[h]

\* Where the network has a unetmsg service, a name that a client of h publishes
\* or subscribes to is registered at every peer h is connected to, or the
\* announcement is under way, or not allowed.
NoAnnouncementLost ==
    \A h, p \in Host, k \in Kind, n \in Name :
        Authenticated(h, p) /\ handles[h][k][n] # {} =>
            LET c == conn[h][p][tx[h][p]]
                q == c.sent[k][n]
                allowed == h \in DOMAIN peers[p] /\ n \in peers[p][h].names
            IN  c.rx # "closed" => IF q = <<>> THEN n \in c.list[k] \/ ~allowed ELSE q[Len(q)]

\* Hosts a request for name n would be sent to.
Reachable(h, n) == {p \in remote[h]["publish"][n] : Authenticated(h, p)}

\* Whenever a publisher comes into reach, the subscribers of its name are told,
\* whichever of the two connections is the last to be ready.
PublishersNotified ==
    [][\A h \in Host, n \in Name :
          ~(Reachable(h, n)' \subseteq Reachable(h, n)) => n \in notified'[h]]_vars

=============================================================================
