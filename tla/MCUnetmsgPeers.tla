--------------------------- MODULE MCUnetmsgPeers ---------------------------
(***************************************************************************)
(* Two hosts, the clients of one of them use one name.  A behaviour has    *)
(* one of three scenes, each with the bounds that its question needs.      *)
(***************************************************************************)
EXTENDS UnetmsgPeers

CONSTANTS a, b, n

VARIABLE scene

PubSub == [h \in Host |-> IF h = a THEN Kind \X {n} ELSE {}]

OneConnection == \A h, p \in Host : conn[h][p][2] = NoConn
OnlyPublishers == "subscribe" \notin {k \in Kind : \E h \in Host : known[h][k] # {}}
OneInFlight == \A h, p \in Host, s \in Slot : Len(conn[h][p][s].sent["publish"][n]) <= 1
Reported == UNION {{peers[h][p] : p \in DOMAIN peers[h]} : h \in Host}

\* replaced: two connections at a time from the host with the clients.  lists:
\* publishers and subscribers under the other host's list, which changes.
\* former: reports with and without a unetmsg service.
Within ==
    CASE scene = "replaced" -> /\ conn[b][a][2] = NoConn /\ OnlyPublishers /\ OneInFlight
                               /\ \A r \in Reported : r.limited /\ r.names = {n}
      [] scene = "lists" -> /\ OneConnection
                            /\ \A r \in Reported : r.limited
                            /\ \A p \in DOMAIN peers[a] : peers[a][p].names = {n}
      [] scene = "former" -> /\ OneConnection /\ OnlyPublishers /\ OneInFlight
                             /\ \A r \in Reported : r.names = {n}

SceneFaults == [replaced |-> 2, lists |-> 2, former |-> MaxFaults]

SceneInit == Init /\ scene \in DOMAIN SceneFaults

\* Next within the bounds of the scene.
SceneNext ==
    /\ UNCHANGED scene
    /\ \E h \in Host :
          \/ Step(h) /\ UNCHANGED faults
          \/ faults < SceneFaults[scene] /\ Fault(h) /\ faults' = faults + 1
    /\ Within'

SceneSpec == SceneInit /\ [][SceneNext]_<<vars, scene>>

\* Under a service from beginning to end, as in "replaced" and "lists".
Served == scene # "former"

\* OnlyAllowed in networks whose reports always have a unetmsg service: no
\* registration outlives the list entry that network_socket_handle_request
\* checked it against.
ServedOnlyAllowed == Served => OnlyAllowed

\* NoAnnouncementLost in such networks: between auth_data_cb, pubsub_set and
\* network_update no name that is in use is forgotten.
ServedNoAnnouncementLost == Served => NoAnnouncementLost
=============================================================================
