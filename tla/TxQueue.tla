------------------------------- MODULE TxQueue ------------------------------
(***************************************************************************)
(* What the transmit path of an Ethernet driver promises: packets are sent *)
(* whole, once and in the order they were accepted; a packet is released   *)
(* once, and unsent only while the engine stands still.                    *)
(***************************************************************************)
EXTENDS Integers, Sequences

CONSTANTS
    Packet,  \* [id, len]
    None

VARIABLES
    queue,   \* the packets held, oldest first
    sent,    \* how many of them have been sent
    wire,    \* the last frame on the wire: its packet and its length
    running  \* the engine may send

vars == <<queue, sent, wire, running>>

Init == queue = <<>> /\ sent = 0 /\ wire = None /\ running = FALSE

Accept ==
    /\ \E p \in Packet :
          /\ \A i \in DOMAIN queue : queue[i].id # p.id
          /\ queue' = Append(queue, p)
    /\ UNCHANGED <<sent, wire, running>>

Transmit ==
    /\ running /\ sent < Len(queue)
    /\ sent' = sent + 1
    /\ wire' = [pkt |-> queue[sent + 1], got |-> queue[sent + 1].len]
    /\ UNCHANGED <<queue, running>>

Release ==
    /\ \E n \in 1 .. sent : queue' = SubSeq(queue, n + 1, Len(queue)) /\ sent' = sent - n
    /\ UNCHANGED <<wire, running>>

\* A reset: the engine stands still and everything is released.
Flush ==
    /\ ~running' /\ queue' = <<>> /\ sent' = 0
    /\ UNCHANGED wire

Switch == running' # running /\ UNCHANGED <<queue, sent, wire>>

Next == Accept \/ Transmit \/ Release \/ Flush \/ Switch

Spec == Init /\ [][Next]_vars
=============================================================================
