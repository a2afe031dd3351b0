------------------------------ MODULE Pairing ------------------------------
(***************************************************************************)
(* What connecting two peers promises: an end that goes on to the transfer *)
(* has the other end of its own session on the line, each end goes on at   *)
(* most once, and the receiver only after the sender (the TLS 1.3 client   *)
(* finishes first).                                                        *)
(***************************************************************************)
CONSTANTS Session, None

VARIABLES
    senderPeer,   \* the receiver each sender is connected to
    receiverPeer  \* the sender each receiver is connected to

vars == <<senderPeer, receiverPeer>>

Init ==
    /\ senderPeer = [s \in Session |-> None]
    /\ receiverPeer = [s \in Session |-> None]

SenderMeets(s) ==
    /\ senderPeer[s] = None
    /\ senderPeer' = [senderPeer EXCEPT ![s] = s]
    /\ UNCHANGED receiverPeer

ReceiverMeets(s) ==
    /\ senderPeer[s] = s
    /\ receiverPeer[s] = None
    /\ receiverPeer' = [receiverPeer EXCEPT ![s] = s]
    /\ UNCHANGED senderPeer

Next == \E s \in Session : SenderMeets(s) \/ ReceiverMeets(s)

Spec == Init /\ [][Next]_vars
=============================================================================
