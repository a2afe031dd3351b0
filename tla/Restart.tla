------------------------------ MODULE Restart ------------------------------
(***************************************************************************)
(* Starting an interrupted transfer again, as far as the relay has a part  *)
(* in it.  Two commands were introduced, their transfer broke off, and     *)
(* both have ended.  Their users come back: the sender runs p2pft send on  *)
(* the file again, which takes no code, and the receiver p2pft receive     *)
(* with the code of the first attempt.                                     *)
(*                                                                         *)
(* What the relay does with all of them is Relay.                          *)
(***************************************************************************)
EXTENDS Relay

CONSTANT Returning \* the connections, among Conn, of users that come back

VARIABLES
    interrupted, \* senders whose transfer broke off
    backFor      \* the sender whose transfer each connection is to start again

userVars == <<interrupted, backFor>>
restartVars == <<vars, userVars>>

RestartInit ==
    /\ Init
    /\ interrupted = {}
    /\ backFor = [c \in Conn |-> None]

(* The transfer that sender s was introduced for ends with an error.  Its  *)
(* receiver and its sender have left the relay by then.                    *)
Interrupt(s) ==
    /\ \E r \in Conn : <<s, r>> \in Introduced
    /\ s \notin interrupted
    /\ interrupted' = interrupted \cup {s}
    /\ UNCHANGED <<vars, backFor>>

(* A user comes back for the transfer of s. *)
Back(c, s) ==
    /\ s \in interrupted
    /\ backFor' = [backFor EXCEPT ![c] = s]
    /\ UNCHANGED interrupted

SenderBack(c, s) == SenderHello(c) /\ Back(c, s)
ReceiverBack(c, s) == ReceiverHello(c) /\ presented'[c] = code[s] /\ Back(c, s)

(* Every other step is the relay's alone. *)
RelayStep ==
    /\ \/ \E c \in Conn \ Returning : Hello(c)
       \/ \E c \in Conn : SenderStep(c) \/ ReceiverStep(c)
       \/ Reap \/ Shutdown \/ ReaperExits \/ Tick
    /\ UNCHANGED userVars

RestartNext ==
    \/ RelayStep
    \/ \E s \in Conn : Interrupt(s)
    \/ \E c \in Returning, s \in Conn : SenderBack(c, s) \/ ReceiverBack(c, s)

RestartSpec == RestartInit /\ [][RestartNext]_restartVars

-----------------------------------------------------------------------------
(* What the README says: an interrupted transfer can be restarted with the *)
(* same code.  When a transfer broke off and its sender is back and waits  *)
(* for a receiver, the one that comes back with the code is not refused.   *)
SameCodeRestarts ==
    [][\A s, r \in Returning :
          /\ backFor[s] # None /\ backFor[r] = backFor[s]
          /\ pc[s] = "parked" /\ Stored(s) /\ pc[r] = "claim"
          => pc'[r] # "done"]_restartVars
=============================================================================
