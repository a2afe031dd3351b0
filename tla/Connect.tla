------------------------------ MODULE Connect ------------------------------
(***************************************************************************)
(* How the two peers of a session find each other once the relay has       *)
(* introduced them: RaceConnect of internal/nat, the preambles and the     *)
(* accept loop of cmd/p2pft/pairing.go, the pinned handshake of            *)
(* internal/tlsx, and the parts of runSend and runReceive around them.     *)
(*                                                                         *)
(* Several sessions may run at once, and an address may lead a sender to   *)
(* the receiver of another session, to a process that is no receiver at    *)
(* all, or nowhere: a receiver advertises 127.0.0.1 and its LAN addresses, *)
(* which mean something else on the sender's machine and network.  Two     *)
(* sessions may have the same code, since the relay gives a claimed code   *)
(* out again.  Each sender dials each address once, so a connection is     *)
(* named by the two.                                                       *)
(*                                                                         *)
(* Time passes in seconds (Tick).  The deadlines of the accept loop are    *)
(* counted; those of the dials, of the sender's write and of the           *)
(* handshakes may strike at any moment.  Connections may be reset,         *)
(* commands killed, and the sender's machine may drop off the network.     *)
(***************************************************************************)
EXTENDS Integers, FiniteSets

CONSTANTS
    Session,          \* a sender and the receiver that presented its code
    Addr,             \* addresses
    Conn,             \* <<s, a>> when the receiver of s advertises a
    Code,             \* session codes
    Routes,           \* the ways addresses may lead
    Codings,          \* the ways codes may be given out
    MaxAcceptTries,   \* maxAcceptTries
    AcceptTimeout,    \* acceptTimeout
    PreambleTimeout,  \* preambleTimeout
    MaxResets,        \* bound on the connections the network resets
    Stranger,         \* a listener that is no receiver
    None

SenderOf(c) == c[1]
DialsOf(s) == {c \in Conn : SenderOf(c) = s}

ASSUME ConnectAssumption ==
    /\ Conn \subseteq Session \X Addr
    /\ IsFiniteSet(Conn)
    /\ Codings \subseteq [Session -> Code]
    /\ Routes \subseteq [Conn -> Session \cup {Stranger, None}]
    /\ MaxAcceptTries \in Nat \ {0}
    /\ AcceptTimeout \in Nat \ {0}
    /\ PreambleTimeout \in Nat \ {0}
    /\ MaxResets \in Nat
    /\ Stranger \notin Session
    /\ None \notin Session \cup Conn

VARIABLES
    reach,    \* where a dial ends up
    codeOf,   \* the code of each session
    sPc,      \* where each sender is
    received, \* results RaceConnect has received from its channel
    pending,  \* results its drain goroutine has yet to receive
    dial,     \* each dial, and the sender's end of the connection it made
    winner,   \* the connection RaceConnect returned
    wrote,    \* connections with the sender's preamble on them
    finished, \* connections whose client finished the handshake
    rPc,      \* where each receiver is
    queue,    \* connections each listener has not accepted yet
    rConn,    \* the connection each receiver has in hand
    tries,    \* connections its accept loop has skipped
    skipped,  \* the connections accept loops have closed
    waited,   \* seconds since the listener's deadline was set
    preWait,  \* seconds since the preamble's deadline was set
    late,     \* sessions a timeout struck in
    broken    \* connections the network has reset

fixedVars    == <<reach, codeOf>>
raceVars     == <<received, pending, dial>>
senderVars   == <<sPc, raceVars, winner, wrote, finished>>
acceptVars   == <<queue, rConn, tries, skipped, waited, preWait>>
receiverVars == <<rPc, acceptVars>>
faultVars    == <<late, broken>>
vars == <<fixedVars, senderVars, receiverVars, faultVars>>

SenderPcs == {"parked", "race", "preamble", "handshake", "transfer",
              "failed", "killed", "vanished"}
ReceiverPcs == {"prompt", "declined", "accept", "preamble", "handshake", "transfer",
                "failed", "killed"}

(* A dial fails or makes a connection, either result sits in the channel   *)
(* until it is received; a connection is then chosen or closed.            *)
Dials == {"idle", "dialing", "failed", "up", "chosen", "closed"}

Init ==
    /\ reach \in Routes
    /\ codeOf \in Codings
    /\ sPc = [s \in Session |-> "parked"]
    /\ received = [s \in Session |-> 0]
    /\ pending = [s \in Session |-> 0]
    /\ dial = [c \in Conn |-> "idle"]
    /\ winner = [s \in Session |-> None]
    /\ wrote = {} /\ finished = {}
    /\ rPc = [s \in Session |-> "prompt"]
    /\ queue = [s \in Session |-> {}]
    /\ rConn = [s \in Session |-> None]
    /\ tries = [s \in Session |-> 0]
    /\ skipped = {}
    /\ waited = [s \in Session |-> 0]
    /\ preWait = [s \in Session |-> 0]
    /\ late = {}
    /\ broken = {}

SenderAt(s, p) == sPc' = [sPc EXCEPT ![s] = p]
ReceiverAt(r, p) == rPc' = [rPc EXCEPT ![r] = p]

(* The process of a sender ends and its sockets close. *)
SenderEnds(s, p) ==
    /\ SenderAt(s, p)
    /\ dial' = [c \in Conn |-> IF SenderOf(c) = s THEN "closed" ELSE dial[c]]
    /\ pending' = [pending EXCEPT ![s] = 0]

(* The process of a receiver ends; whatever is in its queue is reset. *)
ReceiverEnds(r, p) ==
    /\ ReceiverAt(r, p)
    /\ queue' = [queue EXCEPT ![r] = {}]
    /\ rConn' = [rConn EXCEPT ![r] = None]
    /\ waited' = [waited EXCEPT ![r] = 0]
    /\ preWait' = [preWait EXCEPT ![r] = 0]

(* runSend, or runReceive, returns an error. *)
SenderFails(s) == SenderEnds(s, "failed")
ReceiverFails(r) == ReceiverEnds(r, "failed")

-----------------------------------------------------------------------------
(* RaceConnect                                                             *)

(* The relay forwards the receiver's addresses; every one is dialled. *)
ReceiverJoined(s) ==
    /\ sPc[s] = "parked"
    /\ rPc[s] \notin {"prompt", "declined"}
    /\ DialsOf(s) # {}
    /\ SenderAt(s, "race")
    /\ dial' = [c \in Conn |-> IF SenderOf(c) = s THEN "dialing" ELSE dial[c]]
    /\ UNCHANGED <<fixedVars, received, pending, winner, wrote, finished, receiverVars, faultVars>>

(* The relay gives the session up, or forwards nothing that can be used. *)
NotJoined(s) ==
    /\ sPc[s] = "parked"
    /\ SenderFails(s)
    /\ UNCHANGED <<fixedVars, received, winner, wrote, finished, receiverVars, faultVars>>

(* The listener is open from the start of runReceive to its end. *)
Ended(r) == rPc[r] \in {"declined", "failed", "killed"}
Listening(l) == l = Stranger \/ (l \in Session /\ ~Ended(l))

Establish(c) ==
    /\ dial[c] = "dialing" /\ sPc[SenderOf(c)] # "vanished"
    /\ Listening(reach[c])
    /\ dial' = [dial EXCEPT ![c] = "up"]
    /\ queue' = [r \in Session |-> IF r = reach[c] THEN queue[r] \cup {c} ELSE queue[r]]
    /\ UNCHANGED <<fixedVars, sPc, received, pending, winner, wrote, finished, rPc, rConn, tries,
                   skipped, waited, preWait, faultVars>>

(* Refused, unreachable, cancelled or timed out. *)
DialFails(c) ==
    /\ dial[c] = "dialing" /\ sPc[SenderOf(c)] # "vanished"
    /\ dial' = [dial EXCEPT ![c] = "failed"]
    /\ UNCHANGED <<fixedVars, sPc, received, pending, winner, wrote, finished, receiverVars, faultVars>>

\* Mutant: the drain goroutine is told of the result just received as well.
TakeWinner_CountsItself(c) ==
    LET s == SenderOf(c) IN
    /\ sPc[s] = "race"
    /\ dial[c] = "up"
    /\ SenderAt(s, "preamble")
    /\ winner' = [winner EXCEPT ![s] = c]
    /\ dial' = [dial EXCEPT ![c] = "chosen"]
    /\ received' = [received EXCEPT ![s] = @ + 1]
    /\ pending' = [pending EXCEPT ![s] = Cardinality(DialsOf(s)) - received[s]]
    /\ UNCHANGED <<fixedVars, wrote, finished, receiverVars, faultVars>>

(* The first connection out of the channel wins.  The other dials are      *)
(* cancelled and the drain goroutine is to receive their results.          *)
TakeWinner(c) ==
    LET s == SenderOf(c) IN
    /\ sPc[s] = "race"
    /\ dial[c] = "up"
    /\ SenderAt(s, "preamble")
    /\ winner' = [winner EXCEPT ![s] = c]
    /\ dial' = [dial EXCEPT ![c] = "chosen"]
    /\ received' = [received EXCEPT ![s] = @ + 1]
    /\ pending' = [pending EXCEPT ![s] = Cardinality(DialsOf(s)) - received'[s]]
    /\ UNCHANGED <<fixedVars, wrote, finished, receiverVars, faultVars>>

\* Mutant: the last result is not waited for.
TakeFailure_OneEarly(c) ==
    LET s == SenderOf(c) IN
    /\ sPc[s] = "race"
    /\ dial[c] = "failed"
    /\ received' = [received EXCEPT ![s] = @ + 1]
    /\ IF received'[s] >= Cardinality(DialsOf(s)) - 1
         THEN SenderFails(s)
         ELSE dial' = [dial EXCEPT ![c] = "closed"] /\ UNCHANGED <<sPc, pending>>
    /\ UNCHANGED <<fixedVars, winner, wrote, finished, receiverVars, faultVars>>

TakeFailure(c) ==
    LET s == SenderOf(c) IN
    /\ sPc[s] = "race"
    /\ dial[c] = "failed"
    /\ received' = [received EXCEPT ![s] = @ + 1]
    /\ IF received'[s] = Cardinality(DialsOf(s))
         THEN SenderFails(s)
         ELSE dial' = [dial EXCEPT ![c] = "closed"] /\ UNCHANGED <<sPc, pending>>
    /\ UNCHANGED <<fixedVars, winner, wrote, finished, receiverVars, faultVars>>

\* Mutant: the drain goroutine stops one result short.
Drain_OneShort(c) ==
    LET s == SenderOf(c) IN
    /\ pending[s] > 1 /\ sPc[s] # "vanished"
    /\ dial[c] \in {"up", "failed"}
    /\ dial' = [dial EXCEPT ![c] = "closed"]
    /\ pending' = [pending EXCEPT ![s] = @ - 1]
    /\ UNCHANGED <<fixedVars, sPc, received, winner, wrote, finished, receiverVars, faultVars>>

(* The drain goroutine receives a result and closes a late connection. *)
Drain(c) ==
    LET s == SenderOf(c) IN
    /\ pending[s] > 0 /\ sPc[s] # "vanished"
    /\ dial[c] \in {"up", "failed"}
    /\ dial' = [dial EXCEPT ![c] = "closed"]
    /\ pending' = [pending EXCEPT ![s] = @ - 1]
    /\ UNCHANGED <<fixedVars, sPc, received, winner, wrote, finished, receiverVars, faultVars>>

-----------------------------------------------------------------------------
(* The sender on the winning connection                                    *)

(* The other end of c was closed, or never was a receiver's, or there is   *)
(* no connection any more.                                                 *)
Refused(c) ==
    \/ c \in broken
    \/ reach[c] = Stranger
    \/ c \in skipped
    \/ reach[c] \in Session /\ Ended(reach[c])

WritePreamble(s) ==
    /\ sPc[s] = "preamble" /\ winner[s] \notin broken
    /\ SenderAt(s, "handshake")
    /\ wrote' = wrote \cup {winner[s]}
    /\ UNCHANGED <<fixedVars, raceVars, winner, finished, receiverVars, faultVars>>

(* A receiver has c in hand and serves the TLS handshake on it. *)
ServedBy(c, r) == rPc[r] = "handshake" /\ rConn[r] = c

\* Mutant: whatever certificate the server presents will do.
ClientFinish_AnyCert(s) ==
    /\ sPc[s] = "handshake" /\ winner[s] \notin broken
    /\ \E r \in Session : ServedBy(winner[s], r)
    /\ SenderAt(s, "transfer")
    /\ finished' = finished \cup {winner[s]}
    /\ UNCHANGED <<fixedVars, raceVars, winner, wrote, receiverVars, faultVars>>

(* The server's certificate has the fingerprint the relay passed on: every *)
(* process makes a certificate of its own, so it is the session's receiver.*)
ClientFinish(s) ==
    /\ sPc[s] = "handshake" /\ winner[s] \notin broken
    /\ ServedBy(winner[s], s)
    /\ SenderAt(s, "transfer")
    /\ finished' = finished \cup {winner[s]}
    /\ UNCHANGED <<fixedVars, raceVars, winner, wrote, receiverVars, faultVars>>

(* A write or the handshake meets a closed connection, or the server's     *)
(* certificate is not the expected one.                                    *)
ClientFails(s) ==
    /\ sPc[s] \in {"preamble", "handshake"}
    /\ \/ Refused(winner[s])
       \/ sPc[s] = "handshake" /\ \E r \in Session \ {s} : ServedBy(winner[s], r)
    /\ SenderFails(s)
    /\ UNCHANGED <<fixedVars, received, winner, wrote, finished, receiverVars, faultVars>>

(* The write deadline of the preamble, or that of the handshake. *)
ClientTimesOut(s) ==
    /\ sPc[s] \in {"preamble", "handshake"}
    /\ SenderFails(s)
    /\ late' = late \cup {s}
    /\ UNCHANGED <<fixedVars, received, winner, wrote, finished, receiverVars, broken>>

(* The sender's process is killed; its system closes its sockets. *)
SenderStops(s) ==
    /\ sPc[s] \in {"race", "preamble", "handshake"}
    /\ SenderEnds(s, "killed")
    /\ UNCHANGED <<fixedVars, received, winner, wrote, finished, receiverVars, faultVars>>

(* The sender's machine drops off the network: nothing is closed. *)
Vanish(s) ==
    /\ sPc[s] \in {"race", "preamble", "handshake"}
    /\ SenderAt(s, "vanished")
    /\ UNCHANGED <<fixedVars, raceVars, winner, wrote, finished, receiverVars, faultVars>>

-----------------------------------------------------------------------------
(* The receiver                                                            *)

(* Its user accepts: the addresses go to the relay, acceptWithCode begins. *)
SendPeerAddrs(r) ==
    /\ rPc[r] = "prompt"
    /\ ReceiverAt(r, "accept")
    /\ UNCHANGED <<fixedVars, senderVars, acceptVars, faultVars>>

(* Its user declines or stops it, or the relay has lost patience. *)
Decline(r) ==
    /\ rPc[r] = "prompt"
    /\ ReceiverAt(r, "declined")
    /\ queue' = [queue EXCEPT ![r] = {}]
    /\ UNCHANGED <<fixedVars, senderVars, rConn, tries, skipped, waited, preWait, faultVars>>

\* Mutant: Accept looks at the queue before the deadline.
Accept_QueueFirst(r, c) ==
    /\ rPc[r] = "accept"
    /\ c \in queue[r]
    /\ ReceiverAt(r, "preamble")
    /\ queue' = [queue EXCEPT ![r] = @ \ {c}]
    /\ rConn' = [rConn EXCEPT ![r] = c]
    /\ UNCHANGED <<fixedVars, senderVars, tries, skipped, waited, preWait, faultVars>>

(* Connections reach the listener in any order, whatever the order the     *)
(* dials return in.                                                        *)
Accept(r, c) ==
    /\ rPc[r] = "accept"
    /\ waited[r] < AcceptTimeout
    /\ c \in queue[r]
    /\ ReceiverAt(r, "preamble")
    /\ queue' = [queue EXCEPT ![r] = @ \ {c}]
    /\ rConn' = [rConn EXCEPT ![r] = c]
    /\ UNCHANGED <<fixedVars, senderVars, tries, skipped, waited, preWait, faultVars>>

AcceptTimesOut(r) ==
    /\ rPc[r] = "accept"
    /\ waited[r] >= AcceptTimeout
    /\ ReceiverFails(r)
    /\ late' = late \cup {r}
    /\ UNCHANGED <<fixedVars, senderVars, tries, skipped, broken>>

\* Mutant: the loop gives up one connection early.
Skip_OneEarly(r) ==
    /\ skipped' = skipped \cup {rConn[r]}
    /\ tries' = [tries EXCEPT ![r] = @ + 1]
    /\ IF tries'[r] < MaxAcceptTries - 1
         THEN /\ ReceiverAt(r, "accept")
              /\ rConn' = [rConn EXCEPT ![r] = None]
              /\ preWait' = [preWait EXCEPT ![r] = 0]
              /\ UNCHANGED <<queue, waited>>
         ELSE ReceiverFails(r)

\* Mutant: the loop has no limit on its tries.
Skip_Unbounded(r) ==
    /\ skipped' = skipped \cup {rConn[r]}
    /\ tries' = [tries EXCEPT ![r] = @ + 1]
    /\ ReceiverAt(r, "accept")
    /\ rConn' = [rConn EXCEPT ![r] = None]
    /\ preWait' = [preWait EXCEPT ![r] = 0]
    /\ UNCHANGED <<queue, waited>>

(* Close the connection in hand and try the next, unless that was the last *)
(* try.                                                                    *)
Skip(r) ==
    /\ skipped' = skipped \cup {rConn[r]}
    /\ tries' = [tries EXCEPT ![r] = @ + 1]
    /\ IF tries'[r] < MaxAcceptTries
         THEN /\ ReceiverAt(r, "accept")
              /\ rConn' = [rConn EXCEPT ![r] = None]
              /\ preWait' = [preWait EXCEPT ![r] = 0]
              /\ UNCHANGED <<queue, waited>>
         ELSE ReceiverFails(r)

\* Mutant: any connection that stays open is taken for the winner.
PreambleMatches_Unread(r) ==
    /\ rPc[r] = "preamble"
    /\ ReceiverAt(r, "handshake")
    /\ waited' = [waited EXCEPT ![r] = 0]
    /\ preWait' = [preWait EXCEPT ![r] = 0]
    /\ UNCHANGED <<fixedVars, senderVars, queue, rConn, tries, skipped, faultVars>>

(* The code on the connection is the receiver's own: both deadlines are    *)
(* cleared.                                                                *)
PreambleMatches(r) ==
    /\ rPc[r] = "preamble"
    /\ rConn[r] \in wrote
    /\ codeOf[SenderOf(rConn[r])] = codeOf[r]
    /\ ReceiverAt(r, "handshake")
    /\ waited' = [waited EXCEPT ![r] = 0]
    /\ preWait' = [preWait EXCEPT ![r] = 0]
    /\ UNCHANGED <<fixedVars, senderVars, queue, rConn, tries, skipped, faultVars>>


(* Another code, or closed without one, or reset: what was written before  *)
(* a reset may arrive or not.                                              *)
PreambleIsWrong(r) ==
    /\ rPc[r] = "preamble"
    /\ \/ rConn[r] \in wrote /\ codeOf[SenderOf(rConn[r])] # codeOf[r]
       \/ rConn[r] \notin wrote /\ dial[rConn[r]] = "closed"
       \/ rConn[r] \in broken
    /\ Skip(r)
    /\ UNCHANGED <<fixedVars, senderVars, faultVars>>

\* Mutant: readPreamble sets no deadline.
PreambleTimesOut_Never(r) ==
    /\ rPc[r] = "preamble"
    /\ preWait[r] > PreambleTimeout
    /\ Skip(r)
    /\ late' = late \cup {r, SenderOf(rConn[r])}
    /\ UNCHANGED <<fixedVars, senderVars, broken>>

PreambleTimesOut(r) ==
    /\ rPc[r] = "preamble"
    /\ preWait[r] >= PreambleTimeout
    /\ Skip(r)
    /\ late' = late \cup {r, SenderOf(rConn[r])}
    /\ UNCHANGED <<fixedVars, senderVars, broken>>

(* The client's certificate has the fingerprint the relay passed on. *)
ServerFinish(r) ==
    /\ rPc[r] = "handshake"
    /\ rConn[r] \in finished
    /\ SenderOf(rConn[r]) = r
    /\ ReceiverAt(r, "transfer")
    /\ UNCHANGED <<fixedVars, senderVars, acceptVars, faultVars>>

(* The client is not the expected one, or hung up, or there is no          *)
(* connection any more.                                                    *)
ServerFails(r) ==
    /\ rPc[r] = "handshake"
    /\ \/ rConn[r] \in finished /\ SenderOf(rConn[r]) # r
       \/ rConn[r] \notin finished /\ dial[rConn[r]] = "closed"
       \/ rConn[r] \in broken
    /\ ReceiverFails(r)
    /\ UNCHANGED <<fixedVars, senderVars, tries, skipped, faultVars>>

ServerTimesOut(r) ==
    /\ rPc[r] = "handshake"
    /\ ReceiverFails(r)
    /\ late' = late \cup {r, SenderOf(rConn[r])}
    /\ UNCHANGED <<fixedVars, senderVars, tries, skipped, broken>>

(* The receiver's process is killed after it sent its addresses. *)
ReceiverStops(r) ==
    /\ rPc[r] \in {"accept", "preamble", "handshake"}
    /\ ReceiverEnds(r, "killed")
    /\ UNCHANGED <<fixedVars, senderVars, tries, skipped, faultVars>>

-----------------------------------------------------------------------------
(* The network resets a connection; each end notices when it next uses it. *)
Reset(c) ==
    /\ dial[c] \in {"up", "chosen"}
    /\ c \notin broken /\ Cardinality(broken) < MaxResets
    /\ broken' = broken \cup {c}
    /\ UNCHANGED <<fixedVars, senderVars, receiverVars, late>>

(* A second passes, no deadline that is due being left behind. *)
Tick ==
    /\ \A r \in Session :
          /\ rPc[r] = "accept" => waited[r] < AcceptTimeout
          /\ rPc[r] = "preamble" => preWait[r] < PreambleTimeout
    /\ waited' = [r \in Session |->
          IF rPc[r] \in {"accept", "preamble"} THEN waited[r] + 1 ELSE waited[r]]
    /\ preWait' = [r \in Session |->
          IF rPc[r] = "preamble" THEN preWait[r] + 1 ELSE preWait[r]]
    /\ UNCHANGED <<fixedVars, senderVars, rPc, queue, rConn, tries, skipped, faultVars>>

DialStep(c) == Establish(c) \/ DialFails(c)

RaceStep(s) == \E c \in DialsOf(s) : TakeWinner(c) \/ TakeFailure(c)

SenderStep(s) ==
    \/ ReceiverJoined(s)
    \/ NotJoined(s)
    \/ RaceStep(s)
    \/ WritePreamble(s)
    \/ ClientFinish(s)
    \/ ClientFails(s)
    \/ ClientTimesOut(s)

ReceiverStep(r) ==
    \/ SendPeerAddrs(r)
    \/ Decline(r)
    \/ \E c \in queue[r] : Accept(r, c)
    \/ AcceptTimesOut(r)
    \/ PreambleMatches(r)
    \/ PreambleIsWrong(r)
    \/ PreambleTimesOut(r)
    \/ ServerFinish(r)
    \/ ServerFails(r)
    \/ ServerTimesOut(r)

Next ==
    \/ \E s \in Session : SenderStep(s) \/ ReceiverStep(s)
    \/ \E s \in Session : SenderStops(s) \/ ReceiverStops(s) \/ Vanish(s)
    \/ \E c \in Conn : DialStep(c) \/ Drain(c) \/ Reset(c)
    \/ Tick

Spec == Init /\ [][Next]_vars

(* Processes and goroutines run, the relay answers or hangs up, users      *)
(* answer the prompt, dials end (connTimeout), and time passes.  Nothing   *)
(* is killed, reset or cut off by fairness.                                *)
Fairness ==
    /\ \A s \in Session : WF_vars(SenderStep(s)) /\ WF_vars(ReceiverStep(s))
    /\ \A c \in Conn : WF_vars(DialStep(c)) /\ WF_vars(Drain(c))
    /\ WF_vars(Tick)

FairSpec == Spec /\ Fairness

-----------------------------------------------------------------------------
(* Properties                                                              *)

(* Types of the state; no more connections are skipped than the loop       *)
(* allows.                                                                 *)
TypeOK ==
    /\ reach \in [Conn -> Session \cup {Stranger, None}]
    /\ codeOf \in [Session -> Code]
    /\ sPc \in [Session -> SenderPcs]
    /\ received \in [Session -> Nat]
    /\ pending \in [Session -> Int]
    /\ dial \in [Conn -> Dials]
    /\ winner \in [Session -> Conn \cup {None}]
    /\ wrote \subseteq Conn
    /\ finished \subseteq Conn
    /\ rPc \in [Session -> ReceiverPcs]
    /\ queue \in [Session -> SUBSET Conn]
    /\ rConn \in [Session -> Conn \cup {None}]
    /\ tries \in [Session -> 0 .. MaxAcceptTries]
    /\ skipped \subseteq Conn
    /\ waited \in [Session -> Nat]
    /\ preWait \in [Session -> 0 .. PreambleTimeout]
    /\ late \subseteq Session
    /\ broken \subseteq Conn

(* A receiver never puts a loser of a race through the handshake, whatever *)
(* the order in which its listener gets the connections: the one it takes  *)
(* is the one its sender chose, and carries the receiver's code.           *)
HandshakesOnChosen ==
    \A r \in Session : rPc[r] \in {"handshake", "transfer"} =>
        LET s == SenderOf(rConn[r]) IN
            winner[s] = rConn[r] /\ codeOf[s] = codeOf[r] /\ reach[rConn[r]] = r

(* The accept loop ends within the listener's deadline and one preamble.   *)
AcceptBounded ==
    \A r \in Session : rPc[r] \in {"accept", "preamble"} =>
        waited[r] <= AcceptTimeout + PreambleTimeout

(* A command only returns an error for a reason: a peer that was killed or *)
(* cut off, a timeout, a relay that introduced nobody, no dial that        *)
(* succeeds, a winner that leads to someone else or was reset, a session   *)
(* with the same code, or more connections at the receiver than its accept *)
(* loop has tries.  In particular, any number of losers that leaves a try  *)
(* for the winner does no harm, whether they are silent, closed or reset.  *)
FailsForAReason ==
    \A s \in Session : "failed" \in {sPc[s], rPc[s]} =>
        \/ sPc[s] = "vanished" \/ "killed" \in {sPc[s], rPc[s]} \/ s \in late
        \/ winner[s] = None
        \/ reach[winner[s]] # s
        \/ winner[s] \in broken
        \/ \E t \in Session \ {s} : codeOf[t] = codeOf[s]
        \/ Cardinality({c \in Conn : reach[c] = s}) > MaxAcceptTries

(* Dials whose result has yet to come out of the channel. *)
Outstanding(s) == {c \in DialsOf(s) : dial[c] \in {"dialing", "up", "failed"}}

(* Once a race has a winner, its drain goroutine is to receive exactly the *)
(* results still to come: with one too few a late connection stays open,   *)
(* with one too many the goroutine blocks on an empty channel for ever.    *)
DrainExact ==
    \A s \in Session : winner[s] # None => pending[s] = Cardinality(Outstanding(s))

(* RaceConnect only gives up when every dial has failed: no dial that may  *)
(* still succeed, and no connection in the channel, is left behind.        *)
GivesUpLast ==
    [][\A s \in Session : sPc[s] = "race" /\ sPc'[s] = "failed" =>
          \A c \in DialsOf(s) : dial[c] \in {"failed", "closed"}]_vars

P == INSTANCE Pairing WITH
        senderPeer <- [s \in Session |->
            IF winner[s] \in finished THEN reach[winner[s]] ELSE None],
        receiverPeer <- [r \in Session |->
            IF rPc[r] = "transfer" THEN SenderOf(rConn[r]) ELSE None]

(* Both ends of a transfer belong to one session, even when an address     *)
(* leads to another session's receiver that has the same code.             *)
ImplementsPairing == P!Spec

(* Connections that lost the race are closed, however late they come up,   *)
(* also while the transfer over the winner goes on.                        *)
LosersClosed ==
    \A c \in Conn : dial[c] \in {"up", "failed"} ~>
        dial[c] \in {"chosen", "closed"} \/ sPc[SenderOf(c)] = "vanished"

(* Neither command waits for ever for the other: not for an introduction   *)
(* that never comes, not on a connection that says nothing, not in a       *)
(* handshake with a peer that is gone.                                     *)
AttemptsEnd ==
    \A s \in Session :
        /\ sPc[s] = "race" ~> sPc[s] \in {"transfer", "failed", "killed", "vanished"}
        /\ rPc[s] = "accept" ~> rPc[s] \in {"transfer", "failed", "killed"}

(* What the comment on readPreamble says of a connection it fails on: it   *)
(* is a loser being torn down or a buggy peer's, never the one that the    *)
(* session's own sender chose and goes on using.                           *)
OnlyLosersSkipped ==
    \A s \in Session :
        sPc[s] \in {"preamble", "handshake"} /\ reach[winner[s]] = s /\ winner[s] \notin broken
            => winner[s] \notin skipped
=============================================================================
