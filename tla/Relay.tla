-------------------------------- MODULE Relay --------------------------------
(***************************************************************************)
(* The signaling relay: internal/relay/server.go and session.go, with      *)
(* GenerateCode of internal/signaling/codes.go.                            *)
(*                                                                         *)
(* Each connection has a goroutine that runs ServeHTTP and becomes a       *)
(* sender's or a receiver's handler with the first message it reads.  The  *)
(* handlers share the session store and, for each session, the SenderReady *)
(* and ReceiverJoined channels.  A handler makes at most one session, so a *)
(* session is named by the connection of its sender.                       *)
(*                                                                         *)
(* Time passes in minutes (Tick).  The sub-minute timeouts may strike at   *)
(* any moment of a wait, which in turn sees at most one Tick; the wait for *)
(* a receiver and the reaper's period are counted.                         *)
(***************************************************************************)
EXTENDS Integers

CONSTANTS
    Conn,        \* connections
    Code,        \* codes GenerateCode can draw
    MaxRetries,  \* codeCollisionMaxRetries
    TTL,         \* SessionTTL
    ReaperEvery, \* ReaperEvery
    None

ASSUME RelayAssumption ==
    /\ MaxRetries \in Nat \ {0}
    /\ TTL \in Nat \ {0}
    /\ ReaperEvery \in Nat \ {0}
    /\ None \notin Conn
    /\ None \notin Code

VARIABLES
    pc,        \* where each connection's handler is
    tries,     \* collisions so far in the handler's code loop
    code,      \* the code of the session a sender's handler made
    presented, \* the code in a receiver's hello
    wait,      \* minutes spent in the handler's current timed wait
    told,      \* the last reply written to the connection's client
    sessions,  \* the store: the session under each code
    age,       \* minutes since CreatedAt of a stored session
    addrs,     \* sessions with SenderAddrs set
    ready,     \* sessions with SenderReady closed
    joined,    \* ReceiverJoined of each session: the receiver in its buffer
    claimed,   \* the session a receiver's handler holds
    forwarded, \* the receiver a sender's handler took from its channel
    reaper,    \* the reaper goroutine
    sinceReap  \* minutes since the reaper's last sweep

localVars == <<pc, tries, code, presented, wait, told, claimed, forwarded>>
sessionVars == <<sessions, age, addrs, ready, joined>>
reaperVars == <<reaper, sinceReap>>
vars == <<localVars, sessionVars, reaperVars>>

SenderPcs == {"create", "sendCreated", "readAddrs", "signal", "parked", "forward"}
ReceiverPcs == {"claim", "awaitReady", "sendFound", "readPeer", "handoff"}
Pcs == {"idle", "done"} \cup SenderPcs \cup ReceiverPcs

Replies == {"nothing", "created", "found", "joined", "error"}

(* Bound on age: whatever is older is as old as that. *)
AgeCap == TTL + ReaperEvery + 1

(* Waits with a deadline under a minute, and the wait for a receiver. *)
ShortWaits == {"readAddrs", "awaitReady", "readPeer"}
TimedWaits == ShortWaits \cup {"parked"}
Limit(p) == IF p = "parked" THEN TTL ELSE 1

Stored(s) == \E k \in Code : sessions[k] = s

Init ==
    /\ pc = [c \in Conn |-> "idle"]
    /\ tries = [c \in Conn |-> 0]
    /\ code = [c \in Conn |-> None]
    /\ presented = [c \in Conn |-> None]
    /\ wait = [c \in Conn |-> 0]
    /\ told = [c \in Conn |-> "nothing"]
    /\ claimed = [c \in Conn |-> None]
    /\ forwarded = [c \in Conn |-> None]
    /\ sessions = [k \in Code |-> None]
    /\ age = [c \in Conn |-> 0]
    /\ addrs = {}
    /\ ready = {}
    /\ joined = [c \in Conn |-> None]
    /\ reaper = "running"
    /\ sinceReap = 0

(* The handler of c goes on at p; a wait that starts there starts now. *)
GoTo(c, p) ==
    /\ pc' = [pc EXCEPT ![c] = p]
    /\ wait' = [wait EXCEPT ![c] = 0]

Reply(c, m) == told' = [told EXCEPT ![c] = m]

(* sendError, then the handler returns. *)
Fail(c) == GoTo(c, "done") /\ Reply(c, "error")

(* SessionStore.Claim: the code is free, whoever's session was there. *)
Claim(k) ==
    /\ sessions' = [sessions EXCEPT ![k] = None]
    /\ UNCHANGED <<age, addrs, ready, joined>>

-----------------------------------------------------------------------------
(* ServeHTTP                                                               *)

SenderHello(c) ==
    /\ pc[c] = "idle"
    /\ GoTo(c, "create")
    /\ UNCHANGED <<tries, code, presented, told, claimed, forwarded, sessionVars, reaperVars>>

ReceiverHello(c) ==
    /\ pc[c] = "idle"
    /\ GoTo(c, "claim")
    /\ \E k \in Code : presented' = [presented EXCEPT ![c] = k]
    /\ UNCHANGED <<tries, code, told, claimed, forwarded, sessionVars, reaperVars>>

(* No first message in time, or one that is neither hello. *)
Refuse(c) ==
    /\ pc[c] = "idle"
    /\ \/ Fail(c)
       \/ GoTo(c, "done") /\ UNCHANGED told
    /\ UNCHANGED <<tries, code, presented, claimed, forwarded, sessionVars, reaperVars>>

-----------------------------------------------------------------------------
(* handleSender                                                            *)

\* Mutant: Create does not look whether the code is taken.
Create_Overwrites(c, k) ==
    /\ pc[c] = "create"
    /\ code' = [code EXCEPT ![c] = k]
    /\ sessions' = [sessions EXCEPT ![k] = c]
    /\ age' = [age EXCEPT ![c] = 0]
    /\ GoTo(c, "sendCreated")
    /\ UNCHANGED <<tries, presented, told, claimed, forwarded, addrs, ready, joined, reaperVars>>

(* The code drawn is free: SessionStore.Create. *)
Create(c, k) ==
    /\ pc[c] = "create"
    /\ sessions[k] = None
    /\ code' = [code EXCEPT ![c] = k]
    /\ sessions' = [sessions EXCEPT ![k] = c]
    /\ age' = [age EXCEPT ![c] = 0]
    /\ GoTo(c, "sendCreated")
    /\ UNCHANGED <<tries, presented, told, claimed, forwarded, addrs, ready, joined, reaperVars>>

\* Mutant: no limit on the number of codes tried.
Collide_Unbounded(c, k) ==
    /\ pc[c] = "create"
    /\ sessions[k] # None
    /\ tries' = [tries EXCEPT ![c] = @ + 1]
    /\ UNCHANGED <<pc, wait, code, presented, told, claimed, forwarded, sessionVars, reaperVars>>

(* The code drawn is taken: try again, a few times. *)
Collide(c, k) ==
    /\ pc[c] = "create"
    /\ sessions[k] # None
    /\ tries' = [tries EXCEPT ![c] = @ + 1]
    /\ IF tries'[c] < MaxRetries
         THEN UNCHANGED <<pc, wait, told>>
         ELSE Fail(c)
    /\ UNCHANGED <<code, presented, claimed, forwarded, sessionVars, reaperVars>>

(* The random source fails. *)
NoCode(c) ==
    /\ pc[c] = "create"
    /\ Fail(c)
    /\ UNCHANGED <<tries, code, presented, claimed, forwarded, sessionVars, reaperVars>>

SendSessionCreated(c) ==
    /\ pc[c] = "sendCreated"
    /\ GoTo(c, "readAddrs")
    /\ Reply(c, "created")
    /\ UNCHANGED <<tries, code, presented, claimed, forwarded, sessionVars, reaperVars>>

\* Mutant: the handler leaves without removing its session.
SenderGivesUp_Orphan(c) ==
    /\ pc[c] \in {"sendCreated", "readAddrs"}
    /\ GoTo(c, "done")
    /\ UNCHANGED <<tries, code, presented, told, claimed, forwarded, sessionVars, reaperVars>>

(* SessionCreated cannot be sent, or PeerAddrs does not come in time or is *)
(* something else: remove the orphan and leave.                            *)
SenderGivesUp(c) ==
    /\ pc[c] \in {"sendCreated", "readAddrs"}
    /\ GoTo(c, "done")
    /\ Claim(code[c])
    /\ UNCHANGED <<tries, code, presented, told, claimed, forwarded, reaperVars>>

(* The sender's PeerAddrs are stored in the session. *)
ReadSenderAddrs(c) ==
    /\ pc[c] = "readAddrs"
    /\ addrs' = addrs \cup {c}
    /\ GoTo(c, "signal")
    /\ UNCHANGED <<tries, code, presented, told, claimed, forwarded, sessions, age, ready, joined,
                   reaperVars>>

(* close(sess.SenderReady), then the wait for a receiver begins. *)
Signal(c) ==
    /\ pc[c] = "signal"
    /\ ready' = ready \cup {c}
    /\ GoTo(c, "parked")
    /\ UNCHANGED <<tries, code, presented, told, claimed, forwarded, sessions, age, addrs, joined,
                   reaperVars>>

(* The select takes the receiver from the channel. *)
TakeReceiver(c) ==
    /\ pc[c] = "parked"
    /\ joined[c] # None
    /\ forwarded' = [forwarded EXCEPT ![c] = joined[c]]
    /\ joined' = [joined EXCEPT ![c] = None]
    /\ GoTo(c, "forward")
    /\ UNCHANGED <<tries, code, presented, told, claimed, sessions, age, addrs, ready, reaperVars>>

\* Mutant: a handler whose session was claimed waits on.
Expire_OnlyIfStored(c) ==
    /\ pc[c] = "parked"
    /\ wait[c] = TTL
    /\ sessions[code[c]] = c
    /\ Claim(code[c])
    /\ GoTo(c, "done")
    /\ UNCHANGED <<tries, code, presented, told, claimed, forwarded, reaperVars>>

(* waitCtx is done: remove what is under the code and leave.  When a       *)
(* receiver is in the channel too, the select may still choose this.       *)
Expire(c) ==
    /\ pc[c] = "parked"
    /\ wait[c] = TTL
    /\ Claim(code[c])
    /\ GoTo(c, "done")
    /\ UNCHANGED <<tries, code, presented, told, claimed, forwarded, reaperVars>>

(* ReceiverJoined is sent, or cannot be. *)
Forward(c) ==
    /\ pc[c] = "forward"
    /\ GoTo(c, "done")
    /\ \/ Reply(c, "joined")
       \/ UNCHANGED told
    /\ UNCHANGED <<tries, code, presented, claimed, forwarded, sessionVars, reaperVars>>

-----------------------------------------------------------------------------
(* handleReceiver                                                          *)

\* Mutant: the session is looked up and stays in the store.
ClaimSession_Keeps(c) ==
    /\ pc[c] = "claim"
    /\ IF sessions[presented[c]] # None
         THEN /\ claimed' = [claimed EXCEPT ![c] = sessions[presented[c]]]
              /\ GoTo(c, "awaitReady")
              /\ UNCHANGED told
         ELSE Fail(c) /\ UNCHANGED claimed
    /\ UNCHANGED <<tries, code, presented, forwarded, sessionVars, reaperVars>>

(* Get and remove in one step under the store's mutex. *)
ClaimSession(c) ==
    /\ pc[c] = "claim"
    /\ IF sessions[presented[c]] # None
         THEN /\ claimed' = [claimed EXCEPT ![c] = sessions[presented[c]]]
              /\ Claim(presented[c])
              /\ GoTo(c, "awaitReady")
              /\ UNCHANGED told
         ELSE Fail(c) /\ UNCHANGED <<claimed, sessionVars>>
    /\ UNCHANGED <<tries, code, presented, forwarded, reaperVars>>

\* Mutant: the session's addresses are used without waiting for them.
SenderIsReady_NoWait(c) ==
    /\ pc[c] = "awaitReady"
    /\ GoTo(c, "sendFound")
    /\ UNCHANGED <<tries, code, presented, told, claimed, forwarded, sessionVars, reaperVars>>

SenderIsReady(c) ==
    /\ pc[c] = "awaitReady"
    /\ claimed[c] \in ready
    /\ GoTo(c, "sendFound")
    /\ UNCHANGED <<tries, code, presented, told, claimed, forwarded, sessionVars, reaperVars>>

SenderNotReady(c) ==
    /\ pc[c] = "awaitReady"
    /\ Fail(c)
    /\ UNCHANGED <<tries, code, presented, claimed, forwarded, sessionVars, reaperVars>>

SendSessionFound(c) ==
    /\ pc[c] = "sendFound"
    /\ GoTo(c, "readPeer")
    /\ Reply(c, "found")
    /\ UNCHANGED <<tries, code, presented, claimed, forwarded, sessionVars, reaperVars>>

(* SessionFound cannot be sent, or the receiver's PeerAddrs do not come in *)
(* time (its user takes too long to accept, or declines).  The code is     *)
(* spent and the sender stays parked.                                      *)
ReceiverGivesUp(c) ==
    /\ pc[c] \in {"sendFound", "readPeer"}
    /\ GoTo(c, "done")
    /\ UNCHANGED <<tries, code, presented, told, claimed, forwarded, sessionVars, reaperVars>>

ReadReceiverAddrs(c) ==
    /\ pc[c] = "readPeer"
    /\ GoTo(c, "handoff")
    /\ UNCHANGED <<tries, code, presented, told, claimed, forwarded, sessionVars, reaperVars>>

(* Into the session's channel, or dropped when its one slot is full.       *)
(* Nobody checks whether the sender's handler is still there to read it.   *)
Handoff(c) ==
    /\ pc[c] = "handoff"
    /\ joined' = IF joined[claimed[c]] = None
                   THEN [joined EXCEPT ![claimed[c]] = c]
                   ELSE joined
    /\ GoTo(c, "done")
    /\ UNCHANGED <<tries, code, presented, told, claimed, forwarded, sessions, age, addrs, ready,
                   reaperVars>>

-----------------------------------------------------------------------------
(* Reaper and time                                                         *)

\* Mutant: the age is compared with the wrong end of the range.
Reap_KeepsOld ==
    /\ reaper # "stopped"
    /\ sinceReap = ReaperEvery
    /\ sinceReap' = 0
    /\ sessions' = [k \in Code |->
          IF sessions[k] # None /\ age[sessions[k]] > TTL + ReaperEvery
            THEN None ELSE sessions[k]]
    /\ UNCHANGED <<localVars, age, addrs, ready, joined, reaper>>

\* Mutant: a session of exactly the TTL is too old already.
Reap_OneEarly ==
    /\ reaper # "stopped"
    /\ sinceReap = ReaperEvery
    /\ sinceReap' = 0
    /\ sessions' = [k \in Code |->
          IF sessions[k] # None /\ age[sessions[k]] >= TTL THEN None ELSE sessions[k]]
    /\ UNCHANGED <<localVars, age, addrs, ready, joined, reaper>>

(* The ticker fires: sessions older than the TTL leave the store. *)
Reap ==
    /\ reaper # "stopped"
    /\ sinceReap = ReaperEvery
    /\ sinceReap' = 0
    /\ sessions' = [k \in Code |->
          IF sessions[k] # None /\ age[sessions[k]] > TTL THEN None ELSE sessions[k]]
    /\ UNCHANGED <<localVars, age, addrs, ready, joined, reaper>>

(* Server.Shutdown cancels the reaper's context, which may still choose a  *)
(* tick that is due at the same time.                                      *)
Shutdown ==
    /\ reaper = "running"
    /\ reaper' = "cancelled"
    /\ UNCHANGED <<localVars, sessionVars, sinceReap>>

ReaperExits ==
    /\ reaper = "cancelled"
    /\ reaper' = "stopped"
    /\ sinceReap' = 0
    /\ UNCHANGED <<localVars, sessionVars>>

(* A minute passes, no timer that is due being left behind. *)
Tick ==
    /\ \A c \in Conn : pc[c] \in TimedWaits => wait[c] < Limit(pc[c])
    /\ reaper # "stopped" => sinceReap < ReaperEvery
    /\ wait' = [c \in Conn |-> IF pc[c] \in TimedWaits THEN wait[c] + 1 ELSE wait[c]]
    /\ age' = [c \in Conn |->
          IF Stored(c) /\ age[c] < AgeCap THEN age[c] + 1 ELSE age[c]]
    /\ sinceReap' = IF reaper = "stopped" THEN 0 ELSE sinceReap + 1
    /\ UNCHANGED <<pc, tries, code, presented, told, claimed, forwarded, sessions, addrs, ready,
                   joined, reaper>>

-----------------------------------------------------------------------------
Hello(c) == SenderHello(c) \/ ReceiverHello(c) \/ Refuse(c)

SenderStep(c) ==
    \/ \E k \in Code : Create(c, k) \/ Collide(c, k)
    \/ NoCode(c)
    \/ SendSessionCreated(c)
    \/ SenderGivesUp(c)
    \/ ReadSenderAddrs(c)
    \/ Signal(c)
    \/ TakeReceiver(c)
    \/ Expire(c)
    \/ Forward(c)

ReceiverStep(c) ==
    \/ ClaimSession(c)
    \/ SenderIsReady(c)
    \/ SenderNotReady(c)
    \/ SendSessionFound(c)
    \/ ReceiverGivesUp(c)
    \/ ReadReceiverAddrs(c)
    \/ Handoff(c)

Next ==
    \/ \E c \in Conn : Hello(c) \/ SenderStep(c) \/ ReceiverStep(c)
    \/ Reap
    \/ Shutdown
    \/ ReaperExits
    \/ Tick

Spec == Init /\ [][Next]_vars

(* Goroutines are scheduled, timers fire and time passes.  Nothing makes a *)
(* client connect.                                                         *)
Fairness ==
    /\ \A c \in Conn : WF_vars(SenderStep(c)) /\ WF_vars(ReceiverStep(c))
    /\ WF_vars(Reap)
    /\ WF_vars(Tick)

FairSpec == Spec /\ Fairness

-----------------------------------------------------------------------------
(* Properties                                                              *)

(* Types and bounds; the code loop gives up after MaxRetries codes and no  *)
(* timed wait outlasts its limit.                                          *)
TypeOK ==
    /\ pc \in [Conn -> Pcs]
    /\ tries \in [Conn -> 0 .. MaxRetries]
    /\ code \in [Conn -> Code \cup {None}]
    /\ presented \in [Conn -> Code \cup {None}]
    /\ wait \in [Conn -> 0 .. TTL]
    /\ told \in [Conn -> Replies]
    /\ sessions \in [Code -> Conn \cup {None}]
    /\ age \in [Conn -> 0 .. AgeCap]
    /\ addrs \subseteq Conn
    /\ ready \subseteq Conn
    /\ joined \in [Conn -> Conn \cup {None}]
    /\ claimed \in [Conn -> Conn \cup {None}]
    /\ forwarded \in [Conn -> Conn \cup {None}]
    /\ reaper \in {"running", "cancelled", "stopped"}
    /\ sinceReap \in 0 .. ReaperEvery

(* Two receivers never hold the same session, and a session one of them    *)
(* holds cannot be claimed again: a code pairs a sender with one receiver, *)
(* one that presented it.                                                  *)
ClaimExclusive ==
    \A r \in Conn : claimed[r] # None =>
        /\ ~Stored(claimed[r])
        /\ code[claimed[r]] = presented[r]
        /\ \A q \in Conn \ {r} : claimed[q] # claimed[r]

(* SessionFound is never sent with the sender's addresses missing, however *)
(* early the receiver presents the code.                                   *)
FoundHasAddrs ==
    \A r \in Conn :
        pc[r] \in {"sendFound", "readPeer", "handoff"} \/ told[r] = "found"
            => claimed[r] \in addrs

(* The one slot of a session's channel is free whenever a receiver is      *)
(* about to hand its addresses off: they are never dropped for want of     *)
(* room.                                                                   *)
HandoffHasRoom ==
    \A r \in Conn : pc[r] = "handoff" =>
        joined[claimed[r]] = None /\ forwarded[claimed[r]] = None

(* A code that can be claimed leads to a handler that is still there: no   *)
(* path out of handleSender leaves its own session behind.                 *)
NoOrphans ==
    \A k \in Code : sessions[k] # None =>
        /\ code[sessions[k]] = k
        /\ pc[sessions[k]] \in {"sendCreated", "readAddrs", "signal", "parked"}

(* While the reaper runs, a code that nobody claims is gone at the latest  *)
(* one sweep after its time, even if its sender is stuck in a write.       *)
LifetimeBound ==
    reaper = "running" =>
        \A k \in Code : sessions[k] # None => age[sessions[k]] <= TTL + ReaperEvery

(* Senders that were told of a receiver, with that receiver. *)
Introduced == {p \in Conn \X Conn : told[p[1]] = "joined" /\ forwarded[p[1]] = p[2]}

R == INSTANCE Rendezvous WITH
        Party <- Conn,
        offer <- sessions,
        offered <- {c \in Conn : code[c] # None},
        partner <- claimed,
        introduced <- Introduced

(* One receiver for each offer, one offer for each receiver, and a sender  *)
(* is told only of the receiver that got its offer: the handlers implement *)
(* Rendezvous.                                                             *)
ImplementsRendezvous == R!Spec

(* Every handler that got past its first message ends: no goroutine, and   *)
(* no code, is held for ever.                                              *)
HandlersEnd == \A c \in Conn : pc[c] # "idle" ~> pc[c] = "done"

(* No code stays in the store for ever: the next transfer can draw it,     *)
(* with or without the reaper.                                             *)
CodeFreed == \A k \in Code : sessions[k] # None ~> sessions[k] = None

(* What the comment on SessionTTL says: no code lives longer. *)
CodeLifetimeIsTTL ==
    \A k \in Code : sessions[k] # None => age[sessions[k]] <= TTL

(* What the comments say handleSender's cleanup removes, "the orphan",     *)
(* "the session if it's still there": its own session.  A session leaves   *)
(* the store only when a receiver claims it, its own handler leaves, or it *)
(* is too old.                                                             *)
OnlyOwnSessionRemoved ==
    [][\A k \in Code : sessions[k] # None /\ sessions'[k] # sessions[k] =>
          \/ \E r \in Conn : claimed[r] = None /\ claimed'[r] = sessions[k]
          \/ pc'[sessions[k]] = "done"
          \/ age[sessions[k]] > TTL]_vars

(* The reasons for which a session leaves the store in fact: those three,  *)
(* or that its code was given to two senders one after the other and the   *)
(* handler of the first, whose session is gone, ends.  Nothing else takes  *)
(* a code away from a sender that waits, and none is passed on unseen.     *)
RemovedForAReason ==
    [][\A k \in Code : sessions[k] # None /\ sessions'[k] # sessions[k] =>
          /\ sessions'[k] = None
          /\ \/ \E r \in Conn : claimed[r] = None /\ claimed'[r] = sessions[k]
             \/ pc'[sessions[k]] = "done"
             \/ age[sessions[k]] > TTL
             \/ \E c \in Conn \ {sessions[k]} :
                   /\ code[c] = k /\ ~Stored(c)
                   /\ pc[c] # "done" /\ pc'[c] = "done"]_vars
=============================================================================
