---------------------------- MODULE RelayProofs ----------------------------
(***************************************************************************)
(* Proofs about Relay, for any number of connections and codes and any     *)
(* time limits.                                                            *)
(***************************************************************************)
EXTENDS Relay, TLAPS

(* What a handler has done by the time it is at a point of its code. *)
HandlerOK ==
    \A c \in Conn :
        /\ pc[c] \in {"idle", "create", "claim"} => told[c] = "nothing" /\ claimed[c] = None
        /\ pc[c] \in {"idle", "create"} \cup ReceiverPcs => code[c] = None
        /\ pc[c] \in SenderPcs => claimed[c] = None
        /\ pc[c] \in SenderPcs \ {"create"} => code[c] \in Code
        /\ pc[c] \in ReceiverPcs => presented[c] \in Code
        /\ pc[c] \in ReceiverPcs \ {"claim"} => claimed[c] \in Conn
        /\ pc[c] \in {"idle", "create"} => tries[c] < MaxRetries
        /\ pc[c] = "signal" => c \in addrs
        /\ pc[c] = "forward" => forwarded[c] \in Conn
        /\ told[c] = "joined" => pc[c] = "done"

(* Where a session is: in the store under its own code with its handler    *)
(* alive, or with the one receiver that claimed it, or gone.               *)
SessionOK ==
    /\ \A k \in Code : sessions[k] # None =>
          /\ code[sessions[k]] = k
          /\ pc[sessions[k]] \in {"sendCreated", "readAddrs", "signal", "parked"}
    /\ \A r \in Conn : claimed[r] # None =>
          /\ code[claimed[r]] = presented[r] /\ presented[r] \in Code
          /\ \A k \in Code : sessions[k] # claimed[r]
          /\ \A q \in Conn : q # r => claimed[q] # claimed[r]

(* A receiver in a session's channel, or taken from it, is the one that    *)
(* claimed the session, and has done its part; addresses are in place      *)
(* before SenderReady is closed, and SenderReady before SessionFound.      *)
ChannelOK ==
    /\ \A s \in Conn : joined[s] # None => claimed[joined[s]] = s /\ pc[joined[s]] = "done"
    /\ \A s \in Conn : forwarded[s] # None =>
          claimed[forwarded[s]] = s /\ pc[forwarded[s]] = "done"
    /\ ready \subseteq addrs
    /\ \A r \in Conn :
          pc[r] \in {"sendFound", "readPeer", "handoff"} \/ told[r] = "found"
            => claimed[r] \in addrs

(* Since the last sweep no session is older than the TTL by more than the  *)
(* time since that sweep.                                                  *)
AgeOK ==
    reaper = "running" =>
        \A k \in Code : sessions[k] # None => age[sessions[k]] <= TTL + sinceReap

IInv == TypeOK /\ HandlerOK /\ SessionOK /\ ChannelOK /\ AgeOK

LEMMA InitIInv == Init => IInv
BY RelayAssumption
   DEF Init, IInv, TypeOK, HandlerOK, SessionOK, ChannelOK, AgeOK, Pcs, Replies, AgeCap,
       SenderPcs, ReceiverPcs

LEMMA StepTypeOK == IInv /\ [Next]_vars => TypeOK'
<1> SUFFICES ASSUME IInv, [Next]_vars PROVE TypeOK'
    OBVIOUS
<1> USE RelayAssumption DEF IInv, TypeOK, HandlerOK, Pcs, SenderPcs, ReceiverPcs, Replies, AgeCap
<1>1. ASSUME NEW c \in Conn, SenderHello(c)
      PROVE  TypeOK'
    BY <1>1 DEF SenderHello, GoTo, sessionVars, reaperVars
<1>2. ASSUME NEW c \in Conn, ReceiverHello(c)
      PROVE  TypeOK'
    BY <1>2 DEF ReceiverHello, GoTo, sessionVars, reaperVars
<1>3. ASSUME NEW c \in Conn, Refuse(c)
      PROVE  TypeOK'
    BY <1>3 DEF Refuse, GoTo, Fail, Reply, sessionVars, reaperVars
<1>4. ASSUME NEW c \in Conn, NEW k \in Code, Create(c, k)
      PROVE  TypeOK'
    BY <1>4 DEF Create, GoTo, reaperVars
<1>5. ASSUME NEW c \in Conn, NEW k \in Code, Collide(c, k)
      PROVE  TypeOK'
    BY <1>5 DEF Collide, GoTo, Fail, Reply, sessionVars, reaperVars
<1>6. ASSUME NEW c \in Conn, NoCode(c)
      PROVE  TypeOK'
    BY <1>6 DEF NoCode, GoTo, Fail, Reply, sessionVars, reaperVars
<1>7. ASSUME NEW c \in Conn, SendSessionCreated(c)
      PROVE  TypeOK'
    BY <1>7 DEF SendSessionCreated, GoTo, Reply, sessionVars, reaperVars
<1>8. ASSUME NEW c \in Conn, SenderGivesUp(c)
      PROVE  TypeOK'
    BY <1>8 DEF SenderGivesUp, GoTo, Claim, reaperVars
<1>9. ASSUME NEW c \in Conn, ReadSenderAddrs(c)
      PROVE  TypeOK'
    BY <1>9 DEF ReadSenderAddrs, GoTo, reaperVars
<1>10. ASSUME NEW c \in Conn, Signal(c)
      PROVE  TypeOK'
    BY <1>10 DEF Signal, GoTo, reaperVars
<1>11. ASSUME NEW c \in Conn, TakeReceiver(c)
      PROVE  TypeOK'
    BY <1>11 DEF TakeReceiver, GoTo, reaperVars
<1>12. ASSUME NEW c \in Conn, Expire(c)
      PROVE  TypeOK'
    BY <1>12 DEF Expire, GoTo, Claim, reaperVars
<1>13. ASSUME NEW c \in Conn, Forward(c)
      PROVE  TypeOK'
    BY <1>13 DEF Forward, GoTo, Reply, sessionVars, reaperVars
<1>14. ASSUME NEW c \in Conn, ClaimSession(c)
      PROVE  TypeOK'
    BY <1>14 DEF ClaimSession, GoTo, Claim, Fail, Reply, sessionVars, reaperVars
<1>15. ASSUME NEW c \in Conn, SenderIsReady(c)
      PROVE  TypeOK'
    BY <1>15 DEF SenderIsReady, GoTo, sessionVars, reaperVars
<1>16. ASSUME NEW c \in Conn, SenderNotReady(c)
      PROVE  TypeOK'
    BY <1>16 DEF SenderNotReady, GoTo, Fail, Reply, sessionVars, reaperVars
<1>17. ASSUME NEW c \in Conn, SendSessionFound(c)
      PROVE  TypeOK'
    BY <1>17 DEF SendSessionFound, GoTo, Reply, sessionVars, reaperVars
<1>18. ASSUME NEW c \in Conn, ReceiverGivesUp(c)
      PROVE  TypeOK'
    BY <1>18 DEF ReceiverGivesUp, GoTo, sessionVars, reaperVars
<1>19. ASSUME NEW c \in Conn, ReadReceiverAddrs(c)
      PROVE  TypeOK'
    BY <1>19 DEF ReadReceiverAddrs, GoTo, sessionVars, reaperVars
<1>20. ASSUME NEW c \in Conn, Handoff(c)
      PROVE  TypeOK'
    BY <1>20 DEF Handoff, GoTo, reaperVars
<1>21. CASE Reap
    BY <1>21 DEF Reap, localVars
<1>22. CASE Shutdown
    BY <1>22 DEF Shutdown, sessionVars, localVars
<1>23. CASE ReaperExits
    BY <1>23 DEF ReaperExits, sessionVars, localVars
<1>24. CASE Tick
    BY <1>24 DEF Tick, TimedWaits, ShortWaits, Limit, Stored
<1>25. CASE UNCHANGED vars
    BY <1>25 DEF vars, localVars, sessionVars, reaperVars
<1> QED
    BY <1>1, <1>2, <1>3, <1>4, <1>5, <1>6, <1>7, <1>8, <1>9, <1>10, <1>11, <1>12, <1>13,
       <1>14, <1>15, <1>16, <1>17, <1>18, <1>19, <1>20, <1>21, <1>22, <1>23, <1>24, <1>25
    DEF Next, Hello, SenderStep, ReceiverStep

LEMMA StepHandlerOK == IInv /\ [Next]_vars => HandlerOK'
<1> SUFFICES ASSUME IInv, [Next]_vars PROVE HandlerOK'
    OBVIOUS
<1> USE RelayAssumption DEF IInv, TypeOK, HandlerOK, ChannelOK, SessionOK, Pcs, SenderPcs, ReceiverPcs
<1>1. ASSUME NEW c \in Conn, SenderHello(c)
      PROVE  HandlerOK'
    BY <1>1 DEF SenderHello, GoTo, sessionVars, reaperVars
<1>2. ASSUME NEW c \in Conn, ReceiverHello(c)
      PROVE  HandlerOK'
    BY <1>2 DEF ReceiverHello, GoTo, sessionVars, reaperVars
<1>3. ASSUME NEW c \in Conn, Refuse(c)
      PROVE  HandlerOK'
    BY <1>3 DEF Refuse, GoTo, Fail, Reply, sessionVars, reaperVars
<1>4. ASSUME NEW c \in Conn, NEW k \in Code, Create(c, k)
      PROVE  HandlerOK'
    BY <1>4 DEF Create, GoTo, reaperVars
<1>5. ASSUME NEW c \in Conn, NEW k \in Code, Collide(c, k)
      PROVE  HandlerOK'
    BY <1>5 DEF Collide, GoTo, Fail, Reply, sessionVars, reaperVars
<1>6. ASSUME NEW c \in Conn, NoCode(c)
      PROVE  HandlerOK'
    BY <1>6 DEF NoCode, GoTo, Fail, Reply, sessionVars, reaperVars
<1>7. ASSUME NEW c \in Conn, SendSessionCreated(c)
      PROVE  HandlerOK'
    BY <1>7 DEF SendSessionCreated, GoTo, Reply, sessionVars, reaperVars
<1>8. ASSUME NEW c \in Conn, SenderGivesUp(c)
      PROVE  HandlerOK'
    BY <1>8 DEF SenderGivesUp, GoTo, Claim, reaperVars
<1>9. ASSUME NEW c \in Conn, ReadSenderAddrs(c)
      PROVE  HandlerOK'
    BY <1>9 DEF ReadSenderAddrs, GoTo, reaperVars
<1>10. ASSUME NEW c \in Conn, Signal(c)
      PROVE  HandlerOK'
    BY <1>10 DEF Signal, GoTo, reaperVars
<1>11. ASSUME NEW c \in Conn, TakeReceiver(c)
      PROVE  HandlerOK'
    BY <1>11 DEF TakeReceiver, GoTo, reaperVars
<1>12. ASSUME NEW c \in Conn, Expire(c)
      PROVE  HandlerOK'
    BY <1>12 DEF Expire, GoTo, Claim, reaperVars
<1>13. ASSUME NEW c \in Conn, Forward(c)
      PROVE  HandlerOK'
    BY <1>13 DEF Forward, GoTo, Reply, sessionVars, reaperVars
<1>14. ASSUME NEW c \in Conn, ClaimSession(c)
      PROVE  HandlerOK'
    BY <1>14 DEF ClaimSession, GoTo, Claim, Fail, Reply, sessionVars, reaperVars
<1>15. ASSUME NEW c \in Conn, SenderIsReady(c)
      PROVE  HandlerOK'
    BY <1>15 DEF SenderIsReady, GoTo, sessionVars, reaperVars
<1>16. ASSUME NEW c \in Conn, SenderNotReady(c)
      PROVE  HandlerOK'
    BY <1>16 DEF SenderNotReady, GoTo, Fail, Reply, sessionVars, reaperVars
<1>17. ASSUME NEW c \in Conn, SendSessionFound(c)
      PROVE  HandlerOK'
    BY <1>17 DEF SendSessionFound, GoTo, Reply, sessionVars, reaperVars
<1>18. ASSUME NEW c \in Conn, ReceiverGivesUp(c)
      PROVE  HandlerOK'
    BY <1>18 DEF ReceiverGivesUp, GoTo, sessionVars, reaperVars
<1>19. ASSUME NEW c \in Conn, ReadReceiverAddrs(c)
      PROVE  HandlerOK'
    BY <1>19 DEF ReadReceiverAddrs, GoTo, sessionVars, reaperVars
<1>20. ASSUME NEW c \in Conn, Handoff(c)
      PROVE  HandlerOK'
    BY <1>20 DEF Handoff, GoTo, reaperVars
<1>21. CASE Reap
    BY <1>21 DEF Reap, localVars
<1>22. CASE Shutdown
    BY <1>22 DEF Shutdown, sessionVars, localVars
<1>23. CASE ReaperExits
    BY <1>23 DEF ReaperExits, sessionVars, localVars
<1>24. CASE Tick
    BY <1>24 DEF Tick, TimedWaits, ShortWaits, Limit, Stored
<1>25. CASE UNCHANGED vars
    BY <1>25 DEF vars, localVars, sessionVars, reaperVars
<1> QED
    BY <1>1, <1>2, <1>3, <1>4, <1>5, <1>6, <1>7, <1>8, <1>9, <1>10, <1>11, <1>12, <1>13,
       <1>14, <1>15, <1>16, <1>17, <1>18, <1>19, <1>20, <1>21, <1>22, <1>23, <1>24, <1>25
    DEF Next, Hello, SenderStep, ReceiverStep

LEMMA StepSessionOK == IInv /\ [Next]_vars => SessionOK'
<1> SUFFICES ASSUME IInv, [Next]_vars PROVE SessionOK'
    OBVIOUS
<1> USE RelayAssumption DEF IInv, TypeOK, HandlerOK, SessionOK, Pcs, SenderPcs, ReceiverPcs
<1>1. ASSUME NEW c \in Conn, SenderHello(c)
      PROVE  SessionOK'
    BY <1>1 DEF SenderHello, GoTo, sessionVars, reaperVars
<1>2. ASSUME NEW c \in Conn, ReceiverHello(c)
      PROVE  SessionOK'
    BY <1>2 DEF ReceiverHello, GoTo, sessionVars, reaperVars
<1>3. ASSUME NEW c \in Conn, Refuse(c)
      PROVE  SessionOK'
    BY <1>3 DEF Refuse, GoTo, Fail, Reply, sessionVars, reaperVars
<1>4. ASSUME NEW c \in Conn, NEW k \in Code, Create(c, k)
      PROVE  SessionOK'
    BY <1>4 DEF Create, GoTo, reaperVars
<1>5. ASSUME NEW c \in Conn, NEW k \in Code, Collide(c, k)
      PROVE  SessionOK'
    BY <1>5 DEF Collide, GoTo, Fail, Reply, sessionVars, reaperVars
<1>6. ASSUME NEW c \in Conn, NoCode(c)
      PROVE  SessionOK'
    BY <1>6 DEF NoCode, GoTo, Fail, Reply, sessionVars, reaperVars
<1>7. ASSUME NEW c \in Conn, SendSessionCreated(c)
      PROVE  SessionOK'
    BY <1>7 DEF SendSessionCreated, GoTo, Reply, sessionVars, reaperVars
<1>8. ASSUME NEW c \in Conn, SenderGivesUp(c)
      PROVE  SessionOK'
    BY <1>8 DEF SenderGivesUp, GoTo, Claim, reaperVars
<1>9. ASSUME NEW c \in Conn, ReadSenderAddrs(c)
      PROVE  SessionOK'
    BY <1>9 DEF ReadSenderAddrs, GoTo, reaperVars
<1>10. ASSUME NEW c \in Conn, Signal(c)
      PROVE  SessionOK'
    BY <1>10 DEF Signal, GoTo, reaperVars
<1>11. ASSUME NEW c \in Conn, TakeReceiver(c)
      PROVE  SessionOK'
    BY <1>11 DEF ChannelOK, TakeReceiver, GoTo, reaperVars
<1>12. ASSUME NEW c \in Conn, Expire(c)
      PROVE  SessionOK'
    BY <1>12 DEF Expire, GoTo, Claim, reaperVars
<1>13. ASSUME NEW c \in Conn, Forward(c)
      PROVE  SessionOK'
    BY <1>13 DEF Forward, GoTo, Reply, sessionVars, reaperVars
<1>14. ASSUME NEW c \in Conn, ClaimSession(c)
      PROVE  SessionOK'
    BY <1>14 DEF ClaimSession, GoTo, Claim, Fail, Reply, sessionVars, reaperVars
<1>15. ASSUME NEW c \in Conn, SenderIsReady(c)
      PROVE  SessionOK'
    BY <1>15 DEF SenderIsReady, GoTo, sessionVars, reaperVars
<1>16. ASSUME NEW c \in Conn, SenderNotReady(c)
      PROVE  SessionOK'
    BY <1>16 DEF SenderNotReady, GoTo, Fail, Reply, sessionVars, reaperVars
<1>17. ASSUME NEW c \in Conn, SendSessionFound(c)
      PROVE  SessionOK'
    BY <1>17 DEF SendSessionFound, GoTo, Reply, sessionVars, reaperVars
<1>18. ASSUME NEW c \in Conn, ReceiverGivesUp(c)
      PROVE  SessionOK'
    BY <1>18 DEF ReceiverGivesUp, GoTo, sessionVars, reaperVars
<1>19. ASSUME NEW c \in Conn, ReadReceiverAddrs(c)
      PROVE  SessionOK'
    BY <1>19 DEF ReadReceiverAddrs, GoTo, sessionVars, reaperVars
<1>20. ASSUME NEW c \in Conn, Handoff(c)
      PROVE  SessionOK'
    BY <1>20 DEF Handoff, GoTo, reaperVars
<1>21. CASE Reap
    BY <1>21 DEF Reap, localVars
<1>22. CASE Shutdown
    BY <1>22 DEF Shutdown, sessionVars, localVars
<1>23. CASE ReaperExits
    BY <1>23 DEF ReaperExits, sessionVars, localVars
<1>24. CASE Tick
    BY <1>24 DEF Tick, TimedWaits, ShortWaits, Limit, Stored
<1>25. CASE UNCHANGED vars
    BY <1>25 DEF vars, localVars, sessionVars, reaperVars
<1> QED
    BY <1>1, <1>2, <1>3, <1>4, <1>5, <1>6, <1>7, <1>8, <1>9, <1>10, <1>11, <1>12, <1>13,
       <1>14, <1>15, <1>16, <1>17, <1>18, <1>19, <1>20, <1>21, <1>22, <1>23, <1>24, <1>25
    DEF Next, Hello, SenderStep, ReceiverStep

LEMMA StepChannelOK == IInv /\ [Next]_vars => ChannelOK'
<1> SUFFICES ASSUME IInv, [Next]_vars PROVE ChannelOK'
    OBVIOUS
<1> USE RelayAssumption DEF IInv, TypeOK, HandlerOK, SessionOK, ChannelOK, Pcs, SenderPcs, ReceiverPcs
<1>1. ASSUME NEW c \in Conn, SenderHello(c)
      PROVE  ChannelOK'
    BY <1>1 DEF SenderHello, GoTo, sessionVars, reaperVars
<1>2. ASSUME NEW c \in Conn, ReceiverHello(c)
      PROVE  ChannelOK'
    BY <1>2 DEF ReceiverHello, GoTo, sessionVars, reaperVars
<1>3. ASSUME NEW c \in Conn, Refuse(c)
      PROVE  ChannelOK'
    BY <1>3 DEF Refuse, GoTo, Fail, Reply, sessionVars, reaperVars
<1>4. ASSUME NEW c \in Conn, NEW k \in Code, Create(c, k)
      PROVE  ChannelOK'
    BY <1>4 DEF Create, GoTo, reaperVars
<1>5. ASSUME NEW c \in Conn, NEW k \in Code, Collide(c, k)
      PROVE  ChannelOK'
    BY <1>5 DEF Collide, GoTo, Fail, Reply, sessionVars, reaperVars
<1>6. ASSUME NEW c \in Conn, NoCode(c)
      PROVE  ChannelOK'
    BY <1>6 DEF NoCode, GoTo, Fail, Reply, sessionVars, reaperVars
<1>7. ASSUME NEW c \in Conn, SendSessionCreated(c)
      PROVE  ChannelOK'
    BY <1>7 DEF SendSessionCreated, GoTo, Reply, sessionVars, reaperVars
<1>8. ASSUME NEW c \in Conn, SenderGivesUp(c)
      PROVE  ChannelOK'
    BY <1>8 DEF SenderGivesUp, GoTo, Claim, reaperVars
<1>9. ASSUME NEW c \in Conn, ReadSenderAddrs(c)
      PROVE  ChannelOK'
    BY <1>9 DEF ReadSenderAddrs, GoTo, reaperVars
<1>10. ASSUME NEW c \in Conn, Signal(c)
      PROVE  ChannelOK'
    BY <1>10 DEF Signal, GoTo, reaperVars
<1>11. ASSUME NEW c \in Conn, TakeReceiver(c)
      PROVE  ChannelOK'
    BY <1>11 DEF TakeReceiver, GoTo, reaperVars
<1>12. ASSUME NEW c \in Conn, Expire(c)
      PROVE  ChannelOK'
    BY <1>12 DEF Expire, GoTo, Claim, reaperVars
<1>13. ASSUME NEW c \in Conn, Forward(c)
      PROVE  ChannelOK'
    BY <1>13 DEF Forward, GoTo, Reply, sessionVars, reaperVars
<1>14. ASSUME NEW c \in Conn, ClaimSession(c)
      PROVE  ChannelOK'
    BY <1>14 DEF ClaimSession, GoTo, Claim, Fail, Reply, sessionVars, reaperVars
<1>15. ASSUME NEW c \in Conn, SenderIsReady(c)
      PROVE  ChannelOK'
    BY <1>15 DEF SenderIsReady, GoTo, sessionVars, reaperVars
<1>16. ASSUME NEW c \in Conn, SenderNotReady(c)
      PROVE  ChannelOK'
    BY <1>16 DEF SenderNotReady, GoTo, Fail, Reply, sessionVars, reaperVars
<1>17. ASSUME NEW c \in Conn, SendSessionFound(c)
      PROVE  ChannelOK'
    BY <1>17 DEF SendSessionFound, GoTo, Reply, sessionVars, reaperVars
<1>18. ASSUME NEW c \in Conn, ReceiverGivesUp(c)
      PROVE  ChannelOK'
    BY <1>18 DEF ReceiverGivesUp, GoTo, sessionVars, reaperVars
<1>19. ASSUME NEW c \in Conn, ReadReceiverAddrs(c)
      PROVE  ChannelOK'
    BY <1>19 DEF ReadReceiverAddrs, GoTo, sessionVars, reaperVars
<1>20. ASSUME NEW c \in Conn, Handoff(c)
      PROVE  ChannelOK'
    BY <1>20 DEF Handoff, GoTo, reaperVars
<1>21. CASE Reap
    BY <1>21 DEF Reap, localVars
<1>22. CASE Shutdown
    BY <1>22 DEF Shutdown, sessionVars, localVars
<1>23. CASE ReaperExits
    BY <1>23 DEF ReaperExits, sessionVars, localVars
<1>24. CASE Tick
    BY <1>24 DEF Tick, TimedWaits, ShortWaits, Limit, Stored
<1>25. CASE UNCHANGED vars
    BY <1>25 DEF vars, localVars, sessionVars, reaperVars
<1> QED
    BY <1>1, <1>2, <1>3, <1>4, <1>5, <1>6, <1>7, <1>8, <1>9, <1>10, <1>11, <1>12, <1>13,
       <1>14, <1>15, <1>16, <1>17, <1>18, <1>19, <1>20, <1>21, <1>22, <1>23, <1>24, <1>25
    DEF Next, Hello, SenderStep, ReceiverStep

LEMMA StepAgeOK == IInv /\ [Next]_vars => AgeOK'
<1> SUFFICES ASSUME IInv, [Next]_vars PROVE AgeOK'
    OBVIOUS
<1> USE RelayAssumption DEF IInv, TypeOK, AgeOK, HandlerOK, SessionOK
<1>1. ASSUME NEW c \in Conn, SenderHello(c)
      PROVE  AgeOK'
    BY <1>1 DEF SenderHello, GoTo, sessionVars, reaperVars
<1>2. ASSUME NEW c \in Conn, ReceiverHello(c)
      PROVE  AgeOK'
    BY <1>2 DEF ReceiverHello, GoTo, sessionVars, reaperVars
<1>3. ASSUME NEW c \in Conn, Refuse(c)
      PROVE  AgeOK'
    BY <1>3 DEF Refuse, GoTo, Fail, Reply, sessionVars, reaperVars
<1>4. ASSUME NEW c \in Conn, NEW k \in Code, Create(c, k)
      PROVE  AgeOK'
    BY <1>4 DEF Create, GoTo, reaperVars
<1>5. ASSUME NEW c \in Conn, NEW k \in Code, Collide(c, k)
      PROVE  AgeOK'
    BY <1>5 DEF Collide, GoTo, Fail, Reply, sessionVars, reaperVars
<1>6. ASSUME NEW c \in Conn, NoCode(c)
      PROVE  AgeOK'
    BY <1>6 DEF NoCode, GoTo, Fail, Reply, sessionVars, reaperVars
<1>7. ASSUME NEW c \in Conn, SendSessionCreated(c)
      PROVE  AgeOK'
    BY <1>7 DEF SendSessionCreated, GoTo, Reply, sessionVars, reaperVars
<1>8. ASSUME NEW c \in Conn, SenderGivesUp(c)
      PROVE  AgeOK'
    BY <1>8 DEF SenderGivesUp, GoTo, Claim, reaperVars
<1>9. ASSUME NEW c \in Conn, ReadSenderAddrs(c)
      PROVE  AgeOK'
    BY <1>9 DEF ReadSenderAddrs, GoTo, reaperVars
<1>10. ASSUME NEW c \in Conn, Signal(c)
      PROVE  AgeOK'
    BY <1>10 DEF Signal, GoTo, reaperVars
<1>11. ASSUME NEW c \in Conn, TakeReceiver(c)
      PROVE  AgeOK'
    BY <1>11 DEF TakeReceiver, GoTo, reaperVars
<1>12. ASSUME NEW c \in Conn, Expire(c)
      PROVE  AgeOK'
    BY <1>12 DEF Expire, GoTo, Claim, reaperVars
<1>13. ASSUME NEW c \in Conn, Forward(c)
      PROVE  AgeOK'
    BY <1>13 DEF Forward, GoTo, Reply, sessionVars, reaperVars
<1>14. ASSUME NEW c \in Conn, ClaimSession(c)
      PROVE  AgeOK'
    BY <1>14 DEF ClaimSession, GoTo, Claim, Fail, Reply, sessionVars, reaperVars
<1>15. ASSUME NEW c \in Conn, SenderIsReady(c)
      PROVE  AgeOK'
    BY <1>15 DEF SenderIsReady, GoTo, sessionVars, reaperVars
<1>16. ASSUME NEW c \in Conn, SenderNotReady(c)
      PROVE  AgeOK'
    BY <1>16 DEF SenderNotReady, GoTo, Fail, Reply, sessionVars, reaperVars
<1>17. ASSUME NEW c \in Conn, SendSessionFound(c)
      PROVE  AgeOK'
    BY <1>17 DEF SendSessionFound, GoTo, Reply, sessionVars, reaperVars
<1>18. ASSUME NEW c \in Conn, ReceiverGivesUp(c)
      PROVE  AgeOK'
    BY <1>18 DEF ReceiverGivesUp, GoTo, sessionVars, reaperVars
<1>19. ASSUME NEW c \in Conn, ReadReceiverAddrs(c)
      PROVE  AgeOK'
    BY <1>19 DEF ReadReceiverAddrs, GoTo, sessionVars, reaperVars
<1>20. ASSUME NEW c \in Conn, Handoff(c)
      PROVE  AgeOK'
    BY <1>20 DEF Handoff, GoTo, reaperVars
<1>21. CASE Reap
    BY <1>21 DEF Reap, localVars
<1>22. CASE Shutdown
    BY <1>22 DEF Shutdown, sessionVars, localVars
<1>23. CASE ReaperExits
    BY <1>23 DEF ReaperExits, sessionVars, localVars
<1>24. CASE Tick
    BY <1>24 DEF Tick, TimedWaits, ShortWaits, Limit, Stored
<1>25. CASE UNCHANGED vars
    BY <1>25 DEF vars, localVars, sessionVars, reaperVars
<1> QED
    BY <1>1, <1>2, <1>3, <1>4, <1>5, <1>6, <1>7, <1>8, <1>9, <1>10, <1>11, <1>12, <1>13,
       <1>14, <1>15, <1>16, <1>17, <1>18, <1>19, <1>20, <1>21, <1>22, <1>23, <1>24, <1>25
    DEF Next, Hello, SenderStep, ReceiverStep

LEMMA StepIInv == IInv /\ [Next]_vars => IInv'
BY StepTypeOK, StepHandlerOK, StepSessionOK, StepChannelOK, StepAgeOK DEF IInv

(* IInv holds in every reachable state. *)
THEOREM Invariance == Spec => []IInv
<1>1. Init => IInv
    BY InitIInv
<1>2. IInv /\ [Next]_vars => IInv'
    BY StepIInv
<1> QED
    BY <1>1, <1>2, PTL DEF Spec

(* The state stays within its types and bounds: in particular the code     *)
(* loop tries at most MaxRetries codes and no timed wait outlasts its      *)
(* limit.                                                                  *)
THEOREM TypeCorrect == Spec => []TypeOK
<1>1. IInv => TypeOK
    BY DEF IInv
<1> QED
    BY <1>1, Invariance, PTL

(* However many receivers race for a code, one gets the session, and       *)
(* nobody after it.                                                        *)
THEOREM ClaimIsExclusive == Spec => []ClaimExclusive
<1>1. IInv => ClaimExclusive
    BY DEF IInv, SessionOK, ClaimExclusive, Stored
<1> QED
    BY <1>1, Invariance, PTL

(* SessionFound always carries the sender's addresses, however the two     *)
(* handlers interleave.                                                    *)
THEOREM FoundIsComplete == Spec => []FoundHasAddrs
<1>1. IInv => FoundHasAddrs
    BY DEF IInv, ChannelOK, FoundHasAddrs
<1> QED
    BY <1>1, Invariance, PTL

(* The handoff never finds the channel full. *)
THEOREM HandoffFits == Spec => []HandoffHasRoom
<1>1. IInv => HandoffHasRoom
    <2> SUFFICES ASSUME IInv, NEW r \in Conn, pc[r] = "handoff"
                 PROVE  joined[claimed[r]] = None /\ forwarded[claimed[r]] = None
        BY DEF HandoffHasRoom
    <2>1. claimed[r] \in Conn /\ claimed[r] # None
        BY RelayAssumption DEF IInv, HandlerOK, ReceiverPcs
    <2>2. ASSUME NEW q \in Conn, claimed[q] = claimed[r]
          PROVE  pc[q] # "done"
        BY <2>1, <2>2 DEF IInv, SessionOK
    <2> QED
        BY <2>1, <2>2 DEF IInv, TypeOK, ChannelOK
<1> QED
    BY <1>1, Invariance, PTL

(* Every code that can be claimed leads to a handler that is there. *)
THEOREM NoOrphanStays == Spec => []NoOrphans
<1>1. IInv => NoOrphans
    BY DEF IInv, SessionOK, NoOrphans
<1> QED
    BY <1>1, Invariance, PTL

(* The reaper bounds the life of an unclaimed code by SessionTTL plus      *)
(* ReaperEvery.                                                            *)
THEOREM LifetimeIsBounded == Spec => []LifetimeBound
<1>1. IInv => LifetimeBound
    BY RelayAssumption DEF IInv, TypeOK, AgeOK, LifetimeBound
<1> QED
    BY <1>1, Invariance, PTL

(* What the relay's users see changes only when a sender is told of its    *)
(* receiver.                                                               *)
LEMMA IntroducedSame ==
    ASSUME \A s \in Conn : told'[s] = "joined" <=> told[s] = "joined",
           \A s \in Conn : told[s] = "joined" => forwarded'[s] = forwarded[s]
    PROVE  Introduced' = Introduced
BY DEF Introduced

LEMMA StepRendezvous == IInv /\ [Next]_vars => [R!Next]_(R!vars)
<1> SUFFICES ASSUME IInv, [Next]_vars PROVE [R!Next]_(R!vars)
    OBVIOUS
<1> USE RelayAssumption DEF IInv, TypeOK, HandlerOK
<1>1. ASSUME NEW c \in Conn, SenderHello(c)
      PROVE  [R!Next]_(R!vars)
    <2>1. Introduced' = Introduced
        BY <1>1, IntroducedSame DEF SenderHello
    <2> QED BY <1>1, <2>1 DEF R!vars, SenderHello, sessionVars
<1>2. ASSUME NEW c \in Conn, ReceiverHello(c)
      PROVE  [R!Next]_(R!vars)
    <2>1. Introduced' = Introduced
        BY <1>2, IntroducedSame DEF ReceiverHello
    <2> QED BY <1>2, <2>1 DEF R!vars, ReceiverHello, sessionVars
<1>3. ASSUME NEW c \in Conn, Refuse(c)
      PROVE  [R!Next]_(R!vars)
    <2>1. Introduced' = Introduced
        BY <1>3, IntroducedSame DEF Refuse, Fail, Reply
    <2> QED BY <1>3, <2>1 DEF R!vars, Refuse, sessionVars
<1>4. ASSUME NEW c \in Conn, NEW k \in Code, Create(c, k)
      PROVE  [R!Next]_(R!vars)
    <2>1. code[c] = None /\ code' = [code EXCEPT ![c] = k] /\ sessions[k] = None
        BY <1>4 DEF Create
    <2>2. {d \in Conn : code'[d] # None} = {d \in Conn : code[d] # None} \cup {c}
        BY <2>1
    <2>3. Introduced' = Introduced
        BY <1>4, IntroducedSame DEF Create
    <2>4. R!Offer(c, k)
        BY <1>4, <2>1, <2>2, <2>3 DEF R!Offer, Create
    <2> QED BY <2>4 DEF R!Next
<1>5. ASSUME NEW c \in Conn, NEW k \in Code, Collide(c, k)
      PROVE  [R!Next]_(R!vars)
    <2>1. Introduced' = Introduced
        BY <1>5, IntroducedSame DEF Collide, Fail, Reply
    <2> QED BY <1>5, <2>1 DEF R!vars, Collide, sessionVars
<1>6. ASSUME NEW c \in Conn, NoCode(c)
      PROVE  [R!Next]_(R!vars)
    <2>1. Introduced' = Introduced
        BY <1>6, IntroducedSame DEF NoCode, Fail, Reply
    <2> QED BY <1>6, <2>1 DEF R!vars, NoCode, sessionVars
<1>7. ASSUME NEW c \in Conn, SendSessionCreated(c)
      PROVE  [R!Next]_(R!vars)
    <2>1. Introduced' = Introduced
        BY <1>7, IntroducedSame DEF SendSessionCreated, Reply
    <2> QED BY <1>7, <2>1 DEF R!vars, SendSessionCreated, sessionVars
<1>8. ASSUME NEW c \in Conn, SenderGivesUp(c)
      PROVE  [R!Next]_(R!vars)
    <2>1. Introduced' = Introduced
        BY <1>8, IntroducedSame DEF SenderGivesUp
    <2>2. sessions' = [k \in Code |-> IF k \in {code[c]} THEN None ELSE sessions[k]]
        BY <1>8 DEF SenderGivesUp, Claim
    <2>3. {code[c]} \in SUBSET Code
        BY <1>8 DEF SenderGivesUp, SenderPcs
    <2>4. R!Withdraw
        BY <1>8, <2>1, <2>2, <2>3 DEF R!Withdraw, SenderGivesUp
    <2> QED BY <2>4 DEF R!Next
<1>9. ASSUME NEW c \in Conn, ReadSenderAddrs(c)
      PROVE  [R!Next]_(R!vars)
    <2>1. Introduced' = Introduced
        BY <1>9, IntroducedSame DEF ReadSenderAddrs
    <2> QED BY <1>9, <2>1 DEF R!vars, ReadSenderAddrs
<1>10. ASSUME NEW c \in Conn, Signal(c)
      PROVE  [R!Next]_(R!vars)
    <2>1. Introduced' = Introduced
        BY <1>10, IntroducedSame DEF Signal
    <2> QED BY <1>10, <2>1 DEF R!vars, Signal
<1>11. ASSUME NEW c \in Conn, TakeReceiver(c)
      PROVE  [R!Next]_(R!vars)
    <2>1. told[c] # "joined"
        BY <1>11 DEF TakeReceiver
    <2>2. Introduced' = Introduced
        BY <1>11, <2>1, IntroducedSame DEF TakeReceiver
    <2> QED BY <1>11, <2>2 DEF R!vars, TakeReceiver
<1>12. ASSUME NEW c \in Conn, Expire(c)
      PROVE  [R!Next]_(R!vars)
    <2>1. Introduced' = Introduced
        BY <1>12, IntroducedSame DEF Expire
    <2>2. sessions' = [k \in Code |-> IF k \in {code[c]} THEN None ELSE sessions[k]]
        BY <1>12 DEF Expire, Claim
    <2>3. {code[c]} \in SUBSET Code
        BY <1>12 DEF Expire, SenderPcs
    <2>4. R!Withdraw
        BY <1>12, <2>1, <2>2, <2>3 DEF R!Withdraw, Expire
    <2> QED BY <2>4 DEF R!Next
<1>13. ASSUME NEW c \in Conn, Forward(c)
      PROVE  [R!Next]_(R!vars)
    <2>1. told[c] # "joined" /\ forwarded[c] \in Conn /\ claimed[forwarded[c]] = c
        BY <1>13 DEF Forward, ChannelOK
    <2>2. CASE UNCHANGED told
        <3>1. Introduced' = Introduced
            BY <1>13, <2>2 DEF Introduced, Forward
        <3> QED BY <1>13, <3>1 DEF R!vars, Forward, sessionVars
    <2>3. CASE told' = [told EXCEPT ![c] = "joined"]
        <3>1. Introduced' = Introduced \cup {<<c, forwarded[c]>>}
            BY <1>13, <2>1, <2>3 DEF Introduced, Forward
        <3>2. \A p \in Conn : <<c, p>> \notin Introduced
            BY <2>1 DEF Introduced
        <3>3. R!Introduce(c, forwarded[c])
            BY <1>13, <2>1, <3>1, <3>2 DEF R!Introduce, Forward, sessionVars
        <3> QED BY <2>1, <3>3 DEF R!Next
    <2> QED BY <1>13, <2>2, <2>3 DEF Forward, Reply
<1>14. ASSUME NEW c \in Conn, ClaimSession(c)
      PROVE  [R!Next]_(R!vars)
    <2>1. presented[c] \in Code /\ told[c] = "nothing" /\ claimed[c] = None
        BY <1>14 DEF ClaimSession, ReceiverPcs
    <2>2. Introduced' = Introduced
        BY <1>14, <2>1, IntroducedSame DEF ClaimSession, Fail, Reply
    <2>3. CASE sessions[presented[c]] # None
        <3>1. R!Match(c, presented[c])
            BY <1>14, <2>1, <2>2, <2>3 DEF R!Match, ClaimSession, Claim
        <3> QED BY <2>1, <3>1 DEF R!Next
    <2>4. CASE sessions[presented[c]] = None
        BY <1>14, <2>2, <2>4 DEF R!vars, ClaimSession, sessionVars
    <2> QED BY <2>3, <2>4
<1>15. ASSUME NEW c \in Conn, SenderIsReady(c)
      PROVE  [R!Next]_(R!vars)
    <2>1. Introduced' = Introduced
        BY <1>15, IntroducedSame DEF SenderIsReady
    <2> QED BY <1>15, <2>1 DEF R!vars, SenderIsReady, sessionVars
<1>16. ASSUME NEW c \in Conn, SenderNotReady(c)
      PROVE  [R!Next]_(R!vars)
    <2>1. Introduced' = Introduced
        BY <1>16, IntroducedSame DEF SenderNotReady, Fail, Reply
    <2> QED BY <1>16, <2>1 DEF R!vars, SenderNotReady, sessionVars
<1>17. ASSUME NEW c \in Conn, SendSessionFound(c)
      PROVE  [R!Next]_(R!vars)
    <2>1. Introduced' = Introduced
        BY <1>17, IntroducedSame DEF SendSessionFound, Reply
    <2> QED BY <1>17, <2>1 DEF R!vars, SendSessionFound, sessionVars
<1>18. ASSUME NEW c \in Conn, ReceiverGivesUp(c)
      PROVE  [R!Next]_(R!vars)
    <2>1. Introduced' = Introduced
        BY <1>18, IntroducedSame DEF ReceiverGivesUp
    <2> QED BY <1>18, <2>1 DEF R!vars, ReceiverGivesUp, sessionVars
<1>19. ASSUME NEW c \in Conn, ReadReceiverAddrs(c)
      PROVE  [R!Next]_(R!vars)
    <2>1. Introduced' = Introduced
        BY <1>19, IntroducedSame DEF ReadReceiverAddrs
    <2> QED BY <1>19, <2>1 DEF R!vars, ReadReceiverAddrs, sessionVars
<1>20. ASSUME NEW c \in Conn, Handoff(c)
      PROVE  [R!Next]_(R!vars)
    <2>1. Introduced' = Introduced
        BY <1>20, IntroducedSame DEF Handoff
    <2> QED BY <1>20, <2>1 DEF R!vars, Handoff
<1>21. CASE Reap
    <2> DEFINE K == {k \in Code : sessions[k] # None /\ age[sessions[k]] > TTL}
    <2>1. Introduced' = Introduced
        BY <1>21, IntroducedSame DEF Reap, localVars
    <2>2. sessions' = [k \in Code |-> IF k \in K THEN None ELSE sessions[k]]
        BY <1>21 DEF Reap
    <2>3. K \in SUBSET Code
        OBVIOUS
    <2> HIDE DEF K
    <2>4. code' = code /\ claimed' = claimed
        BY <1>21 DEF Reap, localVars
    <2>5. R!Withdraw
        BY <2>1, <2>2, <2>3, <2>4 DEF R!Withdraw
    <2> QED BY <2>5 DEF R!Next
<1>22. CASE Shutdown
    <2>1. Introduced' = Introduced
        BY <1>22, IntroducedSame DEF Shutdown, localVars
    <2> QED BY <1>22, <2>1 DEF R!vars, Shutdown, sessionVars, localVars
<1>23. CASE ReaperExits
    <2>1. Introduced' = Introduced
        BY <1>23, IntroducedSame DEF ReaperExits, localVars
    <2> QED BY <1>23, <2>1 DEF R!vars, ReaperExits, sessionVars, localVars
<1>24. CASE Tick
    <2>1. Introduced' = Introduced
        BY <1>24, IntroducedSame DEF Tick
    <2> QED BY <1>24, <2>1 DEF R!vars, Tick
<1>25. CASE UNCHANGED vars
    BY <1>25 DEF vars, localVars, sessionVars, R!vars, Introduced
<1> QED
    BY <1>1, <1>2, <1>3, <1>4, <1>5, <1>6, <1>7, <1>8, <1>9, <1>10, <1>11, <1>12, <1>13,
       <1>14, <1>15, <1>16, <1>17, <1>18, <1>19, <1>20, <1>21, <1>22, <1>23, <1>24, <1>25
    DEF Next, Hello, SenderStep, ReceiverStep

(* The handlers implement Rendezvous: one receiver for each offer, one     *)
(* offer for each receiver, and a sender is told only of the receiver that *)
(* got its offer.                                                          *)
THEOREM ImplementsAbstractRelay == Spec => ImplementsRendezvous
<1>1. Init => R!Init
    BY DEF Init, R!Init, Introduced
<1>2. IInv /\ [Next]_vars => [R!Next]_(R!vars)
    BY StepRendezvous
<1> QED
    BY <1>1, <1>2, Invariance, PTL DEF Spec, R!Spec, ImplementsRendezvous

(* What a handler removes from under its code when it gives up or expires. *)
LEMMA RemovesUnderItsCode ==
    ASSUME IInv, NEW c \in Conn, SenderGivesUp(c) \/ Expire(c),
           NEW k \in Code, sessions[k] # None, sessions'[k] # sessions[k]
    PROVE  /\ sessions'[k] = None /\ pc'[c] = "done"
           /\ c # sessions[k] => code[c] = k /\ ~Stored(c) /\ pc[c] # "done"
<1>1. /\ pc[c] \in {"sendCreated", "readAddrs", "parked"} /\ code[c] \in Code
      /\ sessions' = [sessions EXCEPT ![code[c]] = None] /\ pc'[c] = "done"
    BY DEF SenderGivesUp, Expire, Claim, GoTo, IInv, TypeOK, HandlerOK, SenderPcs
<1>2. code[c] = k /\ sessions'[k] = None
    BY <1>1 DEF IInv, TypeOK
<1>3. c # sessions[k] => ~Stored(c)
    BY <1>2, RelayAssumption DEF IInv, SessionOK, Stored
<1> QED
    BY <1>1, <1>2, <1>3

(* A session leaves the store only for a reason: a claim, the end of its   *)
(* own handler, its age, or a handler that was given its code before.      *)
THEOREM SessionsLeaveForAReason == Spec => RemovedForAReason
<1> DEFINE Reason(k) ==
              /\ sessions'[k] = None
              /\ \/ \E r \in Conn : claimed[r] = None /\ claimed'[r] = sessions[k]
                 \/ pc'[sessions[k]] = "done"
                 \/ age[sessions[k]] > TTL
                 \/ \E c \in Conn \ {sessions[k]} :
                       /\ code[c] = k /\ ~Stored(c)
                       /\ pc[c] # "done" /\ pc'[c] = "done"
<1>1. IInv /\ [Next]_vars =>
         [\A k \in Code : sessions[k] # None /\ sessions'[k] # sessions[k] => Reason(k)]_vars
    <2> SUFFICES ASSUME IInv, Next, NEW k \in Code,
                        sessions[k] # None, sessions'[k] # sessions[k]
                 PROVE  Reason(k)
        OBVIOUS
    <2>1. ASSUME NEW c \in Conn, SenderGivesUp(c) \/ Expire(c)
          PROVE  Reason(k)
        BY <2>1, RemovesUnderItsCode
    <2>2. ASSUME NEW c \in Conn, ClaimSession(c)
          PROVE  Reason(k)
        <3>1. /\ pc[c] = "claim" /\ presented[c] \in Code /\ claimed[c] = None
            BY <2>2 DEF ClaimSession, IInv, HandlerOK, ReceiverPcs
        <3>2. /\ sessions' = [sessions EXCEPT ![presented[c]] = None]
              /\ claimed' = [claimed EXCEPT ![c] = sessions[presented[c]]]
            BY <2>2 DEF ClaimSession, Claim, sessionVars
        <3>3. k = presented[c] /\ sessions'[k] = None /\ claimed'[c] = sessions[k]
            BY <3>1, <3>2 DEF IInv, TypeOK
        <3> QED
            BY <3>1, <3>3
    <2>3. CASE Reap
        BY <2>3 DEF Reap, IInv, TypeOK
    <2>4. ASSUME NEW c \in Conn, NEW l \in Code, Create(c, l)
          PROVE  FALSE
        BY <2>4 DEF Create, IInv, TypeOK
    <2>5. ASSUME NEW c \in Conn, Hello(c) \/ NoCode(c) \/ SendSessionCreated(c)
                                  \/ ReadSenderAddrs(c) \/ Signal(c) \/ TakeReceiver(c)
                                  \/ Forward(c) \/ (\E l \in Code : Collide(c, l))
          PROVE  UNCHANGED sessions
        BY <2>5 DEF Hello, SenderHello, ReceiverHello, Refuse, Collide, NoCode, SendSessionCreated,
           ReadSenderAddrs, Signal, TakeReceiver, Forward, sessionVars
    <2>6. ASSUME NEW c \in Conn, SenderIsReady(c) \/ SenderNotReady(c) \/ SendSessionFound(c)
                                  \/ ReceiverGivesUp(c) \/ ReadReceiverAddrs(c) \/ Handoff(c)
          PROVE  UNCHANGED sessions
        BY <2>6 DEF SenderIsReady, SenderNotReady, SendSessionFound, ReceiverGivesUp,
           ReadReceiverAddrs, Handoff, sessionVars
    <2>7. Shutdown \/ ReaperExits \/ Tick => UNCHANGED sessions
        BY DEF Shutdown, ReaperExits, Tick, sessionVars
    <2> HIDE DEF Reason
    <2> QED
        BY <2>1, <2>2, <2>3, <2>4, <2>5, <2>6, <2>7 DEF Next, SenderStep, ReceiverStep
<1> QED
    BY <1>1, Invariance, PTL DEF Spec, RemovedForAReason
=============================================================================
