--------------------------- MODULE ConnectProofs ---------------------------
(***************************************************************************)
(* Proofs about Connect, for any number of sessions and addresses, however *)
(* they lead and whatever codes were given out, and any limits.            *)
(***************************************************************************)
EXTENDS Connect, FiniteSetTheorems, TLAPS

(* A sender has a winner from the end of its race on, one of its own       *)
(* dials, and puts its preamble on no other connection.                    *)
SenderOK ==
    /\ \A s \in Session :
          /\ sPc[s] \in {"parked", "race"} => winner[s] = None
          /\ sPc[s] \in {"preamble", "handshake", "transfer"} => winner[s] # None
          /\ winner[s] # None => SenderOf(winner[s]) = s
    /\ \A c \in wrote : winner[SenderOf(c)] = c

(* What a receiver gets was dialled to it; what it takes to the handshake  *)
(* carries its code; what it takes to the transfer is its own sender's.    *)
ReceiverOK ==
    \A r \in Session :
        /\ \A c \in queue[r] : reach[c] = r
        /\ rPc[r] \in {"preamble", "handshake", "transfer"} =>
              rConn[r] \in Conn /\ reach[rConn[r]] = r
        /\ rPc[r] \in {"handshake", "transfer"} =>
              rConn[r] \in wrote /\ codeOf[SenderOf(rConn[r])] = codeOf[r]
        /\ rPc[r] = "transfer" => rConn[r] \in finished /\ SenderOf(rConn[r]) = r

(* A client only finishes on its winner and with its own receiver, and     *)
(* goes on to the transfer.                                                *)
FinishedOK ==
    \A c \in finished :
        /\ winner[SenderOf(c)] = c
        /\ reach[c] = SenderOf(c)
        /\ sPc[SenderOf(c)] = "transfer"

(* The accept loop has a try left, and has waited for its current preamble *)
(* since before the listener's deadline.                                   *)
ClockOK ==
    \A r \in Session :
        /\ rPc[r] \in {"prompt", "accept"} => preWait[r] = 0
        /\ rPc[r] = "prompt" => waited[r] = 0
        /\ rPc[r] = "accept" => waited[r] < AcceptTimeout + PreambleTimeout
        /\ rPc[r] = "preamble" => waited[r] < AcceptTimeout + preWait[r]
        /\ rPc[r] \in {"prompt", "accept", "preamble"} => tries[r] < MaxAcceptTries

IInv == TypeOK /\ SenderOK /\ ReceiverOK /\ FinishedOK /\ ClockOK

LEMMA SenderOfConn == \A c \in Conn : SenderOf(c) \in Session
BY ConnectAssumption DEF SenderOf

LEMMA DialsFinite == ASSUME NEW s \in Session PROVE Cardinality(DialsOf(s)) \in Nat
BY ConnectAssumption, FS_Subset, FS_CardinalityType, DialsOf(s) \subseteq Conn DEF DialsOf

LEMMA Limits ==
    /\ AcceptTimeout \in Nat /\ AcceptTimeout > 0
    /\ PreambleTimeout \in Nat /\ PreambleTimeout > 0
    /\ MaxAcceptTries \in Nat /\ MaxAcceptTries > 0
BY ConnectAssumption

(* Skipping a connection leaves a try, or ends the receiver.               *)
LEMMA SkipTypes ==
    ASSUME TypeOK, ClockOK, NEW r \in Session,
           rPc[r] = "preamble", rConn[r] \in Conn, Skip(r)
    PROVE  /\ rPc' \in [Session -> ReceiverPcs]
           /\ queue' \in [Session -> SUBSET Conn]
           /\ rConn' \in [Session -> Conn \cup {None}]
           /\ tries' \in [Session -> 0 .. MaxAcceptTries]
           /\ skipped' \subseteq Conn
           /\ waited' \in [Session -> Nat]
           /\ preWait' \in [Session -> 0 .. PreambleTimeout]
<1> USE Limits DEF TypeOK, ClockOK, ReceiverPcs
<1>1. tries[r] + 1 \in 0 .. MaxAcceptTries
    OBVIOUS
<1>2. tries' \in [Session -> 0 .. MaxAcceptTries] /\ skipped' \subseteq Conn
    BY <1>1 DEF Skip
<1>3. CASE tries'[r] < MaxAcceptTries
    BY <1>2, <1>3 DEF Skip, ReceiverAt
<1>4. CASE ~(tries'[r] < MaxAcceptTries)
    BY <1>2, <1>4 DEF Skip, ReceiverFails, ReceiverEnds, ReceiverAt
<1> QED
    BY <1>3, <1>4

LEMMA InitIInv == Init => IInv
BY ConnectAssumption
   DEF Init, IInv, TypeOK, SenderOK, ReceiverOK, FinishedOK, ClockOK,
       SenderPcs, ReceiverPcs, Dials

LEMMA StepTypeOK == IInv /\ [Next]_vars => TypeOK'
<1> SUFFICES ASSUME IInv, [Next]_vars PROVE TypeOK'
    OBVIOUS
<1> USE ConnectAssumption DEF IInv, TypeOK, ReceiverOK, SenderOK, ClockOK, SenderPcs, ReceiverPcs,
           Dials, fixedVars, raceVars, senderVars, acceptVars, receiverVars, faultVars
<1>1. ASSUME NEW s \in Session, ReceiverJoined(s)
      PROVE  TypeOK'
    BY <1>1 DEF ReceiverJoined, SenderAt
<1>2. ASSUME NEW s \in Session, NotJoined(s)
      PROVE  TypeOK'
    BY <1>2 DEF NotJoined, SenderFails, SenderEnds, SenderAt
<1>3. ASSUME NEW c \in Conn, TakeWinner(c)
      PROVE  TypeOK'
    BY <1>3, SenderOfConn, DialsFinite DEF TakeWinner, SenderAt
<1>4. ASSUME NEW c \in Conn, TakeFailure(c)
      PROVE  TypeOK'
    <2> DEFINE s == SenderOf(c)
    <2>1. s \in Session /\ received' \in [Session -> Nat]
        BY <1>4, SenderOfConn DEF TakeFailure
    <2>2. CASE received'[s] = Cardinality(DialsOf(s))
        BY <1>4, <2>1, <2>2 DEF TakeFailure, SenderFails, SenderEnds, SenderAt
    <2>3. CASE received'[s] # Cardinality(DialsOf(s))
        <3>1. dial' = [dial EXCEPT ![c] = "closed"] /\ UNCHANGED <<sPc, pending>>
            BY <1>4, <2>3 DEF TakeFailure
        <3>2. UNCHANGED <<fixedVars, winner, wrote, finished, receiverVars, faultVars>>
            BY <1>4 DEF TakeFailure
        <3> QED
            BY <2>1, <3>1, <3>2
    <2> QED
        BY <2>2, <2>3
<1>5. ASSUME NEW s \in Session, WritePreamble(s)
      PROVE  TypeOK'
    BY <1>5 DEF WritePreamble, SenderAt
<1>6. ASSUME NEW s \in Session, ClientFinish(s)
      PROVE  TypeOK'
    BY <1>6 DEF ClientFinish, ServedBy, SenderAt
<1>7. ASSUME NEW s \in Session, ClientFails(s)
      PROVE  TypeOK'
    BY <1>7 DEF ClientFails, SenderFails, SenderEnds, SenderAt
<1>8. ASSUME NEW s \in Session, ClientTimesOut(s)
      PROVE  TypeOK'
    BY <1>8 DEF ClientTimesOut, SenderFails, SenderEnds, SenderAt
<1>9. ASSUME NEW s \in Session, Vanish(s)
      PROVE  TypeOK'
    BY <1>9 DEF Vanish, SenderAt
<1>10. ASSUME NEW c \in Conn, Establish(c)
      PROVE  TypeOK'
    BY <1>10 DEF Establish
<1>11. ASSUME NEW c \in Conn, DialFails(c)
      PROVE  TypeOK'
    BY <1>11 DEF DialFails
<1>12. ASSUME NEW c \in Conn, Drain(c)
      PROVE  TypeOK'
    BY <1>12, SenderOfConn DEF Drain
<1>13. ASSUME NEW s \in Session, SendPeerAddrs(s)
      PROVE  TypeOK'
    BY <1>13 DEF SendPeerAddrs, ReceiverAt
<1>14. ASSUME NEW s \in Session, Decline(s)
      PROVE  TypeOK'
    BY <1>14 DEF Decline, ReceiverAt
<1>15. ASSUME NEW s \in Session, NEW c \in queue[s], Accept(s, c)
      PROVE  TypeOK'
    BY <1>15 DEF Accept, ReceiverAt
<1>16. ASSUME NEW s \in Session, AcceptTimesOut(s)
      PROVE  TypeOK'
    BY <1>16 DEF AcceptTimesOut, ReceiverFails, ReceiverEnds, ReceiverAt
<1>17. ASSUME NEW s \in Session, PreambleMatches(s)
      PROVE  TypeOK'
    BY <1>17 DEF PreambleMatches, ReceiverAt
<1>18. ASSUME NEW s \in Session, PreambleIsWrong(s)
      PROVE  TypeOK'
    <2>1. rPc[s] = "preamble" /\ rConn[s] \in Conn /\ Skip(s)
        BY <1>18 DEF PreambleIsWrong
    <2>2. late' \subseteq Session
        BY <1>18, <2>1, SenderOfConn DEF PreambleIsWrong
    <2> QED
        BY <1>18, <2>1, <2>2, SkipTypes DEF PreambleIsWrong
<1>19. ASSUME NEW s \in Session, PreambleTimesOut(s)
      PROVE  TypeOK'
    <2>1. rPc[s] = "preamble" /\ rConn[s] \in Conn /\ Skip(s)
        BY <1>19 DEF PreambleTimesOut
    <2>2. late' \subseteq Session
        BY <1>19, <2>1, SenderOfConn DEF PreambleTimesOut
    <2> QED
        BY <1>19, <2>1, <2>2, SkipTypes DEF PreambleTimesOut
<1>20. ASSUME NEW s \in Session, ServerFinish(s)
      PROVE  TypeOK'
    BY <1>20 DEF ServerFinish, ReceiverAt
<1>21. ASSUME NEW s \in Session, ServerFails(s)
      PROVE  TypeOK'
    BY <1>21 DEF ServerFails, ReceiverFails, ReceiverEnds, ReceiverAt
<1>22. ASSUME NEW s \in Session, ServerTimesOut(s)
      PROVE  TypeOK'
    BY <1>22, SenderOfConn DEF ServerTimesOut, ReceiverFails, ReceiverEnds, ReceiverAt
<1>23. CASE Tick
    BY <1>23 DEF Tick
<1>24. CASE UNCHANGED vars
    BY <1>24 DEF vars
<1>25. ASSUME NEW s \in Session, SenderStops(s)
      PROVE  TypeOK'
    BY <1>25 DEF SenderStops, SenderEnds, SenderAt
<1>26. ASSUME NEW s \in Session, ReceiverStops(s)
      PROVE  TypeOK'
    BY <1>26 DEF ReceiverStops, ReceiverEnds, ReceiverAt
<1>27. ASSUME NEW c \in Conn, Reset(c)
      PROVE  TypeOK'
    BY <1>27 DEF Reset
<1> QED
    BY <1>1, <1>2, <1>3, <1>4, <1>5, <1>6, <1>7, <1>8, <1>9, <1>10, <1>11, <1>12, <1>13, <1>14,
      <1>15, <1>16, <1>17, <1>18, <1>19, <1>20, <1>21, <1>22, <1>23, <1>24, <1>25, <1>26,
      <1>27
    DEF Next, SenderStep, RaceStep, ReceiverStep, DialStep, DialsOf

LEMMA StepSenderOK == IInv /\ [Next]_vars => SenderOK'
<1> SUFFICES ASSUME IInv, [Next]_vars PROVE SenderOK'
    OBVIOUS
<1> USE ConnectAssumption, SenderOfConn DEF IInv, TypeOK, SenderOK,
           fixedVars, raceVars, senderVars, acceptVars, receiverVars, faultVars
<1>1. ASSUME NEW s \in Session, ReceiverJoined(s)
      PROVE  SenderOK'
    BY <1>1 DEF ReceiverJoined, SenderAt
<1>2. ASSUME NEW s \in Session, NotJoined(s)
      PROVE  SenderOK'
    BY <1>2 DEF NotJoined, SenderFails, SenderEnds, SenderAt
<1>3. ASSUME NEW c \in Conn, TakeWinner(c)
      PROVE  SenderOK'
    BY <1>3 DEF TakeWinner, SenderAt
<1>4. ASSUME NEW c \in Conn, TakeFailure(c)
      PROVE  SenderOK'
    BY <1>4 DEF TakeFailure, SenderFails, SenderEnds, SenderAt
<1>5. ASSUME NEW s \in Session, WritePreamble(s)
      PROVE  SenderOK'
    BY <1>5 DEF WritePreamble, SenderAt
<1>6. ASSUME NEW s \in Session, ClientFinish(s)
      PROVE  SenderOK'
    BY <1>6 DEF ClientFinish, ServedBy, SenderAt
<1>7. ASSUME NEW s \in Session, ClientFails(s)
      PROVE  SenderOK'
    BY <1>7 DEF ClientFails, SenderFails, SenderEnds, SenderAt
<1>8. ASSUME NEW s \in Session, ClientTimesOut(s)
      PROVE  SenderOK'
    BY <1>8 DEF ClientTimesOut, SenderFails, SenderEnds, SenderAt
<1>9. ASSUME NEW s \in Session, Vanish(s)
      PROVE  SenderOK'
    BY <1>9 DEF Vanish, SenderAt
<1>10. ASSUME NEW c \in Conn, Establish(c)
      PROVE  SenderOK'
    BY <1>10 DEF Establish
<1>11. ASSUME NEW c \in Conn, DialFails(c)
      PROVE  SenderOK'
    BY <1>11 DEF DialFails
<1>12. ASSUME NEW c \in Conn, Drain(c)
      PROVE  SenderOK'
    BY <1>12 DEF Drain
<1>13. ASSUME NEW s \in Session, SendPeerAddrs(s)
      PROVE  SenderOK'
    BY <1>13 DEF SendPeerAddrs, ReceiverAt
<1>14. ASSUME NEW s \in Session, Decline(s)
      PROVE  SenderOK'
    BY <1>14 DEF Decline, ReceiverAt
<1>15. ASSUME NEW s \in Session, NEW c \in queue[s], Accept(s, c)
      PROVE  SenderOK'
    BY <1>15 DEF Accept, ReceiverAt
<1>16. ASSUME NEW s \in Session, AcceptTimesOut(s)
      PROVE  SenderOK'
    BY <1>16 DEF AcceptTimesOut, ReceiverFails, ReceiverEnds, ReceiverAt
<1>17. ASSUME NEW s \in Session, PreambleMatches(s)
      PROVE  SenderOK'
    BY <1>17 DEF PreambleMatches, ReceiverAt
<1>18. ASSUME NEW s \in Session, PreambleIsWrong(s)
      PROVE  SenderOK'
    BY <1>18 DEF PreambleIsWrong, Skip, ReceiverFails, ReceiverEnds, ReceiverAt
<1>19. ASSUME NEW s \in Session, PreambleTimesOut(s)
      PROVE  SenderOK'
    BY <1>19 DEF PreambleTimesOut, Skip, ReceiverFails, ReceiverEnds, ReceiverAt
<1>20. ASSUME NEW s \in Session, ServerFinish(s)
      PROVE  SenderOK'
    BY <1>20 DEF ServerFinish, ReceiverAt
<1>21. ASSUME NEW s \in Session, ServerFails(s)
      PROVE  SenderOK'
    BY <1>21 DEF ServerFails, ReceiverFails, ReceiverEnds, ReceiverAt
<1>22. ASSUME NEW s \in Session, ServerTimesOut(s)
      PROVE  SenderOK'
    BY <1>22 DEF ServerTimesOut, ReceiverFails, ReceiverEnds, ReceiverAt
<1>23. CASE Tick
    BY <1>23 DEF Tick
<1>24. CASE UNCHANGED vars
    BY <1>24 DEF vars
<1>25. ASSUME NEW s \in Session, SenderStops(s)
      PROVE  SenderOK'
    BY <1>25 DEF SenderStops, SenderEnds, SenderAt
<1>26. ASSUME NEW s \in Session, ReceiverStops(s)
      PROVE  SenderOK'
    BY <1>26 DEF ReceiverStops, ReceiverEnds, ReceiverAt
<1>27. ASSUME NEW c \in Conn, Reset(c)
      PROVE  SenderOK'
    BY <1>27 DEF Reset
<1> QED
    BY <1>1, <1>2, <1>3, <1>4, <1>5, <1>6, <1>7, <1>8, <1>9, <1>10, <1>11, <1>12, <1>13, <1>14,
      <1>15, <1>16, <1>17, <1>18, <1>19, <1>20, <1>21, <1>22, <1>23, <1>24, <1>25, <1>26,
      <1>27
    DEF Next, SenderStep, RaceStep, ReceiverStep, DialStep, DialsOf

LEMMA StepReceiverOK == IInv /\ [Next]_vars => ReceiverOK'
<1> SUFFICES ASSUME IInv, [Next]_vars PROVE ReceiverOK'
    OBVIOUS
<1> USE ConnectAssumption, SenderOfConn DEF IInv, TypeOK, ReceiverOK,
           fixedVars, raceVars, senderVars, acceptVars, receiverVars, faultVars
<1>1. ASSUME NEW s \in Session, ReceiverJoined(s)
      PROVE  ReceiverOK'
    BY <1>1 DEF ReceiverJoined, SenderAt
<1>2. ASSUME NEW s \in Session, NotJoined(s)
      PROVE  ReceiverOK'
    BY <1>2 DEF NotJoined, SenderFails, SenderEnds, SenderAt
<1>3. ASSUME NEW c \in Conn, TakeWinner(c)
      PROVE  ReceiverOK'
    BY <1>3 DEF TakeWinner, SenderAt
<1>4. ASSUME NEW c \in Conn, TakeFailure(c)
      PROVE  ReceiverOK'
    BY <1>4 DEF TakeFailure, SenderFails, SenderEnds, SenderAt
<1>5. ASSUME NEW s \in Session, WritePreamble(s)
      PROVE  ReceiverOK'
    BY <1>5 DEF WritePreamble, SenderAt
<1>6. ASSUME NEW s \in Session, ClientFinish(s)
      PROVE  ReceiverOK'
    BY <1>6 DEF ClientFinish, ServedBy, SenderAt
<1>7. ASSUME NEW s \in Session, ClientFails(s)
      PROVE  ReceiverOK'
    BY <1>7 DEF ClientFails, SenderFails, SenderEnds, SenderAt
<1>8. ASSUME NEW s \in Session, ClientTimesOut(s)
      PROVE  ReceiverOK'
    BY <1>8 DEF ClientTimesOut, SenderFails, SenderEnds, SenderAt
<1>9. ASSUME NEW s \in Session, Vanish(s)
      PROVE  ReceiverOK'
    BY <1>9 DEF Vanish, SenderAt
<1>10. ASSUME NEW c \in Conn, Establish(c)
      PROVE  ReceiverOK'
    BY <1>10 DEF Establish
<1>11. ASSUME NEW c \in Conn, DialFails(c)
      PROVE  ReceiverOK'
    BY <1>11 DEF DialFails
<1>12. ASSUME NEW c \in Conn, Drain(c)
      PROVE  ReceiverOK'
    BY <1>12 DEF Drain
<1>13. ASSUME NEW s \in Session, SendPeerAddrs(s)
      PROVE  ReceiverOK'
    BY <1>13 DEF SendPeerAddrs, ReceiverAt
<1>14. ASSUME NEW s \in Session, Decline(s)
      PROVE  ReceiverOK'
    BY <1>14 DEF Decline, ReceiverAt
<1>15. ASSUME NEW s \in Session, NEW c \in queue[s], Accept(s, c)
      PROVE  ReceiverOK'
    BY <1>15 DEF Accept, ReceiverAt
<1>16. ASSUME NEW s \in Session, AcceptTimesOut(s)
      PROVE  ReceiverOK'
    BY <1>16 DEF AcceptTimesOut, ReceiverFails, ReceiverEnds, ReceiverAt
<1>17. ASSUME NEW s \in Session, PreambleMatches(s)
      PROVE  ReceiverOK'
    BY <1>17 DEF PreambleMatches, ReceiverAt
<1>18. ASSUME NEW s \in Session, PreambleIsWrong(s)
      PROVE  ReceiverOK'
    BY <1>18 DEF PreambleIsWrong, Skip, ReceiverFails, ReceiverEnds, ReceiverAt
<1>19. ASSUME NEW s \in Session, PreambleTimesOut(s)
      PROVE  ReceiverOK'
    BY <1>19 DEF PreambleTimesOut, Skip, ReceiverFails, ReceiverEnds, ReceiverAt
<1>20. ASSUME NEW s \in Session, ServerFinish(s)
      PROVE  ReceiverOK'
    BY <1>20 DEF ServerFinish, ReceiverAt
<1>21. ASSUME NEW s \in Session, ServerFails(s)
      PROVE  ReceiverOK'
    BY <1>21 DEF ServerFails, ReceiverFails, ReceiverEnds, ReceiverAt
<1>22. ASSUME NEW s \in Session, ServerTimesOut(s)
      PROVE  ReceiverOK'
    BY <1>22 DEF ServerTimesOut, ReceiverFails, ReceiverEnds, ReceiverAt
<1>23. CASE Tick
    BY <1>23 DEF Tick
<1>24. CASE UNCHANGED vars
    BY <1>24 DEF vars
<1>25. ASSUME NEW s \in Session, SenderStops(s)
      PROVE  ReceiverOK'
    BY <1>25 DEF SenderStops, SenderEnds, SenderAt
<1>26. ASSUME NEW s \in Session, ReceiverStops(s)
      PROVE  ReceiverOK'
    BY <1>26 DEF ReceiverStops, ReceiverEnds, ReceiverAt
<1>27. ASSUME NEW c \in Conn, Reset(c)
      PROVE  ReceiverOK'
    BY <1>27 DEF Reset
<1> QED
    BY <1>1, <1>2, <1>3, <1>4, <1>5, <1>6, <1>7, <1>8, <1>9, <1>10, <1>11, <1>12, <1>13, <1>14,
      <1>15, <1>16, <1>17, <1>18, <1>19, <1>20, <1>21, <1>22, <1>23, <1>24, <1>25, <1>26,
      <1>27
    DEF Next, SenderStep, RaceStep, ReceiverStep, DialStep, DialsOf

LEMMA StepFinishedOK == IInv /\ [Next]_vars => FinishedOK'
<1> SUFFICES ASSUME IInv, [Next]_vars PROVE FinishedOK'
    OBVIOUS
<1> USE ConnectAssumption, SenderOfConn DEF IInv, TypeOK, SenderOK, ReceiverOK, FinishedOK,
           fixedVars, raceVars, senderVars, acceptVars, receiverVars, faultVars
<1>1. ASSUME NEW s \in Session, ReceiverJoined(s)
      PROVE  FinishedOK'
    BY <1>1 DEF ReceiverJoined, SenderAt
<1>2. ASSUME NEW s \in Session, NotJoined(s)
      PROVE  FinishedOK'
    BY <1>2 DEF NotJoined, SenderFails, SenderEnds, SenderAt
<1>3. ASSUME NEW c \in Conn, TakeWinner(c)
      PROVE  FinishedOK'
    BY <1>3 DEF TakeWinner, SenderAt
<1>4. ASSUME NEW c \in Conn, TakeFailure(c)
      PROVE  FinishedOK'
    BY <1>4 DEF TakeFailure, SenderFails, SenderEnds, SenderAt
<1>5. ASSUME NEW s \in Session, WritePreamble(s)
      PROVE  FinishedOK'
    BY <1>5 DEF WritePreamble, SenderAt
<1>6. ASSUME NEW s \in Session, ClientFinish(s)
      PROVE  FinishedOK'
    BY <1>6 DEF ClientFinish, ServedBy, SenderAt
<1>7. ASSUME NEW s \in Session, ClientFails(s)
      PROVE  FinishedOK'
    BY <1>7 DEF ClientFails, SenderFails, SenderEnds, SenderAt
<1>8. ASSUME NEW s \in Session, ClientTimesOut(s)
      PROVE  FinishedOK'
    BY <1>8 DEF ClientTimesOut, SenderFails, SenderEnds, SenderAt
<1>9. ASSUME NEW s \in Session, Vanish(s)
      PROVE  FinishedOK'
    BY <1>9 DEF Vanish, SenderAt
<1>10. ASSUME NEW c \in Conn, Establish(c)
      PROVE  FinishedOK'
    BY <1>10 DEF Establish
<1>11. ASSUME NEW c \in Conn, DialFails(c)
      PROVE  FinishedOK'
    BY <1>11 DEF DialFails
<1>12. ASSUME NEW c \in Conn, Drain(c)
      PROVE  FinishedOK'
    BY <1>12 DEF Drain
<1>13. ASSUME NEW s \in Session, SendPeerAddrs(s)
      PROVE  FinishedOK'
    BY <1>13 DEF SendPeerAddrs, ReceiverAt
<1>14. ASSUME NEW s \in Session, Decline(s)
      PROVE  FinishedOK'
    BY <1>14 DEF Decline, ReceiverAt
<1>15. ASSUME NEW s \in Session, NEW c \in queue[s], Accept(s, c)
      PROVE  FinishedOK'
    BY <1>15 DEF Accept, ReceiverAt
<1>16. ASSUME NEW s \in Session, AcceptTimesOut(s)
      PROVE  FinishedOK'
    BY <1>16 DEF AcceptTimesOut, ReceiverFails, ReceiverEnds, ReceiverAt
<1>17. ASSUME NEW s \in Session, PreambleMatches(s)
      PROVE  FinishedOK'
    BY <1>17 DEF PreambleMatches, ReceiverAt
<1>18. ASSUME NEW s \in Session, PreambleIsWrong(s)
      PROVE  FinishedOK'
    BY <1>18 DEF PreambleIsWrong, Skip, ReceiverFails, ReceiverEnds, ReceiverAt
<1>19. ASSUME NEW s \in Session, PreambleTimesOut(s)
      PROVE  FinishedOK'
    BY <1>19 DEF PreambleTimesOut, Skip, ReceiverFails, ReceiverEnds, ReceiverAt
<1>20. ASSUME NEW s \in Session, ServerFinish(s)
      PROVE  FinishedOK'
    BY <1>20 DEF ServerFinish, ReceiverAt
<1>21. ASSUME NEW s \in Session, ServerFails(s)
      PROVE  FinishedOK'
    BY <1>21 DEF ServerFails, ReceiverFails, ReceiverEnds, ReceiverAt
<1>22. ASSUME NEW s \in Session, ServerTimesOut(s)
      PROVE  FinishedOK'
    BY <1>22 DEF ServerTimesOut, ReceiverFails, ReceiverEnds, ReceiverAt
<1>23. CASE Tick
    BY <1>23 DEF Tick
<1>24. CASE UNCHANGED vars
    BY <1>24 DEF vars
<1>25. ASSUME NEW s \in Session, SenderStops(s)
      PROVE  FinishedOK'
    BY <1>25 DEF SenderStops, SenderEnds, SenderAt
<1>26. ASSUME NEW s \in Session, ReceiverStops(s)
      PROVE  FinishedOK'
    BY <1>26 DEF ReceiverStops, ReceiverEnds, ReceiverAt
<1>27. ASSUME NEW c \in Conn, Reset(c)
      PROVE  FinishedOK'
    BY <1>27 DEF Reset
<1> QED
    BY <1>1, <1>2, <1>3, <1>4, <1>5, <1>6, <1>7, <1>8, <1>9, <1>10, <1>11, <1>12, <1>13, <1>14,
      <1>15, <1>16, <1>17, <1>18, <1>19, <1>20, <1>21, <1>22, <1>23, <1>24, <1>25, <1>26,
      <1>27
    DEF Next, SenderStep, RaceStep, ReceiverStep, DialStep, DialsOf

LEMMA StepClockOK == IInv /\ [Next]_vars => ClockOK'
<1> SUFFICES ASSUME IInv, [Next]_vars PROVE ClockOK'
    OBVIOUS
<1> USE Limits DEF IInv, TypeOK, ClockOK,
           fixedVars, raceVars, senderVars, acceptVars, receiverVars, faultVars
<1>1. ASSUME NEW s \in Session, ReceiverJoined(s)
      PROVE  ClockOK'
    BY <1>1 DEF ReceiverJoined, SenderAt
<1>2. ASSUME NEW s \in Session, NotJoined(s)
      PROVE  ClockOK'
    BY <1>2 DEF NotJoined, SenderFails, SenderEnds, SenderAt
<1>3. ASSUME NEW c \in Conn, TakeWinner(c)
      PROVE  ClockOK'
    BY <1>3 DEF TakeWinner, SenderAt
<1>4. ASSUME NEW c \in Conn, TakeFailure(c)
      PROVE  ClockOK'
    BY <1>4 DEF TakeFailure, SenderFails, SenderEnds, SenderAt
<1>5. ASSUME NEW s \in Session, WritePreamble(s)
      PROVE  ClockOK'
    BY <1>5 DEF WritePreamble, SenderAt
<1>6. ASSUME NEW s \in Session, ClientFinish(s)
      PROVE  ClockOK'
    BY <1>6 DEF ClientFinish, ServedBy, SenderAt
<1>7. ASSUME NEW s \in Session, ClientFails(s)
      PROVE  ClockOK'
    BY <1>7 DEF ClientFails, SenderFails, SenderEnds, SenderAt
<1>8. ASSUME NEW s \in Session, ClientTimesOut(s)
      PROVE  ClockOK'
    BY <1>8 DEF ClientTimesOut, SenderFails, SenderEnds, SenderAt
<1>9. ASSUME NEW s \in Session, Vanish(s)
      PROVE  ClockOK'
    BY <1>9 DEF Vanish, SenderAt
<1>10. ASSUME NEW c \in Conn, Establish(c)
      PROVE  ClockOK'
    BY <1>10 DEF Establish
<1>11. ASSUME NEW c \in Conn, DialFails(c)
      PROVE  ClockOK'
    BY <1>11 DEF DialFails
<1>12. ASSUME NEW c \in Conn, Drain(c)
      PROVE  ClockOK'
    BY <1>12 DEF Drain
<1>13. ASSUME NEW s \in Session, SendPeerAddrs(s)
      PROVE  ClockOK'
    <2>1. 0 < AcceptTimeout + PreambleTimeout
        OBVIOUS
    <2> QED
        BY <1>13, <2>1 DEF SendPeerAddrs, ReceiverAt
<1>14. ASSUME NEW s \in Session, Decline(s)
      PROVE  ClockOK'
    BY <1>14 DEF Decline, ReceiverAt
<1>15. ASSUME NEW s \in Session, NEW c \in queue[s], Accept(s, c)
      PROVE  ClockOK'
    BY <1>15 DEF Accept, ReceiverAt
<1>16. ASSUME NEW s \in Session, AcceptTimesOut(s)
      PROVE  ClockOK'
    BY <1>16 DEF AcceptTimesOut, ReceiverFails, ReceiverEnds, ReceiverAt
<1>17. ASSUME NEW s \in Session, PreambleMatches(s)
      PROVE  ClockOK'
    BY <1>17 DEF PreambleMatches, ReceiverAt
<1>18. ASSUME NEW s \in Session, PreambleIsWrong(s)
      PROVE  ClockOK'
    BY <1>18 DEF PreambleIsWrong, Skip, ReceiverFails, ReceiverEnds, ReceiverAt
<1>19. ASSUME NEW s \in Session, PreambleTimesOut(s)
      PROVE  ClockOK'
    BY <1>19 DEF PreambleTimesOut, Skip, ReceiverFails, ReceiverEnds, ReceiverAt
<1>20. ASSUME NEW s \in Session, ServerFinish(s)
      PROVE  ClockOK'
    BY <1>20 DEF ServerFinish, ReceiverAt
<1>21. ASSUME NEW s \in Session, ServerFails(s)
      PROVE  ClockOK'
    BY <1>21 DEF ServerFails, ReceiverFails, ReceiverEnds, ReceiverAt
<1>22. ASSUME NEW s \in Session, ServerTimesOut(s)
      PROVE  ClockOK'
    BY <1>22 DEF ServerTimesOut, ReceiverFails, ReceiverEnds, ReceiverAt
<1>23. CASE Tick
    <2> SUFFICES ASSUME NEW r \in Session
                 PROVE  ClockOK!(r)'
        BY DEF ClockOK
    <2>1. rPc' = rPc /\ tries' = tries
        BY <1>23 DEF Tick
    <2>2. CASE rPc[r] = "accept"
        BY <1>23, <2>1, <2>2 DEF Tick
    <2>3. CASE rPc[r] = "preamble"
        BY <1>23, <2>1, <2>3 DEF Tick
    <2>4. CASE rPc[r] \notin {"accept", "preamble"}
        BY <1>23, <2>1, <2>4 DEF Tick
    <2> QED
        BY <2>2, <2>3, <2>4
<1>24. CASE UNCHANGED vars
    BY <1>24 DEF vars
<1>25. ASSUME NEW s \in Session, SenderStops(s)
      PROVE  ClockOK'
    BY <1>25 DEF SenderStops, SenderEnds, SenderAt
<1>26. ASSUME NEW s \in Session, ReceiverStops(s)
      PROVE  ClockOK'
    BY <1>26 DEF ReceiverStops, ReceiverEnds, ReceiverAt
<1>27. ASSUME NEW c \in Conn, Reset(c)
      PROVE  ClockOK'
    BY <1>27 DEF Reset
<1> QED
    BY <1>1, <1>2, <1>3, <1>4, <1>5, <1>6, <1>7, <1>8, <1>9, <1>10, <1>11, <1>12, <1>13, <1>14,
      <1>15, <1>16, <1>17, <1>18, <1>19, <1>20, <1>21, <1>22, <1>23, <1>24, <1>25, <1>26,
      <1>27
    DEF Next, SenderStep, RaceStep, ReceiverStep, DialStep, DialsOf

(* The inductive invariant of the connection phase holds in every          *)
(* reachable state: who dialled whom, whose preamble is where, who         *)
(* finished with whom, and what the deadlines leave.                       *)
THEOREM Invariance == Spec => []IInv
<1>1. IInv /\ [Next]_vars => IInv'
    BY StepTypeOK, StepSenderOK, StepReceiverOK, StepFinishedOK, StepClockOK DEF IInv
<1> QED
    BY InitIInv, <1>1, PTL DEF Spec

(* Types of the state; the accept loop never skips more connections than   *)
(* maxAcceptTries.                                                         *)
THEOREM TypeCorrect == Spec => []TypeOK
BY Invariance, PTL DEF IInv

(* A receiver takes only the connection its sender chose to the handshake, *)
(* and only when the sender wrote the receiver's code on it.               *)
THEOREM TakesTheChosen == Spec => []HandshakesOnChosen
<1>1. IInv => HandshakesOnChosen
    BY SenderOfConn DEF IInv, TypeOK, SenderOK, ReceiverOK, HandshakesOnChosen
<1> QED
    BY Invariance, <1>1, PTL

(* The accept loop ends within acceptTimeout and one preambleTimeout.      *)
THEOREM AcceptIsBounded == Spec => []AcceptBounded
<1>1. IInv => AcceptBounded
    BY ConnectAssumption DEF IInv, TypeOK, ClockOK, AcceptBounded
<1> QED
    BY Invariance, <1>1, PTL

(* What Pairing sees of a state. *)
SenderPeer == [s \in Session |-> IF winner[s] \in finished THEN reach[winner[s]] ELSE None]
ReceiverPeer == [r \in Session |-> IF rPc[r] = "transfer" THEN SenderOf(rConn[r]) ELSE None]

(* A meeting changes the peer of one session only. *)
LEMMA SenderMeetsAt ==
    ASSUME NEW s \in Session,
           \A t \in Session : SenderPeer'[t] = IF t = s THEN s ELSE SenderPeer[t]
    PROVE  SenderPeer' = [SenderPeer EXCEPT ![s] = s]
<1>1. SenderPeer = [t \in Session |-> SenderPeer[t]]
    BY DEF SenderPeer
<1>2. SenderPeer' = [t \in Session |-> SenderPeer'[t]]
    BY DEF SenderPeer
<1> QED
    BY <1>1, <1>2

LEMMA ReceiverMeetsAt ==
    ASSUME NEW s \in Session,
           \A t \in Session : ReceiverPeer'[t] = IF t = s THEN s ELSE ReceiverPeer[t]
    PROVE  ReceiverPeer' = [ReceiverPeer EXCEPT ![s] = s]
<1>1. ReceiverPeer = [t \in Session |-> ReceiverPeer[t]]
    BY DEF ReceiverPeer
<1>2. ReceiverPeer' = [t \in Session |-> ReceiverPeer'[t]]
    BY DEF ReceiverPeer
<1> QED
    BY <1>1, <1>2

LEMMA StepPairing == IInv /\ [Next]_vars => [P!Next]_(P!vars)
<1> SUFFICES ASSUME IInv, [Next]_vars PROVE [P!Next]_(P!vars)
    OBVIOUS
<1> USE ConnectAssumption, SenderOfConn DEF IInv, TypeOK, SenderOK, ReceiverOK, FinishedOK,
           SenderPeer, ReceiverPeer, P!vars, fixedVars, raceVars, senderVars, acceptVars, receiverVars, faultVars
<1>1. ASSUME NEW s \in Session, ReceiverJoined(s)
      PROVE  [P!Next]_(P!vars)
    BY <1>1 DEF ReceiverJoined, SenderAt
<1>2. ASSUME NEW s \in Session, NotJoined(s)
      PROVE  [P!Next]_(P!vars)
    BY <1>2 DEF NotJoined, SenderFails, SenderEnds, SenderAt
<1>3. ASSUME NEW c \in Conn, TakeWinner(c)
      PROVE  [P!Next]_(P!vars)
    BY <1>3 DEF TakeWinner, SenderAt
<1>4. ASSUME NEW c \in Conn, TakeFailure(c)
      PROVE  [P!Next]_(P!vars)
    BY <1>4 DEF TakeFailure, SenderFails, SenderEnds, SenderAt
<1>5. ASSUME NEW s \in Session, WritePreamble(s)
      PROVE  [P!Next]_(P!vars)
    BY <1>5 DEF WritePreamble, SenderAt
<1>6. ASSUME NEW s \in Session, ClientFinish(s)
      PROVE  [P!Next]_(P!vars)
    <2>1. winner[s] \in Conn /\ winner[s] \notin finished /\ reach[winner[s]] = s
        BY <1>6 DEF ClientFinish, ServedBy
    <2>2. \A t \in Session \ {s} : winner[t] # winner[s]
        BY <2>1
    <2>3. SenderPeer[s] = None
        BY <2>1
    <2>4. \A t \in Session : SenderPeer'[t] = IF t = s THEN s ELSE SenderPeer[t]
        BY <1>6, <2>1, <2>2 DEF ClientFinish
    <2>5. SenderPeer' = [SenderPeer EXCEPT ![s] = s]
        BY ONLY <2>4, SenderMeetsAt
    <2>6. ReceiverPeer' = ReceiverPeer
        BY <1>6 DEF ClientFinish
    <2> QED
        BY <2>3, <2>5, <2>6 DEF P!Next, P!SenderMeets, SenderPeer, ReceiverPeer
<1>7. ASSUME NEW s \in Session, ClientFails(s)
      PROVE  [P!Next]_(P!vars)
    BY <1>7 DEF ClientFails, SenderFails, SenderEnds, SenderAt
<1>8. ASSUME NEW s \in Session, ClientTimesOut(s)
      PROVE  [P!Next]_(P!vars)
    BY <1>8 DEF ClientTimesOut, SenderFails, SenderEnds, SenderAt
<1>9. ASSUME NEW s \in Session, Vanish(s)
      PROVE  [P!Next]_(P!vars)
    BY <1>9 DEF Vanish, SenderAt
<1>10. ASSUME NEW c \in Conn, Establish(c)
      PROVE  [P!Next]_(P!vars)
    BY <1>10 DEF Establish
<1>11. ASSUME NEW c \in Conn, DialFails(c)
      PROVE  [P!Next]_(P!vars)
    BY <1>11 DEF DialFails
<1>12. ASSUME NEW c \in Conn, Drain(c)
      PROVE  [P!Next]_(P!vars)
    BY <1>12 DEF Drain
<1>13. ASSUME NEW s \in Session, SendPeerAddrs(s)
      PROVE  [P!Next]_(P!vars)
    BY <1>13 DEF SendPeerAddrs, ReceiverAt
<1>14. ASSUME NEW s \in Session, Decline(s)
      PROVE  [P!Next]_(P!vars)
    BY <1>14 DEF Decline, ReceiverAt
<1>15. ASSUME NEW s \in Session, NEW c \in queue[s], Accept(s, c)
      PROVE  [P!Next]_(P!vars)
    BY <1>15 DEF Accept, ReceiverAt
<1>16. ASSUME NEW s \in Session, AcceptTimesOut(s)
      PROVE  [P!Next]_(P!vars)
    BY <1>16 DEF AcceptTimesOut, ReceiverFails, ReceiverEnds, ReceiverAt
<1>17. ASSUME NEW s \in Session, PreambleMatches(s)
      PROVE  [P!Next]_(P!vars)
    BY <1>17 DEF PreambleMatches, ReceiverAt
<1>18. ASSUME NEW s \in Session, PreambleIsWrong(s)
      PROVE  [P!Next]_(P!vars)
    <2>1. rPc[s] = "preamble" /\ Skip(s)
        BY <1>18 DEF PreambleIsWrong
    <2>2. rPc'[s] # "transfer" /\ \A t \in Session \ {s} : rPc'[t] = rPc[t] /\ rConn'[t] = rConn[t]
        BY <2>1 DEF Skip, ReceiverFails, ReceiverEnds, ReceiverAt
    <2> QED
        BY <1>18, <2>1, <2>2 DEF PreambleIsWrong
<1>19. ASSUME NEW s \in Session, PreambleTimesOut(s)
      PROVE  [P!Next]_(P!vars)
    <2>1. rPc[s] = "preamble" /\ Skip(s)
        BY <1>19 DEF PreambleTimesOut
    <2>2. rPc'[s] # "transfer" /\ \A t \in Session \ {s} : rPc'[t] = rPc[t] /\ rConn'[t] = rConn[t]
        BY <2>1 DEF Skip, ReceiverFails, ReceiverEnds, ReceiverAt
    <2> QED
        BY <1>19, <2>1, <2>2 DEF PreambleTimesOut
<1>20. ASSUME NEW s \in Session, ServerFinish(s)
      PROVE  [P!Next]_(P!vars)
    <2>1. rConn[s] \in finished /\ SenderOf(rConn[s]) = s /\ s # None
        BY <1>20 DEF ServerFinish
    <2>2. SenderPeer[s] = s /\ SenderPeer' = SenderPeer
        BY <1>20, <2>1 DEF ServerFinish, SenderPeer
    <2>3. ReceiverPeer[s] = None
        BY <1>20 DEF ServerFinish
    <2>4. \A t \in Session : ReceiverPeer'[t] = IF t = s THEN s ELSE ReceiverPeer[t]
        BY <1>20, <2>1 DEF ServerFinish, ReceiverAt
    <2>5. ReceiverPeer' = [ReceiverPeer EXCEPT ![s] = s]
        BY ONLY <2>4, ReceiverMeetsAt
    <2> QED
        BY <2>2, <2>3, <2>5 DEF P!Next, P!ReceiverMeets, SenderPeer, ReceiverPeer
<1>21. ASSUME NEW s \in Session, ServerFails(s)
      PROVE  [P!Next]_(P!vars)
    BY <1>21 DEF ServerFails, ReceiverFails, ReceiverEnds, ReceiverAt
<1>22. ASSUME NEW s \in Session, ServerTimesOut(s)
      PROVE  [P!Next]_(P!vars)
    BY <1>22 DEF ServerTimesOut, ReceiverFails, ReceiverEnds, ReceiverAt
<1>23. CASE Tick
    BY <1>23 DEF Tick
<1>24. CASE UNCHANGED vars
    BY <1>24 DEF vars
<1>25. ASSUME NEW s \in Session, SenderStops(s)
      PROVE  [P!Next]_(P!vars)
    BY <1>25 DEF SenderStops, SenderEnds, SenderAt
<1>26. ASSUME NEW s \in Session, ReceiverStops(s)
      PROVE  [P!Next]_(P!vars)
    BY <1>26 DEF ReceiverStops, ReceiverEnds, ReceiverAt
<1>27. ASSUME NEW c \in Conn, Reset(c)
      PROVE  [P!Next]_(P!vars)
    BY <1>27 DEF Reset
<1> QED
    BY <1>1, <1>2, <1>3, <1>4, <1>5, <1>6, <1>7, <1>8, <1>9, <1>10, <1>11, <1>12, <1>13, <1>14,
      <1>15, <1>16, <1>17, <1>18, <1>19, <1>20, <1>21, <1>22, <1>23, <1>24, <1>25, <1>26,
      <1>27
    DEF Next, SenderStep, RaceStep, ReceiverStep, DialStep, DialsOf

(* Both ends of a transfer belong to one session, the receiver goes on     *)
(* after its sender, and neither does so twice.                            *)
THEOREM ImplementsAbstractPairing == Spec => ImplementsPairing
<1>1. Init => P!Init
    BY ConnectAssumption DEF Init, P!Init
<1>2. IInv /\ [Next]_vars => [P!Next]_(P!vars)
    BY StepPairing
<1> QED
    BY <1>1, <1>2, Invariance, PTL DEF Spec, P!Spec, ImplementsPairing
=============================================================================
