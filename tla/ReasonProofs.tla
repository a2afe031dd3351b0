---------------------------- MODULE ReasonProofs ----------------------------
(***************************************************************************)
(* Proof that a connection attempt of Connect only fails for a reason,     *)
(* whatever the number of sessions, addresses and tries.  The argument is  *)
(* a count: every try of an accept loop is used up by another connection,  *)
(* and the sender's winner is none of them.                                *)
(***************************************************************************)
EXTENDS ConnectProofs

(* Connections that lead to receiver s, and those of them it has skipped.  *)
Home(s) == {c \in Conn : reach[c] = s}
SkippedBy(s) == {c \in skipped : reach[c] = s}

(* The dials of a parked sender have not begun; a connection in a queue or *)
(* in hand has come up, and was not skipped before.                        *)
QueueOK ==
    /\ \A c \in Conn : sPc[SenderOf(c)] = "parked" => dial[c] = "idle"
    /\ \A c \in skipped : dial[c] \notin {"idle", "dialing"}
    /\ \A r \in Session : \A c \in queue[r] : dial[c] \notin {"idle", "dialing"} /\ c \notin skipped
    /\ \A r \in Session : rPc[r] = "preamble" =>
          /\ dial[rConn[r]] \notin {"idle", "dialing"}
          /\ rConn[r] \notin skipped /\ rConn[r] \notin queue[r]

(* Each try a receiver used up is a connection of its own. *)
TriesOK == \A r \in Session : tries[r] = Cardinality(SkippedBy(r))

(* A winner is open until its sender ends; a sender past the introduction  *)
(* has a receiver that said yes; a receiver skips its own sender's         *)
(* connections for a timeout or because they were closed or reset.         *)
WinnerOK ==
    /\ \A s \in Session : winner[s] # None =>
          dial[winner[s]] = "chosen" \/ (dial[winner[s]] = "closed" /\ sPc[s] \in {"failed", "killed"})
    /\ \A s \in Session : sPc[s] \notin {"parked", "failed"} =>
          rPc[s] \notin {"prompt", "declined"}
    /\ \A c \in skipped : reach[c] = SenderOf(c) =>
          SenderOf(c) \in late \/ dial[c] = "closed" \/ c \in broken

(* Reasons that last.                                                      *)
Excused(s) ==
    \/ sPc[s] = "vanished" \/ "killed" \in {sPc[s], rPc[s]} \/ s \in late
    \/ winner[s] \in broken
    \/ \E t \in Session \ {s} : codeOf[t] = codeOf[s]

(* Why a sender has failed, and why a receiver has. *)
SenderReason(s) ==
    \/ Excused(s)
    \/ winner[s] = None
    \/ reach[winner[s]] # s
    \/ Cardinality(Home(s)) > MaxAcceptTries

ReceiverReason(s) == Excused(s) \/ sPc[s] = "failed" \/ tries[s] = MaxAcceptTries

FailureOK ==
    \A s \in Session :
        /\ sPc[s] = "failed" => SenderReason(s)
        /\ rPc[s] = "failed" => ReceiverReason(s)

ReasonInv == QueueOK /\ TriesOK /\ WinnerOK /\ FailureOK

(* A step leaves a failed command as it is, and takes no reason away. *)
ReasonsLast ==
    /\ reach' = reach /\ codeOf' = codeOf /\ late \subseteq late' /\ broken \subseteq broken'
    /\ \A s \in Session :
          /\ sPc[s] \in {"vanished", "killed"} => sPc'[s] = sPc[s]
          /\ rPc[s] = "killed" => rPc'[s] = "killed"
          /\ winner[s] # None => winner'[s] = winner[s]
          /\ sPc[s] = "failed" => sPc'[s] = "failed" /\ winner'[s] = winner[s]
          /\ rPc[s] = "failed" => tries'[s] = tries[s]

(* A command that fails in a step has a reason. *)
NewReasons ==
    \A s \in Session :
        /\ sPc'[s] = "failed" => sPc[s] = "failed" \/ SenderReason(s)'
        /\ rPc'[s] = "failed" => rPc[s] = "failed" \/ ReceiverReason(s)'

LEMMA HomeFinite ==
    ASSUME NEW s \in Session
    PROVE  IsFiniteSet(Home(s)) /\ Cardinality(Home(s)) \in Nat
<1>1. Home(s) \subseteq Conn
    BY DEF Home
<1> QED
    BY <1>1, ConnectAssumption, FS_Subset, FS_CardinalityType

LEMMA InitReasonInv == Init => ReasonInv
<1> SUFFICES ASSUME Init PROVE ReasonInv
    OBVIOUS
<1>1. \A r \in Session : SkippedBy(r) = {}
    BY DEF Init, SkippedBy
<1>2. TriesOK
    BY <1>1, FS_EmptySet DEF Init, TriesOK
<1> QED
    BY <1>2, SenderOfConn, ConnectAssumption DEF Init, ReasonInv, QueueOK, WinnerOK, FailureOK

LEMMA SkipKeepsQueues ==
    ASSUME TypeOK, ReceiverOK, QueueOK, NEW r \in Session,
           rPc[r] = "preamble", rConn[r] \in Conn, Skip(r), UNCHANGED <<sPc, dial>>
    PROVE  QueueOK'
<1>1. /\ skipped' = skipped \cup {rConn[r]} /\ rPc'[r] # "preamble"
      /\ \A t \in Session : queue'[t] \subseteq queue[t]
      /\ \A t \in Session \ {r} : rPc'[t] = rPc[t] /\ rConn'[t] = rConn[t]
    BY DEF TypeOK, Skip, ReceiverFails, ReceiverEnds, ReceiverAt
<1>2. reach[rConn[r]] = r /\ rConn[r] \notin queue[r] /\ dial[rConn[r]] \notin {"idle", "dialing"}
    BY DEF ReceiverOK, QueueOK
<1>3. ASSUME NEW c \in skipped'
      PROVE  dial'[c] \notin {"idle", "dialing"}
    BY <1>1, <1>2 DEF QueueOK
<1>4. ASSUME NEW t \in Session, NEW c \in queue'[t]
      PROVE  dial'[c] \notin {"idle", "dialing"} /\ c \notin skipped'
    <2>1. c \in queue[t] /\ reach[c] = t /\ c \notin skipped
        BY <1>1 DEF ReceiverOK, QueueOK
    <2>2. c # rConn[r]
        BY <1>2, <2>1
    <2> QED
        BY <1>1, <2>1, <2>2 DEF QueueOK
<1>5. ASSUME NEW t \in Session, rPc'[t] = "preamble"
      PROVE  /\ dial'[rConn'[t]] \notin {"idle", "dialing"}
             /\ rConn'[t] \notin skipped' /\ rConn'[t] \notin queue'[t]
    <2>1. t # r /\ rPc[t] = "preamble" /\ rConn'[t] = rConn[t]
        BY <1>1, <1>5
    <2>2. rConn[t] # rConn[r]
        BY <1>2, <2>1 DEF ReceiverOK
    <2> QED
        BY <1>1, <2>1, <2>2 DEF QueueOK
<1> QED
    BY <1>3, <1>4, <1>5 DEF QueueOK

LEMMA StepQueueOK == IInv /\ QueueOK /\ [Next]_vars => QueueOK'
<1> SUFFICES ASSUME IInv, QueueOK, [Next]_vars PROVE QueueOK'
    OBVIOUS
<1> USE ConnectAssumption, SenderOfConn DEF IInv, TypeOK, ReceiverOK, QueueOK,
           fixedVars, raceVars, senderVars, acceptVars, receiverVars, faultVars
<1>1. ASSUME NEW s \in Session, ReceiverJoined(s)
      PROVE  QueueOK'
    BY <1>1 DEF ReceiverJoined, SenderAt
<1>2. ASSUME NEW s \in Session, NotJoined(s)
      PROVE  QueueOK'
    BY <1>2 DEF NotJoined, SenderFails, SenderEnds, SenderAt
<1>3. ASSUME NEW c \in Conn, TakeWinner(c)
      PROVE  QueueOK'
    BY <1>3 DEF TakeWinner, SenderAt
<1>4. ASSUME NEW c \in Conn, TakeFailure(c)
      PROVE  QueueOK'
    <2> DEFINE s == SenderOf(c)
    <2>1. \A d \in Conn : dial'[d] = dial[d] \/ dial'[d] = "closed"
        BY <1>4 DEF TakeFailure, SenderFails, SenderEnds
    <2>2. sPc[s] = "race" /\ \A t \in Session : sPc'[t] = "parked" => sPc[t] = "parked" /\ t # s
        BY <1>4 DEF TakeFailure, SenderFails, SenderEnds, SenderAt
    <2>3. \A d \in Conn : SenderOf(d) # s => dial'[d] = dial[d]
        BY <1>4 DEF TakeFailure, SenderFails, SenderEnds
    <2>4. UNCHANGED <<skipped, queue, rPc, rConn>>
        BY <1>4 DEF TakeFailure
    <2> QED
        BY <2>1, <2>2, <2>3, <2>4
<1>5. ASSUME NEW s \in Session, WritePreamble(s)
      PROVE  QueueOK'
    BY <1>5 DEF WritePreamble, SenderAt
<1>6. ASSUME NEW s \in Session, ClientFinish(s)
      PROVE  QueueOK'
    BY <1>6 DEF ClientFinish, ServedBy, SenderAt
<1>7. ASSUME NEW s \in Session, ClientFails(s)
      PROVE  QueueOK'
    BY <1>7 DEF ClientFails, SenderFails, SenderEnds, SenderAt
<1>8. ASSUME NEW s \in Session, ClientTimesOut(s)
      PROVE  QueueOK'
    BY <1>8 DEF ClientTimesOut, SenderFails, SenderEnds, SenderAt
<1>9. ASSUME NEW s \in Session, Vanish(s)
      PROVE  QueueOK'
    BY <1>9 DEF Vanish, SenderAt
<1>10. ASSUME NEW c \in Conn, Establish(c)
      PROVE  QueueOK'
    BY <1>10 DEF Establish
<1>11. ASSUME NEW c \in Conn, DialFails(c)
      PROVE  QueueOK'
    BY <1>11 DEF DialFails
<1>12. ASSUME NEW c \in Conn, Drain(c)
      PROVE  QueueOK'
    BY <1>12 DEF Drain
<1>13. ASSUME NEW s \in Session, SendPeerAddrs(s)
      PROVE  QueueOK'
    BY <1>13 DEF SendPeerAddrs, ReceiverAt
<1>14. ASSUME NEW s \in Session, Decline(s)
      PROVE  QueueOK'
    BY <1>14 DEF Decline, ReceiverAt
<1>15. ASSUME NEW s \in Session, NEW c \in queue[s], Accept(s, c)
      PROVE  QueueOK'
    BY <1>15 DEF Accept, ReceiverAt
<1>16. ASSUME NEW s \in Session, AcceptTimesOut(s)
      PROVE  QueueOK'
    BY <1>16 DEF AcceptTimesOut, ReceiverFails, ReceiverEnds, ReceiverAt
<1>17. ASSUME NEW s \in Session, PreambleMatches(s)
      PROVE  QueueOK'
    BY <1>17 DEF PreambleMatches, ReceiverAt
<1>18. ASSUME NEW s \in Session, PreambleIsWrong(s)
      PROVE  QueueOK'
    <2>1. rPc[s] = "preamble" /\ rConn[s] \in Conn /\ Skip(s) /\ UNCHANGED <<sPc, dial>>
        BY <1>18 DEF PreambleIsWrong
    <2> QED
        BY <2>1, SkipKeepsQueues
<1>19. ASSUME NEW s \in Session, PreambleTimesOut(s)
      PROVE  QueueOK'
    <2>1. rPc[s] = "preamble" /\ rConn[s] \in Conn /\ Skip(s) /\ UNCHANGED <<sPc, dial>>
        BY <1>19 DEF PreambleTimesOut
    <2> QED
        BY <2>1, SkipKeepsQueues
<1>20. ASSUME NEW s \in Session, ServerFinish(s)
      PROVE  QueueOK'
    BY <1>20 DEF ServerFinish, ReceiverAt
<1>21. ASSUME NEW s \in Session, ServerFails(s)
      PROVE  QueueOK'
    BY <1>21 DEF ServerFails, ReceiverFails, ReceiverEnds, ReceiverAt
<1>22. ASSUME NEW s \in Session, ServerTimesOut(s)
      PROVE  QueueOK'
    BY <1>22 DEF ServerTimesOut, ReceiverFails, ReceiverEnds, ReceiverAt
<1>23. CASE Tick
    BY <1>23 DEF Tick
<1>24. CASE UNCHANGED vars
    BY <1>24 DEF vars
<1>25. ASSUME NEW s \in Session, SenderStops(s)
      PROVE  QueueOK'
    BY <1>25 DEF SenderStops, SenderEnds, SenderAt
<1>26. ASSUME NEW s \in Session, ReceiverStops(s)
      PROVE  QueueOK'
    BY <1>26 DEF ReceiverStops, ReceiverEnds, ReceiverAt
<1>27. ASSUME NEW c \in Conn, Reset(c)
      PROVE  QueueOK'
    BY <1>27 DEF Reset
<1> QED
    BY <1>1, <1>2, <1>3, <1>4, <1>5, <1>6, <1>7, <1>8, <1>9, <1>10, <1>11, <1>12, <1>13, <1>14,
      <1>15, <1>16, <1>17, <1>18, <1>19, <1>20, <1>21, <1>22, <1>23, <1>24, <1>25, <1>26,
      <1>27
    DEF Next, SenderStep, RaceStep, ReceiverStep, DialStep, DialsOf

(* A skipped connection counts, for its receiver only. *)
LEMMA SkipCounts ==
    ASSUME TypeOK, ReceiverOK, QueueOK, TriesOK, NEW r \in Session,
           rPc[r] = "preamble", rConn[r] \in Conn, Skip(r), reach' = reach
    PROVE  TriesOK'
<1> USE DEF TypeOK
<1>1. skipped' = skipped \cup {rConn[r]} /\ tries' = [tries EXCEPT ![r] = @ + 1]
    BY DEF Skip
<1>2. reach[rConn[r]] = r /\ rConn[r] \notin skipped
    BY DEF ReceiverOK, QueueOK
<1>3. SkippedBy(r)' = SkippedBy(r) \cup {rConn[r]} /\ rConn[r] \notin SkippedBy(r)
    BY <1>1, <1>2 DEF SkippedBy
<1>4. IsFiniteSet(SkippedBy(r))
    BY ConnectAssumption, FS_Subset, SkippedBy(r) \subseteq Conn DEF SkippedBy
<1>5. Cardinality(SkippedBy(r)') = Cardinality(SkippedBy(r)) + 1
    <2>1. Cardinality(SkippedBy(r) \cup {rConn[r]}) = Cardinality(SkippedBy(r)) + 1
        BY <1>3, <1>4, FS_AddElement
    <2> QED
        BY ONLY <1>3, <2>1
<1>6. \A t \in Session \ {r} : SkippedBy(t)' = SkippedBy(t)
    BY <1>1, <1>2 DEF SkippedBy
<1> QED
    BY <1>1, <1>5, <1>6 DEF TriesOK

LEMMA StepTriesOK == IInv /\ QueueOK /\ TriesOK /\ [Next]_vars => TriesOK'
<1> SUFFICES ASSUME IInv, QueueOK, TriesOK, [Next]_vars PROVE TriesOK'
    OBVIOUS
<1>1. CASE skipped' = skipped /\ reach' = reach /\ tries' = tries
    BY <1>1 DEF TriesOK, SkippedBy
<1>2. ASSUME NEW r \in Session, PreambleIsWrong(r) \/ PreambleTimesOut(r)
      PROVE  TriesOK'
    <2>1. rPc[r] = "preamble" /\ Skip(r) /\ reach' = reach
        BY <1>2 DEF PreambleIsWrong, PreambleTimesOut, fixedVars
    <2>2. rConn[r] \in Conn
        BY <2>1 DEF IInv, ReceiverOK
    <2> QED
        BY <2>1, <2>2, SkipCounts DEF IInv
<1>3. CASE UNCHANGED vars
    BY <1>1, <1>3 DEF vars, fixedVars, receiverVars, acceptVars
<1> QED
    BY <1>1, <1>2, <1>3
    DEF Next, SenderStep, RaceStep, ReceiverStep, DialStep, fixedVars, receiverVars, acceptVars,
        ReceiverJoined, NotJoined, TakeWinner, TakeFailure, WritePreamble, ClientFinish,
        ClientFails, ClientTimesOut, Vanish, Establish, DialFails, Drain, SendPeerAddrs, Decline,
        Accept, AcceptTimesOut, PreambleMatches, ServerFinish, ServerFails, ServerTimesOut,
        SenderStops, ReceiverStops, Reset, Tick

LEMMA StepWinnerOK == IInv /\ QueueOK /\ WinnerOK /\ [Next]_vars => WinnerOK'
<1> SUFFICES ASSUME IInv, QueueOK, WinnerOK, [Next]_vars PROVE WinnerOK'
    OBVIOUS
<1> USE ConnectAssumption, SenderOfConn DEF IInv, TypeOK, SenderOK, ReceiverOK, QueueOK,
           WinnerOK, fixedVars, raceVars, senderVars, acceptVars, receiverVars, faultVars
<1>1. ASSUME NEW s \in Session, ReceiverJoined(s)
      PROVE  WinnerOK'
    BY <1>1 DEF ReceiverJoined, SenderAt
<1>2. ASSUME NEW s \in Session, NotJoined(s)
      PROVE  WinnerOK'
    BY <1>2 DEF NotJoined, SenderFails, SenderEnds, SenderAt
<1>3. ASSUME NEW c \in Conn, TakeWinner(c)
      PROVE  WinnerOK'
    BY <1>3 DEF TakeWinner, SenderAt
<1>4. ASSUME NEW c \in Conn, TakeFailure(c)
      PROVE  WinnerOK'
    BY <1>4 DEF TakeFailure, SenderFails, SenderEnds, SenderAt
<1>5. ASSUME NEW s \in Session, WritePreamble(s)
      PROVE  WinnerOK'
    BY <1>5 DEF WritePreamble, SenderAt
<1>6. ASSUME NEW s \in Session, ClientFinish(s)
      PROVE  WinnerOK'
    BY <1>6 DEF ClientFinish, ServedBy, SenderAt
<1>7. ASSUME NEW s \in Session, ClientFails(s)
      PROVE  WinnerOK'
    BY <1>7 DEF ClientFails, SenderFails, SenderEnds, SenderAt
<1>8. ASSUME NEW s \in Session, ClientTimesOut(s)
      PROVE  WinnerOK'
    BY <1>8 DEF ClientTimesOut, SenderFails, SenderEnds, SenderAt
<1>9. ASSUME NEW s \in Session, Vanish(s)
      PROVE  WinnerOK'
    BY <1>9 DEF Vanish, SenderAt
<1>10. ASSUME NEW c \in Conn, Establish(c)
      PROVE  WinnerOK'
    BY <1>10 DEF Establish
<1>11. ASSUME NEW c \in Conn, DialFails(c)
      PROVE  WinnerOK'
    BY <1>11 DEF DialFails
<1>12. ASSUME NEW c \in Conn, Drain(c)
      PROVE  WinnerOK'
    BY <1>12 DEF Drain
<1>13. ASSUME NEW s \in Session, SendPeerAddrs(s)
      PROVE  WinnerOK'
    BY <1>13 DEF SendPeerAddrs, ReceiverAt
<1>14. ASSUME NEW s \in Session, Decline(s)
      PROVE  WinnerOK'
    BY <1>14 DEF Decline, ReceiverAt
<1>15. ASSUME NEW s \in Session, NEW c \in queue[s], Accept(s, c)
      PROVE  WinnerOK'
    BY <1>15 DEF Accept, ReceiverAt
<1>16. ASSUME NEW s \in Session, AcceptTimesOut(s)
      PROVE  WinnerOK'
    BY <1>16 DEF AcceptTimesOut, ReceiverFails, ReceiverEnds, ReceiverAt
<1>17. ASSUME NEW s \in Session, PreambleMatches(s)
      PROVE  WinnerOK'
    BY <1>17 DEF PreambleMatches, ReceiverAt
<1>18. ASSUME NEW s \in Session, PreambleIsWrong(s)
      PROVE  WinnerOK'
    BY <1>18 DEF PreambleIsWrong, Skip, ReceiverFails, ReceiverEnds, ReceiverAt
<1>19. ASSUME NEW s \in Session, PreambleTimesOut(s)
      PROVE  WinnerOK'
    BY <1>19 DEF PreambleTimesOut, Skip, ReceiverFails, ReceiverEnds, ReceiverAt
<1>20. ASSUME NEW s \in Session, ServerFinish(s)
      PROVE  WinnerOK'
    BY <1>20 DEF ServerFinish, ReceiverAt
<1>21. ASSUME NEW s \in Session, ServerFails(s)
      PROVE  WinnerOK'
    BY <1>21 DEF ServerFails, ReceiverFails, ReceiverEnds, ReceiverAt
<1>22. ASSUME NEW s \in Session, ServerTimesOut(s)
      PROVE  WinnerOK'
    BY <1>22 DEF ServerTimesOut, ReceiverFails, ReceiverEnds, ReceiverAt
<1>23. CASE Tick
    BY <1>23 DEF Tick
<1>24. CASE UNCHANGED vars
    BY <1>24 DEF vars
<1>25. ASSUME NEW s \in Session, SenderStops(s)
      PROVE  WinnerOK'
    BY <1>25 DEF SenderStops, SenderEnds, SenderAt
<1>26. ASSUME NEW s \in Session, ReceiverStops(s)
      PROVE  WinnerOK'
    BY <1>26 DEF ReceiverStops, ReceiverEnds, ReceiverAt
<1>27. ASSUME NEW c \in Conn, Reset(c)
      PROVE  WinnerOK'
    BY <1>27 DEF Reset
<1> QED
    BY <1>1, <1>2, <1>3, <1>4, <1>5, <1>6, <1>7, <1>8, <1>9, <1>10, <1>11, <1>12, <1>13, <1>14,
      <1>15, <1>16, <1>17, <1>18, <1>19, <1>20, <1>21, <1>22, <1>23, <1>24, <1>25, <1>26,
      <1>27
    DEF Next, SenderStep, RaceStep, ReceiverStep, DialStep, DialsOf

(* The winner is not among the connections that used up the tries.         *)
LEMMA TriesUsedUp ==
    ASSUME IInv, ReasonInv, NEW s \in Session, tries[s] = MaxAcceptTries,
           winner[s] # None, reach[winner[s]] = s, ~Excused(s), sPc[s] # "failed"
    PROVE  Cardinality(Home(s)) > MaxAcceptTries
<1> DEFINE w == winner[s]
<1>1. w \in Conn /\ SenderOf(w) = s
    BY DEF IInv, TypeOK, SenderOK
<1>2. w \notin skipped
    BY <1>1 DEF ReasonInv, WinnerOK, Excused
<1>3. SkippedBy(s) \subseteq Home(s) /\ w \in Home(s) /\ w \notin SkippedBy(s)
    BY <1>1, <1>2 DEF Home, SkippedBy, IInv, TypeOK
<1>4. IsFiniteSet(SkippedBy(s)) /\ Cardinality(SkippedBy(s)) = MaxAcceptTries
    BY <1>3, HomeFinite, FS_Subset DEF ReasonInv, TriesOK
<1>5. Cardinality(SkippedBy(s) \cup {w}) = MaxAcceptTries + 1
    BY <1>3, <1>4, FS_AddElement
<1>6. Cardinality(SkippedBy(s) \cup {w}) <= Cardinality(Home(s))
    BY <1>3, HomeFinite, FS_Subset
<1> QED
    BY <1>5, <1>6, HomeFinite, Limits

(* Skipping a connection only ends the receiver when no try is left.       *)
LEMMA LastTry ==
    ASSUME IInv, NEW r \in Session, rPc[r] = "preamble", rConn[r] \in Conn, Skip(r)
    PROVE  /\ \A t \in Session \ {r} : rPc'[t] = rPc[t]
           /\ rPc'[r] = "failed" => tries'[r] = MaxAcceptTries
<1>1. tries'[r] \in 0 .. MaxAcceptTries /\ rPc \in [Session -> ReceiverPcs]
    BY SkipTypes DEF IInv, TypeOK
<1>2. CASE tries'[r] < MaxAcceptTries
    BY <1>1, <1>2 DEF Skip, ReceiverAt
<1>3. CASE ~(tries'[r] < MaxAcceptTries)
    BY <1>1, <1>3, Limits DEF Skip, ReceiverFails, ReceiverEnds, ReceiverAt
<1> QED
    BY <1>2, <1>3

LEMMA StepReasonsLast == IInv /\ [Next]_vars => ReasonsLast
<1> SUFFICES ASSUME IInv, [Next]_vars PROVE ReasonsLast
    OBVIOUS
<1> USE SenderOfConn DEF IInv, TypeOK, ReasonsLast,
           fixedVars, raceVars, senderVars, acceptVars, receiverVars, faultVars
<1>1. ASSUME NEW s \in Session, ReceiverJoined(s)
      PROVE  ReasonsLast
    BY <1>1 DEF ReceiverJoined, SenderAt
<1>2. ASSUME NEW s \in Session, NotJoined(s)
      PROVE  ReasonsLast
    BY <1>2 DEF NotJoined, SenderFails, SenderEnds, SenderAt
<1>3. ASSUME NEW c \in Conn, TakeWinner(c)
      PROVE  ReasonsLast
    BY <1>3 DEF TakeWinner, SenderAt, SenderOK
<1>4. ASSUME NEW c \in Conn, TakeFailure(c)
      PROVE  ReasonsLast
    BY <1>4 DEF TakeFailure, SenderFails, SenderEnds, SenderAt
<1>5. ASSUME NEW s \in Session, WritePreamble(s)
      PROVE  ReasonsLast
    BY <1>5 DEF WritePreamble, SenderAt
<1>6. ASSUME NEW s \in Session, ClientFinish(s)
      PROVE  ReasonsLast
    BY <1>6 DEF ClientFinish, ServedBy, SenderAt
<1>7. ASSUME NEW s \in Session, ClientFails(s)
      PROVE  ReasonsLast
    BY <1>7 DEF ClientFails, SenderFails, SenderEnds, SenderAt
<1>8. ASSUME NEW s \in Session, ClientTimesOut(s)
      PROVE  ReasonsLast
    BY <1>8 DEF ClientTimesOut, SenderFails, SenderEnds, SenderAt
<1>9. ASSUME NEW s \in Session, Vanish(s)
      PROVE  ReasonsLast
    BY <1>9 DEF Vanish, SenderAt
<1>10. ASSUME NEW c \in Conn, Establish(c)
      PROVE  ReasonsLast
    BY <1>10 DEF Establish
<1>11. ASSUME NEW c \in Conn, DialFails(c)
      PROVE  ReasonsLast
    BY <1>11 DEF DialFails
<1>12. ASSUME NEW c \in Conn, Drain(c)
      PROVE  ReasonsLast
    BY <1>12 DEF Drain
<1>13. ASSUME NEW s \in Session, SendPeerAddrs(s)
      PROVE  ReasonsLast
    BY <1>13 DEF SendPeerAddrs, ReceiverAt
<1>14. ASSUME NEW s \in Session, Decline(s)
      PROVE  ReasonsLast
    BY <1>14 DEF Decline, ReceiverAt
<1>15. ASSUME NEW s \in Session, NEW c \in queue[s], Accept(s, c)
      PROVE  ReasonsLast
    BY <1>15 DEF Accept, ReceiverAt
<1>16. ASSUME NEW s \in Session, AcceptTimesOut(s)
      PROVE  ReasonsLast
    BY <1>16 DEF AcceptTimesOut, ReceiverFails, ReceiverEnds, ReceiverAt
<1>17. ASSUME NEW s \in Session, PreambleMatches(s)
      PROVE  ReasonsLast
    BY <1>17 DEF PreambleMatches, ReceiverAt
<1>18. ASSUME NEW s \in Session, PreambleIsWrong(s)
      PROVE  ReasonsLast
    BY <1>18 DEF PreambleIsWrong, Skip, ReceiverFails, ReceiverEnds, ReceiverAt
<1>19. ASSUME NEW s \in Session, PreambleTimesOut(s)
      PROVE  ReasonsLast
    BY <1>19 DEF PreambleTimesOut, Skip, ReceiverFails, ReceiverEnds, ReceiverAt
<1>20. ASSUME NEW s \in Session, ServerFinish(s)
      PROVE  ReasonsLast
    BY <1>20 DEF ServerFinish, ReceiverAt
<1>21. ASSUME NEW s \in Session, ServerFails(s)
      PROVE  ReasonsLast
    BY <1>21 DEF ServerFails, ReceiverFails, ReceiverEnds, ReceiverAt
<1>22. ASSUME NEW s \in Session, ServerTimesOut(s)
      PROVE  ReasonsLast
    BY <1>22 DEF ServerTimesOut, ReceiverFails, ReceiverEnds, ReceiverAt
<1>23. CASE Tick
    BY <1>23 DEF Tick
<1>24. CASE UNCHANGED vars
    BY <1>24 DEF vars
<1>25. ASSUME NEW s \in Session, SenderStops(s)
      PROVE  ReasonsLast
    BY <1>25 DEF SenderStops, SenderEnds, SenderAt
<1>26. ASSUME NEW s \in Session, ReceiverStops(s)
      PROVE  ReasonsLast
    BY <1>26 DEF ReceiverStops, ReceiverEnds, ReceiverAt
<1>27. ASSUME NEW c \in Conn, Reset(c)
      PROVE  ReasonsLast
    BY <1>27 DEF Reset
<1> QED
    BY <1>1, <1>2, <1>3, <1>4, <1>5, <1>6, <1>7, <1>8, <1>9, <1>10, <1>11, <1>12, <1>13, <1>14,
      <1>15, <1>16, <1>17, <1>18, <1>19, <1>20, <1>21, <1>22, <1>23, <1>24, <1>25, <1>26,
      <1>27
    DEF Next, SenderStep, RaceStep, ReceiverStep, DialStep, DialsOf

LEMMA StepNewReasons == IInv /\ ReasonInv /\ [Next]_vars => NewReasons
<1> SUFFICES ASSUME IInv, ReasonInv, [Next]_vars PROVE NewReasons
    OBVIOUS
<1> USE ConnectAssumption, SenderOfConn DEF IInv, TypeOK, SenderOK, ReceiverOK,
           ReasonInv, NewReasons, SenderReason, ReceiverReason, Excused,
           fixedVars, raceVars, senderVars, acceptVars, receiverVars, faultVars
<1>1. ASSUME NEW s \in Session, ReceiverJoined(s)
      PROVE  NewReasons
    BY <1>1 DEF ReceiverJoined, SenderAt
<1>2. ASSUME NEW s \in Session, NotJoined(s)
      PROVE  NewReasons
    BY <1>2 DEF NotJoined, SenderFails, SenderEnds, SenderAt
<1>3. ASSUME NEW c \in Conn, TakeWinner(c)
      PROVE  NewReasons
    BY <1>3 DEF TakeWinner, SenderAt
<1>4. ASSUME NEW c \in Conn, TakeFailure(c)
      PROVE  NewReasons
    BY <1>4 DEF TakeFailure, SenderFails, SenderEnds, SenderAt
<1>5. ASSUME NEW s \in Session, WritePreamble(s)
      PROVE  NewReasons
    BY <1>5 DEF WritePreamble, SenderAt
<1>6. ASSUME NEW s \in Session, ClientFinish(s)
      PROVE  NewReasons
    BY <1>6 DEF ClientFinish, ServedBy, SenderAt
<1>7. ASSUME NEW s \in Session, ClientFails(s)
      PROVE  NewReasons
    <2>1. sPc[s] \in {"preamble", "handshake"} /\ winner[s] \in Conn /\ SenderOf(winner[s]) = s
        BY <1>7 DEF ClientFails
    <2>2. winner' = winner /\ reach' = reach /\ late' = late /\ broken' = broken /\ codeOf' = codeOf /\ rPc' = rPc
            /\ \A t \in Session \ {s} : sPc'[t] = sPc[t]
        BY <1>7 DEF ClientFails, SenderFails, SenderEnds, SenderAt
    <2>3. CASE reach[winner[s]] # s
        BY <2>1, <2>2, <2>3
    <2>4. CASE reach[winner[s]] = s
        <3>1. winner[s] \in skipped => s \in late \/ winner[s] \in broken
            BY <2>1, <2>4 DEF WinnerOK
        <3>2. ~ \E r \in Session \ {s} : ServedBy(winner[s], r)
            BY <2>4 DEF ReceiverOK, ServedBy
        <3>3. Excused(s) \/ rPc[s] = "failed"
            BY <1>7, <2>1, <2>4, <3>1, <3>2 DEF ClientFails, Refused, Ended, WinnerOK
        <3>4. CASE Excused(s)
            BY <2>1, <2>2, <3>4
        <3>5. CASE ~Excused(s) /\ rPc[s] = "failed"
            <4>1. tries[s] = MaxAcceptTries
                BY <2>1, <3>5 DEF FailureOK, ReceiverReason
            <4>2. CASE tries[s] = MaxAcceptTries
                <5>1. Cardinality(Home(s)) > MaxAcceptTries
                    BY <2>1, <2>4, <3>5, <4>2, TriesUsedUp DEF ReasonInv
                <5>2. Home(s)' = Home(s)
                    BY <2>2 DEF Home
                <5>3. Cardinality(Home(s))' > MaxAcceptTries
                    BY ONLY <5>1, <5>2
                <5> QED
                    BY <2>2, <5>3
            <4> QED
                BY <4>1, <4>2
        <3> QED
            BY <3>3, <3>4, <3>5
    <2> QED
        BY <2>3, <2>4
<1>8. ASSUME NEW s \in Session, ClientTimesOut(s)
      PROVE  NewReasons
    BY <1>8 DEF ClientTimesOut, SenderFails, SenderEnds, SenderAt
<1>9. ASSUME NEW s \in Session, Vanish(s)
      PROVE  NewReasons
    BY <1>9 DEF Vanish, SenderAt
<1>10. ASSUME NEW c \in Conn, Establish(c)
      PROVE  NewReasons
    BY <1>10 DEF Establish
<1>11. ASSUME NEW c \in Conn, DialFails(c)
      PROVE  NewReasons
    BY <1>11 DEF DialFails
<1>12. ASSUME NEW c \in Conn, Drain(c)
      PROVE  NewReasons
    BY <1>12 DEF Drain
<1>13. ASSUME NEW s \in Session, SendPeerAddrs(s)
      PROVE  NewReasons
    BY <1>13 DEF SendPeerAddrs, ReceiverAt
<1>14. ASSUME NEW s \in Session, Decline(s)
      PROVE  NewReasons
    BY <1>14 DEF Decline, ReceiverAt
<1>15. ASSUME NEW s \in Session, NEW c \in queue[s], Accept(s, c)
      PROVE  NewReasons
    BY <1>15 DEF Accept, ReceiverAt
<1>16. ASSUME NEW s \in Session, AcceptTimesOut(s)
      PROVE  NewReasons
    BY <1>16 DEF AcceptTimesOut, ReceiverFails, ReceiverEnds, ReceiverAt
<1>17. ASSUME NEW s \in Session, PreambleMatches(s)
      PROVE  NewReasons
    BY <1>17 DEF PreambleMatches, ReceiverAt
<1>18. ASSUME NEW s \in Session, PreambleIsWrong(s)
      PROVE  NewReasons
    <2>1. rPc[s] = "preamble" /\ rConn[s] \in Conn /\ Skip(s) /\ sPc' = sPc
        BY <1>18 DEF PreambleIsWrong
    <2>2. /\ \A t \in Session \ {s} : rPc'[t] = rPc[t]
          /\ rPc'[s] = "failed" => tries'[s] = MaxAcceptTries
        BY <2>1, LastTry
    <2> QED
        BY <2>1, <2>2
<1>19. ASSUME NEW s \in Session, PreambleTimesOut(s)
      PROVE  NewReasons
    <2>1. rPc[s] = "preamble" /\ rConn[s] \in Conn /\ Skip(s) /\ sPc' = sPc
        BY <1>19 DEF PreambleTimesOut
    <2>2. /\ \A t \in Session \ {s} : rPc'[t] = rPc[t]
          /\ rPc'[s] = "failed" => tries'[s] = MaxAcceptTries
        BY <2>1, LastTry
    <2> QED
        BY <2>1, <2>2
<1>20. ASSUME NEW s \in Session, ServerFinish(s)
      PROVE  NewReasons
    BY <1>20 DEF ServerFinish, ReceiverAt
<1>21. ASSUME NEW s \in Session, ServerFails(s)
      PROVE  NewReasons
    <2>1. rPc[s] = "handshake" /\ rConn[s] \in wrote /\ codeOf[SenderOf(rConn[s])] = codeOf[s]
        BY <1>21 DEF ServerFails, ReceiverOK
    <2>2. CASE SenderOf(rConn[s]) # s
        BY <1>21, <2>1, <2>2 DEF ServerFails, ReceiverFails, ReceiverEnds, ReceiverAt
    <2>3. CASE SenderOf(rConn[s]) = s
        <3>1. /\ dial[rConn[s]] = "closed" \/ rConn[s] \in broken
              /\ winner[s] = rConn[s] /\ rConn[s] \in Conn
            BY <1>21, <2>1, <2>3 DEF ServerFails
        <3>2. sPc[s] \in {"failed", "killed"} \/ winner[s] \in broken
            BY <3>1, ConnectAssumption DEF WinnerOK
        <3> QED
            BY <1>21, <3>2 DEF ServerFails, ReceiverFails, ReceiverEnds, ReceiverAt
    <2> QED
        BY <2>2, <2>3
<1>22. ASSUME NEW s \in Session, ServerTimesOut(s)
      PROVE  NewReasons
    BY <1>22 DEF ServerTimesOut, ReceiverFails, ReceiverEnds, ReceiverAt
<1>23. CASE Tick
    BY <1>23 DEF Tick
<1>24. CASE UNCHANGED vars
    BY <1>24 DEF vars
<1>25. ASSUME NEW s \in Session, SenderStops(s)
      PROVE  NewReasons
    BY <1>25 DEF SenderStops, SenderEnds, SenderAt
<1>26. ASSUME NEW s \in Session, ReceiverStops(s)
      PROVE  NewReasons
    BY <1>26 DEF ReceiverStops, ReceiverEnds, ReceiverAt
<1>27. ASSUME NEW c \in Conn, Reset(c)
      PROVE  NewReasons
    BY <1>27 DEF Reset
<1> QED
    BY <1>1, <1>2, <1>3, <1>4, <1>5, <1>6, <1>7, <1>8, <1>9, <1>10, <1>11, <1>12, <1>13, <1>14,
      <1>15, <1>16, <1>17, <1>18, <1>19, <1>20, <1>21, <1>22, <1>23, <1>24, <1>25, <1>26,
      <1>27
    DEF Next, SenderStep, RaceStep, ReceiverStep, DialStep, DialsOf

LEMMA StepFailureOK == IInv /\ ReasonInv /\ [Next]_vars => FailureOK'
<1> SUFFICES ASSUME IInv, ReasonInv, [Next]_vars, NEW s \in Session
             PROVE  /\ sPc'[s] = "failed" => SenderReason(s)'
                    /\ rPc'[s] = "failed" => ReceiverReason(s)'
    BY DEF FailureOK
<1>1. ReasonsLast /\ NewReasons
    BY StepReasonsLast, StepNewReasons
<1>2. Excused(s) => Excused(s)'
    BY <1>1, ConnectAssumption DEF ReasonsLast, Excused, IInv, TypeOK
<1>3. Home(s)' = Home(s)
    BY <1>1 DEF ReasonsLast, Home
<1>4. sPc[s] = "failed" => SenderReason(s)'
    BY <1>1, <1>2, <1>3 DEF ReasonsLast, ReasonInv, FailureOK, SenderReason
<1>5. rPc[s] = "failed" => ReceiverReason(s)'
    BY <1>1, <1>2 DEF ReasonsLast, ReasonInv, FailureOK, ReceiverReason
<1> QED
    BY <1>1, <1>4, <1>5 DEF NewReasons

(* The invariant that counts: tries against connections, winners against   *)
(* skipped connections, and a reason for each failure.                     *)
THEOREM ReasonInvariance == Spec => []ReasonInv
<1>1. IInv /\ ReasonInv /\ [Next]_vars => ReasonInv'
    BY StepQueueOK, StepTriesOK, StepWinnerOK, StepFailureOK DEF ReasonInv
<1> QED
    BY InitReasonInv, <1>1, Invariance, PTL DEF Spec

(* An attempt only fails for a reason; a receiver that runs out of tries   *)
(* had more connections than tries.                                        *)
THEOREM FailureHasReason == Spec => []FailsForAReason
<1>1. IInv /\ ReasonInv => FailsForAReason
    <2> SUFFICES ASSUME IInv, ReasonInv, NEW s \in Session, "failed" \in {sPc[s], rPc[s]},
                        ~Excused(s), winner[s] # None, reach[winner[s]] = s
                 PROVE  Cardinality(Home(s)) > MaxAcceptTries
        BY DEF FailsForAReason, Excused, Home
    <2>1. CASE sPc[s] = "failed"
        BY <2>1 DEF ReasonInv, FailureOK, SenderReason
    <2>2. CASE sPc[s] # "failed"
        BY <2>2, TriesUsedUp DEF ReasonInv, FailureOK, ReceiverReason, Excused
    <2> QED
        BY <2>1, <2>2
<1> QED
    BY <1>1, Invariance, ReasonInvariance, PTL
=============================================================================
