---------------------------- MODULE DrainProofs ----------------------------
(***************************************************************************)
(* Proofs that RaceConnect accounts for every one of its dials, whatever   *)
(* their number and the order in which they end: it gives up only when all *)
(* have failed, and with a winner its drain goroutine receives exactly the *)
(* results that are still to come.                                         *)
(***************************************************************************)
EXTENDS ConnectProofs

(* The books of one race: while it runs, every dial was received or is     *)
(* outstanding, and none was left out or chosen; nothing is to be drained  *)
(* before there is a winner, and what is outstanding afterwards.           *)
RaceOK(s) ==
    /\ sPc[s] = "parked" => received[s] = 0
    /\ sPc[s] = "race" =>
          /\ \A c \in DialsOf(s) : dial[c] \notin {"idle", "chosen"}
          /\ received[s] + Cardinality(Outstanding(s)) = Cardinality(DialsOf(s))
    /\ winner[s] = None => pending[s] = 0
    /\ winner[s] # None => pending[s] = Cardinality(Outstanding(s))

DrainInv == \A s \in Session : RaceOK(s)

LEMMA OutstandingFinite ==
    ASSUME NEW s \in Session
    PROVE  IsFiniteSet(Outstanding(s)) /\ Cardinality(Outstanding(s)) \in Nat
<1>1. Outstanding(s) \subseteq Conn
    BY DEF Outstanding, DialsOf
<1> QED
    BY <1>1, ConnectAssumption, FS_Subset, FS_CardinalityType

(* A result that is received is outstanding no more. *)
LEMMA ResultReceived ==
    ASSUME NEW c \in Conn, NEW s \in Session, SenderOf(c) = s, dial[c] \in {"up", "failed"},
           dial'[c] \notin {"dialing", "up", "failed"},
           \A d \in DialsOf(s) \ {c} : dial'[d] = dial[d]
    PROVE  Cardinality(Outstanding(s))' = Cardinality(Outstanding(s)) - 1
<1>1. c \in Outstanding(s) /\ Outstanding(s)' = Outstanding(s) \ {c}
    BY DEF Outstanding, DialsOf
<1>2. Cardinality(Outstanding(s) \ {c}) = Cardinality(Outstanding(s)) - 1
    BY <1>1, OutstandingFinite, FS_RemoveElement
<1>3. Cardinality(Outstanding(s))' = Cardinality(Outstanding(s) \ {c})
    BY ONLY <1>1
<1> QED
    BY ONLY <1>2, <1>3

(* A sender that fails has closed everything. *)
LEMMA NothingOutstanding ==
    ASSUME NEW s \in Session, \A d \in DialsOf(s) : dial'[d] = "closed"
    PROVE  Cardinality(Outstanding(s))' = 0
<1>1. Outstanding(s)' = {}
    BY DEF Outstanding, DialsOf
<1>2. Cardinality(Outstanding(s))' = Cardinality({})
    BY ONLY <1>1
<1> QED
    BY <1>2, FS_EmptySet

(* A step that leaves the race of t alone. *)
LEMMA RaceLeftAlone ==
    ASSUME NEW t \in Session, RaceOK(t),
           received'[t] = received[t], pending'[t] = pending[t], winner'[t] = winner[t],
           sPc'[t] = sPc[t] \/ sPc'[t] \notin {"parked", "race"},
           \A c \in DialsOf(t) : dial'[c] = dial[c]
    PROVE  RaceOK(t)'
<1>1. Outstanding(t)' = Outstanding(t) /\ DialsOf(t)' = DialsOf(t)
    BY DEF Outstanding, DialsOf
<1>2. /\ Cardinality(Outstanding(t))' = Cardinality(Outstanding(t))
      /\ Cardinality(DialsOf(t))' = Cardinality(DialsOf(t))
    BY ONLY <1>1
<1> QED
    BY <1>1, <1>2 DEF RaceOK

(* A sender that ends keeps the books of every race. *)
LEMMA EndKeepsBooks ==
    ASSUME IInv, DrainInv, NEW s \in Session, NEW p \in {"failed", "killed"},
           SenderEnds(s, p), winner' = winner,
           \A t \in Session \ {s} : received'[t] = received[t]
    PROVE  DrainInv'
<1> SUFFICES ASSUME NEW t \in Session PROVE RaceOK(t)'
    BY DEF DrainInv
<1> USE DEF IInv, TypeOK
<1>1. CASE t = s
    <2>1. sPc'[s] = p /\ pending'[s] = 0
        BY DEF SenderEnds, SenderAt
    <2>2. Cardinality(Outstanding(s))' = 0
        BY NothingOutstanding DEF SenderEnds, DialsOf
    <2> QED
        BY <1>1, <2>1, <2>2 DEF RaceOK
<1>2. CASE t # s
    <2>1. /\ received'[t] = received[t] /\ pending'[t] = pending[t] /\ winner'[t] = winner[t]
          /\ sPc'[t] = sPc[t]
          /\ \A c \in DialsOf(t) : dial'[c] = dial[c]
        BY <1>2 DEF SenderEnds, SenderAt, DialsOf
    <2> QED
        BY <2>1, RaceLeftAlone DEF DrainInv
<1> QED
    BY <1>1, <1>2

(* A dial that ends is as outstanding as before. *)
LEMMA DialKeepsBooks ==
    ASSUME IInv, DrainInv, NEW c \in Conn, DialStep(c)
    PROVE  DrainInv'
<1> SUFFICES ASSUME NEW t \in Session PROVE RaceOK(t)'
    BY DEF DrainInv
<1>1. /\ dial[c] = "dialing"
      /\ dial' = [dial EXCEPT ![c] = "up"] \/ dial' = [dial EXCEPT ![c] = "failed"]
      /\ UNCHANGED <<sPc, received, pending, winner>>
    BY DEF DialStep, Establish, DialFails
<1>2. /\ dial'[c] \in {"up", "failed"}
      /\ \A d \in Conn \ {c} : dial'[d] = dial[d]
    BY <1>1 DEF IInv, TypeOK
<1>3. Outstanding(t)' = Outstanding(t) /\ DialsOf(t)' = DialsOf(t)
    BY <1>1, <1>2 DEF Outstanding, DialsOf
<1>4. /\ Cardinality(Outstanding(t))' = Cardinality(Outstanding(t))
      /\ Cardinality(DialsOf(t))' = Cardinality(DialsOf(t))
    BY ONLY <1>3
<1>5. sPc[t] = "race" => \A d \in DialsOf(t) : dial'[d] \notin {"idle", "chosen"}
    BY <1>2 DEF DrainInv, RaceOK, DialsOf
<1> QED
    BY <1>1, <1>3, <1>4, <1>5 DEF DrainInv, RaceOK

LEMMA StepDrainInv == IInv /\ DrainInv /\ [Next]_vars => DrainInv'
<1> SUFFICES ASSUME IInv, DrainInv, [Next]_vars PROVE DrainInv'
    OBVIOUS
<1>1. ASSUME NEW s \in Session, ReceiverJoined(s)
      PROVE  DrainInv'
    <2> SUFFICES ASSUME NEW t \in Session PROVE RaceOK(t)'
        BY DEF DrainInv
    <2>1. CASE t = s
        <3>1. /\ sPc[s] = "parked" /\ sPc'[s] = "race" /\ received'[s] = 0
              /\ winner'[s] = None /\ pending'[s] = 0
              /\ \A c \in DialsOf(s) : dial'[c] = "dialing"
            BY <1>1 DEF ReceiverJoined, SenderAt, DialsOf, IInv, TypeOK, SenderOK, DrainInv, RaceOK
        <3>2. Outstanding(s)' = DialsOf(s) /\ DialsOf(s)' = DialsOf(s)
            BY <3>1 DEF Outstanding, DialsOf
        <3>3. Cardinality(Outstanding(s))' = Cardinality(DialsOf(s))
            BY ONLY <3>2
        <3> QED
            BY <2>1, <3>1, <3>2, <3>3, DialsFinite DEF RaceOK
    <2>2. CASE t # s
        <3>1. /\ received'[t] = received[t] /\ pending'[t] = pending[t] /\ winner'[t] = winner[t]
              /\ sPc'[t] = sPc[t]
              /\ \A c \in DialsOf(t) : dial'[c] = dial[c]
            BY <1>1, <2>2 DEF ReceiverJoined, SenderAt, DialsOf, IInv, TypeOK
        <3> QED
            BY <3>1, RaceLeftAlone DEF DrainInv
    <2> QED
        BY <2>1, <2>2
<1>2. ASSUME NEW s \in Session,
             NotJoined(s) \/ ClientFails(s) \/ ClientTimesOut(s) \/ SenderStops(s)
      PROVE  DrainInv'
    BY <1>2, EndKeepsBooks DEF NotJoined, ClientFails, ClientTimesOut, SenderStops, SenderFails
<1>3. ASSUME NEW c \in Conn, TakeWinner(c)
      PROVE  DrainInv'
    <2> DEFINE s == SenderOf(c)
    <2>1. s \in Session
        BY SenderOfConn
    <2>2. /\ sPc[s] = "race" /\ sPc'[s] = "preamble" /\ winner'[s] = c /\ c # None
          /\ received'[s] = received[s] + 1
          /\ pending'[s] = Cardinality(DialsOf(s)) - received'[s]
          /\ dial[c] = "up" /\ dial' = [dial EXCEPT ![c] = "chosen"]
        BY <1>3, <2>1, ConnectAssumption DEF TakeWinner, SenderAt, IInv, TypeOK
    <2>3. dial'[c] = "chosen" /\ \A d \in Conn \ {c} : dial'[d] = dial[d]
        BY <2>2 DEF IInv, TypeOK
    <2>4. ASSUME NEW t \in Session \ {s}
          PROVE  RaceOK(t)'
        <3>1. /\ received'[t] = received[t] /\ pending'[t] = pending[t] /\ winner'[t] = winner[t]
              /\ sPc'[t] = sPc[t]
            BY <1>3 DEF TakeWinner, SenderAt, IInv, TypeOK
        <3>2. \A d \in DialsOf(t) : dial'[d] = dial[d]
            BY <2>3 DEF DialsOf
        <3> QED
            BY <3>1, <3>2, RaceLeftAlone DEF DrainInv
    <2>5. RaceOK(s)'
        <3>1. Cardinality(Outstanding(s))' = Cardinality(Outstanding(s)) - 1
            BY <2>1, <2>2, <2>3, ResultReceived DEF DialsOf
        <3>2. received[s] + Cardinality(Outstanding(s)) = Cardinality(DialsOf(s))
            BY <2>1, <2>2 DEF DrainInv, RaceOK
        <3>3. /\ received[s] \in Nat /\ Cardinality(Outstanding(s)) \in Nat
              /\ Cardinality(DialsOf(s)) \in Nat
            BY <2>1, OutstandingFinite, DialsFinite DEF IInv, TypeOK
        <3>4. pending'[s] = Cardinality(Outstanding(s))'
            BY <2>2, <3>1, <3>2, <3>3
        <3> QED
            BY <2>2, <3>4 DEF RaceOK
    <2> QED
        BY <2>4, <2>5 DEF DrainInv
<1>4. ASSUME NEW c \in Conn, TakeFailure(c)
      PROVE  DrainInv'
    <2> DEFINE s == SenderOf(c)
    <2>1. s \in Session
        BY SenderOfConn
    <2>2. /\ sPc[s] = "race" /\ dial[c] = "failed" /\ winner' = winner
          /\ received' = [received EXCEPT ![s] = @ + 1]
        BY <1>4 DEF TakeFailure
    <2>3. received'[s] = received[s] + 1 /\ \A t \in Session \ {s} : received'[t] = received[t]
        BY <2>1, <2>2 DEF IInv, TypeOK
    <2>4. CASE SenderFails(s)
        BY <2>1, <2>2, <2>3, <2>4, EndKeepsBooks DEF SenderFails
    <2>5. CASE dial' = [dial EXCEPT ![c] = "closed"] /\ UNCHANGED <<sPc, pending>>
        <3>1. dial'[c] = "closed" /\ \A d \in Conn \ {c} : dial'[d] = dial[d]
            BY <2>5 DEF IInv, TypeOK
        <3>2. ASSUME NEW t \in Session \ {s}
              PROVE  RaceOK(t)'
            <4>1. \A d \in DialsOf(t) : dial'[d] = dial[d]
                BY <3>1 DEF DialsOf
            <4> QED
                BY <2>2, <2>3, <2>5, <4>1, RaceLeftAlone DEF DrainInv
        <3>3. RaceOK(s)'
            <4>1. Cardinality(Outstanding(s))' = Cardinality(Outstanding(s)) - 1
                BY <2>1, <2>2, <3>1, ResultReceived DEF DialsOf
            <4>2. /\ received[s] + Cardinality(Outstanding(s)) = Cardinality(DialsOf(s))
                  /\ \A d \in DialsOf(s) : dial[d] \notin {"idle", "chosen"}
                BY <2>1, <2>2 DEF DrainInv, RaceOK
            <4>3. /\ received[s] \in Nat /\ Cardinality(Outstanding(s)) \in Nat
                  /\ Cardinality(DialsOf(s)) \in Nat
                BY <2>1, OutstandingFinite, DialsFinite DEF IInv, TypeOK
            <4>4. received'[s] + Cardinality(Outstanding(s))' = Cardinality(DialsOf(s))
                BY <2>3, <4>1, <4>2, <4>3
            <4>5. DialsOf(s)' = DialsOf(s) /\ \A d \in DialsOf(s) : dial'[d] \notin {"idle", "chosen"}
                BY <3>1, <4>2 DEF DialsOf
            <4>6. winner'[s] = None /\ pending'[s] = 0 /\ sPc'[s] = "race"
                BY <2>1, <2>2, <2>5 DEF IInv, SenderOK, DrainInv, RaceOK
            <4> QED
                BY <4>4, <4>5, <4>6 DEF RaceOK
        <3> QED
            BY <3>2, <3>3 DEF DrainInv
    <2> QED
        BY <1>4, <2>4, <2>5 DEF TakeFailure
<1>5. ASSUME NEW c \in Conn, Drain(c)
      PROVE  DrainInv'
    <2> DEFINE s == SenderOf(c)
    <2>1. s \in Session
        BY SenderOfConn
    <2>2. /\ pending[s] > 0 /\ dial[c] \in {"up", "failed"}
          /\ dial' = [dial EXCEPT ![c] = "closed"]
          /\ pending' = [pending EXCEPT ![s] = @ - 1]
          /\ UNCHANGED <<sPc, received, winner>>
        BY <1>5 DEF Drain
    <2>3. /\ dial'[c] = "closed" /\ \A d \in Conn \ {c} : dial'[d] = dial[d]
          /\ pending'[s] = pending[s] - 1
          /\ \A t \in Session \ {s} : pending'[t] = pending[t]
        BY <2>1, <2>2 DEF IInv, TypeOK
    <2>4. ASSUME NEW t \in Session \ {s}
          PROVE  RaceOK(t)'
        <3>1. \A d \in DialsOf(t) : dial'[d] = dial[d]
            BY <2>3 DEF DialsOf
        <3> QED
            BY <2>2, <2>3, <3>1, RaceLeftAlone DEF DrainInv
    <2>5. RaceOK(s)'
        <3>1. winner[s] # None /\ pending[s] = Cardinality(Outstanding(s))
            BY <2>1, <2>2 DEF DrainInv, RaceOK
        <3>2. sPc[s] \notin {"parked", "race"}
            BY <2>1, <3>1 DEF IInv, SenderOK
        <3>3. Cardinality(Outstanding(s))' = Cardinality(Outstanding(s)) - 1
            BY <2>1, <2>2, <2>3, ResultReceived DEF DialsOf
        <3> QED
            BY <2>2, <2>3, <3>1, <3>2, <3>3 DEF RaceOK
    <2> QED
        BY <2>4, <2>5 DEF DrainInv
<1>6. ASSUME NEW c \in Conn, DialStep(c)
      PROVE  DrainInv'
    BY <1>6, DialKeepsBooks
<1>7. ASSUME NEW s \in Session, WritePreamble(s) \/ ClientFinish(s) \/ Vanish(s)
      PROVE  DrainInv'
    <2>1. /\ UNCHANGED <<received, pending, dial, winner>>
          /\ \A t \in Session : sPc'[t] = sPc[t] \/ sPc'[t] \notin {"parked", "race"}
        BY <1>7 DEF WritePreamble, ClientFinish, Vanish, SenderAt, raceVars, IInv, TypeOK
    <2> QED
        BY <2>1, RaceLeftAlone DEF DrainInv
<1>8. CASE UNCHANGED senderVars
    <2>1. UNCHANGED <<sPc, received, pending, dial, winner>>
        BY <1>8 DEF senderVars, raceVars
    <2> QED
        BY <2>1, RaceLeftAlone DEF DrainInv
<1>9. ASSUME NEW r \in Session, ReceiverStep(r) \/ ReceiverStops(r)
      PROVE  UNCHANGED senderVars
    BY <1>9 DEF ReceiverStep, ReceiverStops, SendPeerAddrs, Decline, Accept, AcceptTimesOut, PreambleMatches,
       PreambleIsWrong, PreambleTimesOut, ServerFinish, ServerFails, ServerTimesOut
<1>10. Tick \/ (\E c \in Conn : Reset(c)) \/ UNCHANGED vars => UNCHANGED senderVars
    BY DEF Tick, Reset, vars
<1> QED
    BY <1>1, <1>2, <1>3, <1>4, <1>5, <1>6, <1>7, <1>8, <1>9, <1>10
    DEF Next, SenderStep, RaceStep, DialsOf

LEMMA InitDrainInv == Init => DrainInv
BY DEF Init, DrainInv, RaceOK

(* Every race keeps its books: received and outstanding results are all    *)
(* the dials, and the drain goroutine is to receive what is outstanding.   *)
THEOREM DrainInvariance == Spec => []DrainInv
BY InitDrainInv, StepDrainInv, Invariance, PTL DEF Spec

(* The drain goroutine receives exactly the results that are still to      *)
(* come: it closes every late connection, and ends.                        *)
THEOREM DrainIsExact == Spec => []DrainExact
<1>1. DrainInv => DrainExact
    BY DEF DrainInv, RaceOK, DrainExact
<1> QED
    BY <1>1, DrainInvariance, PTL

(* RaceConnect only reports failure when every dial has failed.            *)
THEOREM GivesUpOnlyAtTheEnd == Spec => GivesUpLast
<1>1. IInv /\ DrainInv /\ [Next]_vars =>
         [\A s \in Session : sPc[s] = "race" /\ sPc'[s] = "failed" =>
             \A c \in DialsOf(s) : dial[c] \in {"failed", "closed"}]_vars
    <2> SUFFICES ASSUME IInv, DrainInv, Next, NEW s \in Session,
                        sPc[s] = "race", sPc'[s] = "failed"
                 PROVE  \A c \in DialsOf(s) : dial[c] \in {"failed", "closed"}
        OBVIOUS
    <2>1. PICK c \in Conn : SenderOf(c) = s /\ TakeFailure(c) /\ SenderFails(s)
        <3> USE DEF IInv, TypeOK, SenderFails, SenderEnds, SenderAt
        <3>1. ASSUME NEW t \in Session, ReceiverJoined(t) \/ WritePreamble(t) \/ ClientFinish(t)
                                           \/ Vanish(t)
              PROVE  FALSE
            BY <3>1 DEF ReceiverJoined, WritePreamble, ClientFinish, Vanish
        <3>2. ASSUME NEW t \in Session,
                     NotJoined(t) \/ ClientFails(t) \/ ClientTimesOut(t) \/ SenderStops(t)
              PROVE  FALSE
            BY <3>2 DEF NotJoined, ClientFails, ClientTimesOut, SenderStops
        <3>3. ASSUME NEW c \in Conn, TakeWinner(c)
              PROVE  FALSE
            BY <3>3 DEF TakeWinner
        <3>4. ASSUME NEW c \in Conn, TakeFailure(c)
              PROVE  SenderOf(c) = s /\ SenderFails(s)
            BY <3>4 DEF TakeFailure
        <3>5. UNCHANGED sPc => FALSE
            OBVIOUS
        <3>6. ASSUME NEW r \in Session, ReceiverStep(r) \/ ReceiverStops(r)
              PROVE  UNCHANGED sPc
            BY <3>6 DEF ReceiverStep, ReceiverStops, SendPeerAddrs, Decline, Accept, AcceptTimesOut,
               PreambleMatches, PreambleIsWrong, PreambleTimesOut, ServerFinish, ServerFails,
               ServerTimesOut, senderVars
        <3>7. ASSUME NEW c \in Conn, DialStep(c) \/ Drain(c) \/ Reset(c)
              PROVE  UNCHANGED sPc
            BY <3>7 DEF DialStep, Establish, DialFails, Drain, Reset, senderVars
        <3>8. Tick => UNCHANGED sPc
            BY DEF Tick, senderVars
        <3> QED
            BY <3>1, <3>2, <3>3, <3>4, <3>5, <3>6, <3>7, <3>8
            DEF Next, SenderStep, RaceStep, DialsOf
    <2>2. dial[c] = "failed" /\ received[s] + 1 = Cardinality(DialsOf(s))
        BY <2>1 DEF TakeFailure, SenderFails, SenderEnds, SenderAt, IInv, TypeOK
    <2>3. /\ received[s] + Cardinality(Outstanding(s)) = Cardinality(DialsOf(s))
          /\ \A d \in DialsOf(s) : dial[d] \notin {"idle", "chosen"}
        BY DEF DrainInv, RaceOK
    <2>4. Cardinality(Outstanding(s)) = 1
        BY <2>2, <2>3, OutstandingFinite DEF IInv, TypeOK
    <2>5. Outstanding(s) = {c}
        <3>1. c \in Outstanding(s)
            BY <2>1, <2>2 DEF Outstanding, DialsOf
        <3>2. Cardinality(Outstanding(s) \ {c}) = 0 /\ IsFiniteSet(Outstanding(s) \ {c})
            BY <2>4, <3>1, OutstandingFinite, FS_RemoveElement
        <3>3. Outstanding(s) \ {c} = {}
            BY <3>2, FS_EmptySet
        <3> QED
            BY <3>1, <3>3
    <2> QED
        BY <2>2, <2>3, <2>5 DEF Outstanding, DialsOf, IInv, TypeOK, Dials
<1> QED
    BY <1>1, DrainInvariance, Invariance, PTL DEF Spec, GivesUpLast
=============================================================================
