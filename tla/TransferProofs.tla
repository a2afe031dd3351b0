--------------------------- MODULE TransferProofs ---------------------------
(***************************************************************************)
(* Proofs about Transfer, for every value of its constants.  The inductive *)
(* invariant IInv says, point by point of Receiver.Run, how the partial    *)
(* file, the rolling hash and the frames in flight belong together.        *)
(***************************************************************************)
EXTENDS Transfer, SequenceTheorems, TLAPS

(* Unsynced data is only ever in the partial file and the sidecar, and the *)
(* partial file is synced by the time it is renamed.                       *)
DirtyOK ==
    /\ "partial" \in dirty => partial \in Seq(Block)
    /\ "dest" \notin dirty
    /\ rPc \in {"rename", "cleanup", "ok"} => "partial" \notin dirty

(* From CheckPartial to the seeding of the hash, the resume offset is the  *)
(* length of the partial file; afterwards the hash has the file's bytes.   *)
PartialOK ==
    /\ rPc = "drop" => rOff = 0
    /\ rPc \in {"request", "awaitStart", "open"} /\ rOff # 0
            => partial \in Seq(Block) /\ Len(partial) = rOff
    /\ rPc \in {"truncateMeta", "meta", "seed"}
            => partial \in Seq(Block) /\ Len(partial) = rOff
    /\ rPc \in {"stream", "trailer", "sync", "rename"}
            => partial \in Seq(Block) /\ rHash = partial

(* Both ends and every trailer in flight have the digest that was offered, *)
(* and nothing is in flight before the ResumeRequest is answered.          *)
DigestOK ==
    /\ sPc \notin {"idle", "hash"} => sSha \in Digests
    /\ SenderAttached => sSha = rSha
    /\ Receiving => rSha \in Digests
    /\ \A i \in 1 .. Len(toR) : toR[i].type = "hash" => toR[i].sha = rSha
    /\ sPc = "await" => toR = <<>>

(* What was verified stays verified up to the end of the transfer. *)
VerifiedOK ==
    /\ rPc \in {"sync", "rename"} => Sha256(partial) = rSha
    /\ rPc \in {"cleanup", "ok"} => Sha256(dest) = rSha /\ partial = None

IInv == TypeOK /\ DirtyOK /\ PartialOK /\ DigestOK /\ VerifiedOK

LEMMA InitIInv == Init => IInv
BY TransferAssumption
   DEF Init, IInv, TypeOK, DirtyOK, PartialOK, DigestOK, VerifiedOK, SenderPcs, Finished,
       ReceiverPcs, SenderAttached, Receiving

LEMMA FramesOK ==
    /\ \A n \in Nat : Start(n) \in Frames /\ Start(n).type # "hash"
    /\ \A d \in Seq(Block) : Chunk(d) \in Frames /\ Chunk(d).type # "hash"
    /\ EOS \in Frames /\ EOS.type # "hash"
    /\ \A d \in Digests : Trailer(d) \in Frames /\ Trailer(d).sha = d
    /\ \A f \in Frames :
          /\ f.type = "start" => f.offset \in Nat
          /\ f.type = "chunk" => f.data \in Seq(Block)
          /\ f.type = "hash" => f.sha \in Digests
BY DEF Start, Chunk, EOS, Trailer, Frames

LEMMA PrefixIsSeq ==
    ASSUME NEW d \in Seq(Block), NEW n \in 0 .. Len(d)
    PROVE  SubSeq(d, 1, n) \in Seq(Block)
BY SubSeqProperties, ElementOfSeq, LenProperties

(* What a read does to the frames in flight. *)
LEMMA TailOK ==
    ASSUME toR \in Seq(Frames), toR # <<>>
    PROVE  /\ Head(toR) \in Frames
           /\ Head(toR) = toR[1]
           /\ Tail(toR) \in Seq(Frames)
           /\ Len(toR) \in Nat
           /\ Len(Tail(toR)) = Len(toR) - 1
           /\ \A i \in 1 .. Len(Tail(toR)) : i + 1 \in 1 .. Len(toR) /\ Tail(toR)[i] = toR[i + 1]
           /\ 1 \in 1 .. Len(toR)
BY HeadTailProperties, LenProperties

LEMMA ReceiveTypes ==
    ASSUME TypeOK, NEW type, Receive(type)
    PROVE  toR' \in Seq(Frames) /\ Len(toR') <= WireCap
BY TailOK, TransferAssumption DEF TypeOK, Receive

(* The state in which a receiver process leaves its part of the network. *)
LEMMA ReceiverEndsTypes ==
    ASSUME TypeOK, NEW outcome \in Finished, ReceiverEnds(outcome)
    PROVE  /\ rPc' \in ReceiverPcs
           /\ rSize' \in Nat
           /\ rSha' \in Digests \cup {None}
           /\ rOff' \in Nat
           /\ rHash' \in Seq(Block)
           /\ request' \in Nat \cup {None}
           /\ toR' \in Seq(Frames) /\ Len(toR') <= WireCap
           /\ link' \in {"up", "closing", "broken"}
BY EmptySeq, TransferAssumption DEF TypeOK, ReceiverEnds, ReceiverPcs

LEMMA ReceivedTrailers ==
    ASSUME IInv, NEW type, Receive(type)
    PROVE  \A i \in 1 .. Len(toR') : toR'[i].type = "hash" => toR'[i].sha = rSha
<1> SUFFICES ASSUME NEW i \in 1 .. Len(Tail(toR))
             PROVE  Tail(toR)[i].type = "hash" => Tail(toR)[i].sha = rSha
    BY DEF Receive
<1>1. i + 1 \in 1 .. Len(toR) /\ Tail(toR)[i] = toR[i + 1]
    BY TailOK DEF IInv, TypeOK, Receive
<1> QED
    BY <1>1 DEF IInv, DigestOK

LEMMA ReadIsSeq ==
    ASSUME IInv, SendChunk
    PROVE  SubSeq(source, sPos + 1, sPos') \in Seq(Block)
<1>1. source \in Seq(Block)
    BY TransferAssumption DEF IInv, TypeOK
<1>2. sPos \in Nat /\ sPos' \in Nat /\ sPos' <= Len(source)
    BY <1>1, LenProperties, TransferAssumption DEF IInv, TypeOK, SendChunk, Smaller
<1> QED
    BY <1>1, <1>2, SubSeqProperties, ElementOfSeq

LEMMA AppendedFrame ==
    ASSUME toR \in Seq(Frames), NEW f \in Frames
    PROVE  \A i \in 1 .. Len(Append(toR, f)) :
              \/ i \in 1 .. Len(toR) /\ Append(toR, f)[i] = toR[i]
              \/ Append(toR, f)[i] = f
BY AppendProperties, LenProperties

(* A write cut short leaves a well-formed partial file. *)
LEMMA StopsTypes ==
    ASSUME IInv, ReceiverStops
    PROVE  /\ partial' \in Seq(Block) \cup {None}
           /\ dirty' \subseteq {"partial", "meta", "dest"}
           /\ "partial" \in dirty' => partial' \in Seq(Block)
<1>1. CASE UNCHANGED <<partial, dirty>>
    BY <1>1 DEF IInv, TypeOK, DirtyOK
<1>2. ASSUME rPc = "stream", toR # <<>>, Head(toR).type = "chunk",
             NEW k \in 1 .. Len(Head(toR).data),
             partial' = partial \o SubSeq(Head(toR).data, 1, k),
             dirty' = dirty \cup {"partial"}
      PROVE  partial' \in Seq(Block) /\ dirty' \subseteq {"partial", "meta", "dest"}
    <2>1. Head(toR).data \in Seq(Block) /\ partial \in Seq(Block)
        BY <1>2, TailOK, FramesOK DEF IInv, TypeOK, PartialOK
    <2>2. SubSeq(Head(toR).data, 1, k) \in Seq(Block)
        BY <2>1, PrefixIsSeq
    <2> QED BY <1>2, <2>1, <2>2, ConcatProperties DEF IInv, TypeOK
<1> QED BY <1>1, <1>2 DEF ReceiverStops

LEMMA StepTypeOK == IInv /\ [Next]_vars => TypeOK'
<1> SUFFICES ASSUME IInv, [Next]_vars PROVE TypeOK'
    OBVIOUS
<1> USE TransferAssumption DEF TypeOK, SenderPcs, ReceiverPcs, Finished
<1>1. CASE Introduce
    BY <1>1 DEF IInv, DigestOK, Introduce, budgetVars, senderVars, receiverVars, diskVars, netVars
<1>2. CASE Stat
    BY <1>2 DEF IInv, Stat, budgetVars, senderVars, receiverVars, diskVars, netVars
<1>3. CASE Hash
    BY <1>3 DEF IInv, Hash, budgetVars, senderVars, receiverVars, diskVars, netVars, Sha256, Digests
<1>4. CASE AnswerResumeRequest
    <2>1. request \in Nat /\ toR = <<>>
        BY <1>4 DEF IInv, DigestOK, AnswerResumeRequest
    <2>2. Append(toR, Start(request)) \in Seq(Frames) /\ Len(Append(toR, Start(request))) = 1
        BY <2>1, FramesOK, AppendProperties, EmptySeq
    <2>3. toR' \in Seq(Frames) /\ Len(toR') <= WireCap
        <3>1. CASE request <= sSize
            BY <1>4, <2>2, <3>1 DEF AnswerResumeRequest
        <3>2. CASE ~(request <= sSize)
            BY <1>4, <3>2 DEF IInv, AnswerResumeRequest
        <3> QED BY <3>1, <3>2
    <2> QED
        BY <1>4, <2>1, <2>3 DEF IInv, AnswerResumeRequest, SenderEnds, budgetVars,
            receiverVars, diskVars
<1>5. CASE SendChunk
    BY <1>5 DEF IInv, SendChunk, Smaller, Chunk, budgetVars, senderVars, receiverVars, diskVars, netVars, Frames
<1>6. CASE SendEOS
    BY <1>6 DEF IInv, SendEOS, budgetVars, senderVars, receiverVars, diskVars, netVars, Frames
<1>7. CASE SendHash
    BY <1>7 DEF IInv, DigestOK, SendHash, SenderEnds, Trailer, budgetVars, senderVars, receiverVars, diskVars, netVars, Frames
<1>8. CASE SenderSeesBreak
    BY <1>8 DEF IInv, SenderSeesBreak, SenderEnds, budgetVars, senderVars, receiverVars, diskVars, netVars
<1>9. CASE CheckPartial
    <2>1. /\ meta' \in Metas \cup {None, Corrupt}
          /\ dirty' \subseteq {"partial", "meta", "dest"}
          /\ faults' \in 0 .. MaxFaults
        <3>1. RemoveMeta \/ UNCHANGED <<meta, dirty, faults>>
            BY <1>9 DEF CheckPartial
        <3>2. CASE RemoveMeta
            <4>1. faults' \in 0 .. MaxFaults
                BY <3>2 DEF IInv, RemoveMeta, Fault
            <4>2. meta' \in {meta, None} /\ dirty' \subseteq dirty
                BY <3>2 DEF RemoveMeta
            <4> QED
                BY <4>1, <4>2 DEF IInv
        <3>3. CASE UNCHANGED <<meta, dirty, faults>>
            BY <3>3 DEF IInv
        <3> QED
            BY <3>1, <3>2, <3>3
    <2>2. rPc' \in ReceiverPcs /\ rOff' \in Nat
        BY <1>9, LenProperties DEF IInv, CheckPartial
    <2>3. UNCHANGED <<source, edits, senderVars, rSize, rSha, rHash, partial, dest, netVars>>
        BY <1>9 DEF CheckPartial
    <2> QED
        BY <2>1, <2>2, <2>3 DEF IInv, senderVars, netVars
<1>10. CASE DropPartial
    <2>1. faults' \in 0 .. MaxFaults
        BY <1>10 DEF IInv, DropPartial, RemovePartial, Fault
    <2>2. partial' \in Seq(Block) \cup {None} /\ dirty' \subseteq {"partial", "meta", "dest"}
        BY <1>10 DEF IInv, DropPartial, RemovePartial
    <2>3. /\ rPc' = "request"
          /\ UNCHANGED <<source, edits, senderVars, rSize, rSha, rOff, rHash, meta, dest, netVars>>
        BY <1>10 DEF DropPartial
    <2> QED
        BY <2>1, <2>2, <2>3 DEF IInv, senderVars, netVars
<1>11. CASE SendResumeRequest
    BY <1>11 DEF IInv, SendResumeRequest, budgetVars, senderVars, diskVars
<1>12. CASE ReadTransferStart
    <2>1. CASE Head(toR).offset = rOff
        BY <1>12, <2>1, ReceiveTypes DEF IInv, ReadTransferStart, budgetVars, senderVars,
            diskVars
    <2>2. CASE Head(toR).offset # rOff
        BY <1>12, <2>2, ReceiverEndsTypes DEF IInv, ReadTransferStart, budgetVars,
            senderVars, diskVars
    <2> QED BY <2>1, <2>2
<1>13. CASE OpenPartial
    <2>1. partial' \in Seq(Block) \cup {None} /\ dirty' \subseteq {"partial", "meta", "dest"}
        BY <1>13, EmptySeq DEF IInv, OpenPartial
    <2>2. /\ rPc' = "truncateMeta"
          /\ UNCHANGED <<source, budgetVars, senderVars, rSize, rSha, rOff, rHash, meta, dest, netVars>>
        BY <1>13 DEF OpenPartial
    <2> QED
        BY <2>1, <2>2 DEF IInv, budgetVars, senderVars, netVars
<1>14. CASE TruncateMeta
    BY <1>14 DEF IInv, TruncateMeta, budgetVars, senderVars, netVars
<1>15. CASE WriteMeta
    BY <1>15 DEF IInv, DigestOK, Receiving, WriteMeta, Metas, budgetVars, senderVars, netVars
<1>16. CASE SeedHash
    BY <1>16, SubSeqFull DEF IInv, PartialOK, SeedHash, budgetVars, senderVars, diskVars, netVars
<1>17. CASE RecvChunk
    <2>1. Head(toR).data \in Seq(Block) /\ Tail(toR) \in Seq(Frames) /\ Len(Tail(toR)) <= WireCap
        BY <1>17, TailOK, FramesOK DEF IInv, RecvChunk, Receive
    <2>2. partial \in Seq(Block)
        BY <1>17 DEF IInv, PartialOK, RecvChunk
    <2> QED
        BY <1>17, <2>1, <2>2, ConcatProperties DEF IInv, RecvChunk, Receive, budgetVars, senderVars
<1>18. CASE RecvEOS
    BY <1>18, ReceiveTypes DEF IInv, RecvEOS, budgetVars, senderVars, diskVars
<1>19. CASE RecvClose
    <2>1. CASE rPc = "stream"
        BY <1>19, <2>1 DEF IInv, RecvClose, budgetVars, senderVars, diskVars, netVars
    <2>2. CASE rPc # "stream"
        BY <1>19, <2>2, ReceiverEndsTypes DEF IInv, RecvClose, budgetVars, senderVars, diskVars
    <2> QED BY <2>1, <2>2
<1>20. CASE VerifyTrailer
    <2>1. CASE Head(toR).sha = Sha256(rHash)
        BY <1>20, <2>1, ReceiveTypes DEF IInv, VerifyTrailer, budgetVars, senderVars, diskVars
    <2>2. CASE Head(toR).sha # Sha256(rHash)
        BY <1>20, <2>2, ReceiverEndsTypes DEF IInv, VerifyTrailer, budgetVars, senderVars, diskVars
    <2> QED BY <2>1, <2>2
<1>21. CASE Sync
    BY <1>21 DEF IInv, Sync, budgetVars, senderVars, netVars
<1>22. CASE Rename
    BY <1>22 DEF IInv, PartialOK, Rename, budgetVars, senderVars, netVars
<1>23. CASE Cleanup
    <2>1. faults' \in 0 .. MaxFaults
        BY <1>23 DEF IInv, Cleanup, RemoveMeta, Fault
    <2> QED
        BY <1>23, <2>1, ReceiverEndsTypes DEF IInv, Cleanup, RemoveMeta, senderVars
<1>24. CASE ReceiverSeesBreak
    BY <1>24, EmptySeq DEF IInv, ReceiverSeesBreak, ReceiverEnds, budgetVars, senderVars, diskVars
<1>25. CASE EditSource
    BY <1>25 DEF IInv, EditSource, senderVars, receiverVars, diskVars, netVars
<1>26. CASE BreakLink
    BY <1>26 DEF IInv, BreakLink, Fault, senderVars, receiverVars, diskVars
<1>27. CASE SourceFails
    BY <1>27 DEF IInv, SourceFails, SenderEnds, Fault, receiverVars, diskVars
<1>28. CASE SenderStops
    BY <1>28 DEF IInv, SenderStops, SenderAttached, Fault, receiverVars, diskVars
<1>29. CASE ReceiverStops
    <2>1. partial' \in Seq(Block) \cup {None} /\ dirty' \subseteq {"partial", "meta", "dest"}
        BY <1>29, StopsTypes DEF IInv
    <2> QED
        BY <1>29, <2>1, ReceiverEndsTypes DEF IInv, ReceiverStops, Fault, senderVars
<1>30. CASE PowerLoss
    <2>1. partial' \in Seq(Block) \cup {None}
        <3>1. CASE "partial" \notin dirty
            BY <1>30, <3>1 DEF IInv, PowerLoss
        <3>2. CASE "partial" \in dirty
            <4>1. partial \in Seq(Block) /\ partial' \in Remains(partial)
                BY <1>30, <3>2 DEF IInv, DirtyOK, PowerLoss
            <4> QED
                BY <4>1, PrefixIsSeq DEF Remains
        <3> QED
            BY <3>1, <3>2
    <2>2. dest' = dest /\ meta' \in Metas \cup {None, Corrupt} /\ dirty' = {}
        BY <1>30 DEF IInv, DirtyOK, PowerLoss
    <2>3. CASE rPc \in Finished
        BY <1>30, <2>1, <2>2, <2>3 DEF IInv, PowerLoss, Fault, senderVars, receiverVars, netVars
    <2>4. CASE rPc \notin Finished
        BY <1>30, <2>1, <2>2, <2>4, ReceiverEndsTypes DEF IInv, PowerLoss, Fault, senderVars
    <2> QED BY <2>3, <2>4
<1>31. CASE UNCHANGED vars
    BY <1>31 DEF IInv, vars, budgetVars, senderVars, receiverVars, diskVars, netVars
<1> QED
    BY <1>1, <1>2, <1>3, <1>4, <1>5, <1>6, <1>7, <1>8, <1>9, <1>10, <1>11, <1>12, <1>13,
       <1>14, <1>15, <1>16, <1>17, <1>18, <1>19, <1>20, <1>21, <1>22, <1>23, <1>24,
       <1>25, <1>26, <1>27, <1>28, <1>29, <1>30, <1>31
    DEF Next, SenderStep, ReceiverStep, Environment

LEMMA StepDirtyOK == IInv /\ [Next]_vars => DirtyOK'
<1> SUFFICES ASSUME IInv, [Next]_vars PROVE DirtyOK'
    OBVIOUS
<1> USE DEF IInv, DirtyOK, Finished
<1>1. CASE Introduce
    BY <1>1 DEF TypeOK, Introduce, diskVars
<1>2. CASE Stat
    BY <1>2 DEF TypeOK, Stat, receiverVars, diskVars
<1>3. CASE Hash
    BY <1>3 DEF TypeOK, Hash, receiverVars, diskVars
<1>4. CASE AnswerResumeRequest
    BY <1>4 DEF TypeOK, AnswerResumeRequest, SenderEnds, receiverVars, diskVars
<1>5. CASE SendChunk
    BY <1>5 DEF TypeOK, SendChunk, Smaller, receiverVars, diskVars
<1>6. CASE SendEOS
    BY <1>6 DEF TypeOK, SendEOS, receiverVars, diskVars
<1>7. CASE SendHash
    BY <1>7 DEF TypeOK, SendHash, SenderEnds, receiverVars, diskVars
<1>8. CASE SenderSeesBreak
    BY <1>8 DEF TypeOK, SenderSeesBreak, SenderEnds, receiverVars, diskVars
<1>9. CASE CheckPartial
    BY <1>9 DEF TypeOK, CheckPartial, RemoveMeta, TooLong, MetaMatches
<1>10. CASE DropPartial
    BY <1>10 DEF TypeOK, DropPartial, RemovePartial
<1>11. CASE SendResumeRequest
    BY <1>11 DEF TypeOK, SendResumeRequest, diskVars
<1>12. CASE ReadTransferStart
    BY <1>12 DEF TypeOK, ReadTransferStart, Receive, ReceiverEnds, diskVars
<1>13. CASE OpenPartial
    BY <1>13 DEF TypeOK, OpenPartial
<1>14. CASE TruncateMeta
    BY <1>14 DEF TypeOK, TruncateMeta
<1>15. CASE WriteMeta
    BY <1>15 DEF TypeOK, WriteMeta
<1>16. CASE SeedHash
    BY <1>16 DEF TypeOK, SeedHash, diskVars
<1>17. CASE RecvChunk
    <2>1. Head(toR).data \in Seq(Block) /\ partial \in Seq(Block)
        BY <1>17, TailOK, FramesOK DEF TypeOK, PartialOK, RecvChunk, Receive
    <2> QED BY <1>17, <2>1, ConcatProperties DEF RecvChunk
<1>18. CASE RecvEOS
    BY <1>18 DEF TypeOK, RecvEOS, Receive, diskVars
<1>19. CASE RecvClose
    BY <1>19 DEF TypeOK, RecvClose, ReceiverEnds, diskVars
<1>20. CASE VerifyTrailer
    BY <1>20 DEF TypeOK, VerifyTrailer, Receive, ReceiverEnds, diskVars
<1>21. CASE Sync
    BY <1>21 DEF TypeOK, Sync
<1>22. CASE Rename
    BY <1>22 DEF TypeOK, Rename
<1>23. CASE Cleanup
    BY <1>23 DEF TypeOK, Cleanup, RemoveMeta, ReceiverEnds
<1>24. CASE ReceiverSeesBreak
    BY <1>24 DEF TypeOK, ReceiverSeesBreak, ReceiverEnds, diskVars
<1>25. CASE EditSource
    BY <1>25 DEF TypeOK, EditSource, receiverVars, diskVars
<1>26. CASE BreakLink
    BY <1>26 DEF TypeOK, BreakLink, receiverVars, diskVars
<1>27. CASE SourceFails
    BY <1>27 DEF TypeOK, SourceFails, SenderEnds, receiverVars, diskVars
<1>28. CASE SenderStops
    BY <1>28 DEF TypeOK, SenderStops, receiverVars, diskVars
<1>29. CASE ReceiverStops
    <2>1. rPc' = "idle" /\ (dirty' = dirty \/ dirty' = dirty \cup {"partial"})
        BY <1>29 DEF ReceiverStops, ReceiverEnds
    <2>2. "partial" \in dirty' => partial' \in Seq(Block)
        BY <1>29, StopsTypes DEF ReceiverStops
    <2> QED BY <2>1, <2>2
<1>30. CASE PowerLoss
    BY <1>30 DEF TypeOK, PowerLoss, ReceiverEnds, Remains, receiverVars
<1>31. CASE UNCHANGED vars
    BY <1>31 DEF vars, receiverVars, diskVars
<1> QED
    BY <1>1, <1>2, <1>3, <1>4, <1>5, <1>6, <1>7, <1>8, <1>9, <1>10, <1>11, <1>12, <1>13,
       <1>14, <1>15, <1>16, <1>17, <1>18, <1>19, <1>20, <1>21, <1>22, <1>23, <1>24,
       <1>25, <1>26, <1>27, <1>28, <1>29, <1>30, <1>31
    DEF Next, SenderStep, ReceiverStep, Environment

LEMMA StepPartialOK == IInv /\ [Next]_vars => PartialOK'
<1> SUFFICES ASSUME IInv, [Next]_vars PROVE PartialOK'
    OBVIOUS
<1> USE DEF IInv, PartialOK, Finished
<1>1. CASE Introduce
    BY <1>1 DEF TypeOK, Introduce, diskVars
<1>2. CASE Stat
    BY <1>2 DEF TypeOK, Stat, receiverVars, diskVars
<1>3. CASE Hash
    BY <1>3 DEF TypeOK, Hash, receiverVars, diskVars
<1>4. CASE AnswerResumeRequest
    BY <1>4 DEF TypeOK, AnswerResumeRequest, SenderEnds, receiverVars, diskVars
<1>5. CASE SendChunk
    BY <1>5 DEF TypeOK, SendChunk, Smaller, receiverVars, diskVars
<1>6. CASE SendEOS
    BY <1>6 DEF TypeOK, SendEOS, receiverVars, diskVars
<1>7. CASE SendHash
    BY <1>7 DEF TypeOK, SendHash, SenderEnds, receiverVars, diskVars
<1>8. CASE SenderSeesBreak
    BY <1>8 DEF TypeOK, SenderSeesBreak, SenderEnds, receiverVars, diskVars
<1>9. CASE CheckPartial
    BY <1>9 DEF TypeOK, CheckPartial, RemoveMeta, TooLong, MetaMatches
<1>10. CASE DropPartial
    BY <1>10 DEF TypeOK, DropPartial, RemovePartial
<1>11. CASE SendResumeRequest
    BY <1>11 DEF TypeOK, SendResumeRequest, diskVars
<1>12. CASE ReadTransferStart
    BY <1>12 DEF TypeOK, ReadTransferStart, Receive, ReceiverEnds, diskVars
<1>13. CASE OpenPartial
    BY <1>13, EmptySeq DEF TypeOK, OpenPartial
<1>14. CASE TruncateMeta
    BY <1>14 DEF TypeOK, TruncateMeta
<1>15. CASE WriteMeta
    BY <1>15 DEF TypeOK, WriteMeta
<1>16. CASE SeedHash
    BY <1>16 DEF TypeOK, SeedHash, diskVars
<1>17. CASE RecvChunk
    <2>1. Head(toR).data \in Seq(Block) /\ partial \in Seq(Block)
        BY <1>17, TailOK, FramesOK DEF TypeOK, PartialOK, RecvChunk, Receive
    <2> QED BY <1>17, <2>1, ConcatProperties DEF RecvChunk
<1>18. CASE RecvEOS
    BY <1>18 DEF TypeOK, RecvEOS, Receive, diskVars
<1>19. CASE RecvClose
    BY <1>19 DEF TypeOK, RecvClose, ReceiverEnds, diskVars
<1>20. CASE VerifyTrailer
    BY <1>20 DEF TypeOK, VerifyTrailer, Receive, ReceiverEnds, diskVars
<1>21. CASE Sync
    BY <1>21 DEF TypeOK, Sync
<1>22. CASE Rename
    BY <1>22 DEF TypeOK, Rename
<1>23. CASE Cleanup
    BY <1>23 DEF TypeOK, Cleanup, RemoveMeta, ReceiverEnds
<1>24. CASE ReceiverSeesBreak
    BY <1>24 DEF TypeOK, ReceiverSeesBreak, ReceiverEnds, diskVars
<1>25. CASE EditSource
    BY <1>25 DEF TypeOK, EditSource, receiverVars, diskVars
<1>26. CASE BreakLink
    BY <1>26 DEF TypeOK, BreakLink, receiverVars, diskVars
<1>27. CASE SourceFails
    BY <1>27 DEF TypeOK, SourceFails, SenderEnds, receiverVars, diskVars
<1>28. CASE SenderStops
    BY <1>28 DEF TypeOK, SenderStops, receiverVars, diskVars
<1>29. CASE ReceiverStops
    BY <1>29 DEF TypeOK, ReceiverStops, ReceiverEnds
<1>30. CASE PowerLoss
    BY <1>30 DEF TypeOK, PowerLoss, ReceiverEnds, Remains, receiverVars
<1>31. CASE UNCHANGED vars
    BY <1>31 DEF vars, receiverVars, diskVars
<1> QED
    BY <1>1, <1>2, <1>3, <1>4, <1>5, <1>6, <1>7, <1>8, <1>9, <1>10, <1>11, <1>12, <1>13,
       <1>14, <1>15, <1>16, <1>17, <1>18, <1>19, <1>20, <1>21, <1>22, <1>23, <1>24,
       <1>25, <1>26, <1>27, <1>28, <1>29, <1>30, <1>31
    DEF Next, SenderStep, ReceiverStep, Environment

LEMMA StepDigestOK == IInv /\ [Next]_vars => DigestOK'
<1> SUFFICES ASSUME IInv, [Next]_vars PROVE DigestOK'
    OBVIOUS
<1> USE DEF IInv, DigestOK, Finished, SenderAttached, Receiving
<1>1. CASE Introduce
    BY <1>1 DEF TypeOK, Introduce
<1>2. CASE Stat
    BY <1>2 DEF TypeOK, Stat, receiverVars, netVars
<1>3. CASE Hash
    BY <1>3, TransferAssumption DEF TypeOK, Hash, Sha256, Digests, receiverVars, netVars
<1>4. CASE AnswerResumeRequest
    <2>1. CASE request <= sSize
        <3>1. request \in Nat /\ toR = <<>>
            BY <1>4 DEF TypeOK, AnswerResumeRequest
        <3>2. toR' = Append(toR, Start(request)) /\ Start(request).type # "hash"
            BY <1>4, <2>1, <3>1, FramesOK DEF AnswerResumeRequest
        <3>3. \A i \in 1 .. Len(toR') : toR'[i].type # "hash"
            BY <3>1, <3>2, FramesOK, AppendedFrame DEF TypeOK
        <3> QED BY <1>4, <2>1, <3>3 DEF AnswerResumeRequest, receiverVars
    <2>2. CASE ~(request <= sSize)
        BY <1>4, <2>2 DEF AnswerResumeRequest, SenderEnds, receiverVars
    <2> QED BY <2>1, <2>2
<1>5. CASE SendChunk
    <2>1. SubSeq(source, sPos + 1, sPos') \in Seq(Block)
        BY <1>5, ReadIsSeq
    <2>2. \E d \in Seq(Block) : toR' = Append(toR, Chunk(d))
        BY <1>5, <2>1 DEF SendChunk
    <2>3. \A i \in 1 .. Len(toR') : toR'[i].type = "hash" => toR'[i].sha = rSha
        BY <2>2, FramesOK, AppendedFrame DEF TypeOK
    <2> QED
        BY <1>5, <2>3 DEF SendChunk, receiverVars
<1>6. CASE SendEOS
    BY <1>6, FramesOK, AppendedFrame DEF TypeOK, SendEOS, receiverVars
<1>7. CASE SendHash
    BY <1>7, FramesOK, AppendedFrame DEF TypeOK, SendHash, SenderEnds, receiverVars
<1>8. CASE SenderSeesBreak
    BY <1>8 DEF TypeOK, SenderSeesBreak, SenderEnds, receiverVars
<1>9. CASE CheckPartial
    BY <1>9 DEF TypeOK, CheckPartial, RemoveMeta, TooLong, MetaMatches, senderVars, netVars
<1>10. CASE DropPartial
    BY <1>10 DEF TypeOK, DropPartial, RemovePartial, senderVars, netVars
<1>11. CASE SendResumeRequest
    BY <1>11 DEF TypeOK, SendResumeRequest, senderVars
<1>12. CASE ReadTransferStart
    <2>1. CASE Head(toR).offset = rOff
        <3>1. \A i \in 1 .. Len(toR') : toR'[i].type = "hash" => toR'[i].sha = rSha
            BY <1>12, <2>1, ReceivedTrailers DEF ReadTransferStart
        <3> QED
            BY <1>12, <2>1, <3>1 DEF ReadTransferStart, Receive, senderVars
    <2>2. CASE Head(toR).offset # rOff
        BY <1>12, <2>2, EmptySeq DEF TypeOK, ReadTransferStart, ReceiverEnds, senderVars
    <2> QED BY <2>1, <2>2
<1>13. CASE OpenPartial
    BY <1>13 DEF TypeOK, OpenPartial, senderVars, netVars
<1>14. CASE TruncateMeta
    BY <1>14 DEF TypeOK, TruncateMeta, senderVars, netVars
<1>15. CASE WriteMeta
    BY <1>15 DEF TypeOK, WriteMeta, senderVars, netVars
<1>16. CASE SeedHash
    BY <1>16 DEF TypeOK, SeedHash, senderVars, netVars
<1>17. CASE RecvChunk
    BY <1>17 DEF TypeOK, RecvChunk, Receive, senderVars
<1>18. CASE RecvEOS
    BY <1>18 DEF TypeOK, RecvEOS, Receive, senderVars
<1>19. CASE RecvClose
    BY <1>19 DEF TypeOK, RecvClose, ReceiverEnds, senderVars, netVars
<1>20. CASE VerifyTrailer
    <2>1. CASE Head(toR).sha = Sha256(rHash)
        <3>1. \A i \in 1 .. Len(toR') : toR'[i].type = "hash" => toR'[i].sha = rSha
            BY <1>20, <2>1, ReceivedTrailers DEF VerifyTrailer
        <3> QED
            BY <1>20, <2>1, <3>1 DEF VerifyTrailer, Receive, senderVars
    <2>2. CASE Head(toR).sha # Sha256(rHash)
        BY <1>20, <2>2, EmptySeq DEF TypeOK, VerifyTrailer, ReceiverEnds, senderVars
    <2> QED BY <2>1, <2>2
<1>21. CASE Sync
    BY <1>21 DEF TypeOK, Sync, senderVars, netVars
<1>22. CASE Rename
    BY <1>22 DEF TypeOK, Rename, senderVars, netVars
<1>23. CASE Cleanup
    BY <1>23 DEF TypeOK, Cleanup, RemoveMeta, ReceiverEnds, senderVars
<1>24. CASE ReceiverSeesBreak
    BY <1>24 DEF TypeOK, ReceiverSeesBreak, ReceiverEnds, senderVars
<1>25. CASE EditSource
    BY <1>25 DEF TypeOK, EditSource, senderVars, receiverVars, netVars
<1>26. CASE BreakLink
    BY <1>26 DEF TypeOK, BreakLink, senderVars, receiverVars
<1>27. CASE SourceFails
    BY <1>27 DEF TypeOK, SourceFails, SenderEnds, receiverVars
<1>28. CASE SenderStops
    BY <1>28 DEF TypeOK, SenderStops, receiverVars
<1>29. CASE ReceiverStops
    BY <1>29 DEF TypeOK, ReceiverStops, ReceiverEnds, senderVars
<1>30. CASE PowerLoss
    BY <1>30 DEF TypeOK, PowerLoss, ReceiverEnds, Remains, senderVars, receiverVars, netVars
<1>31. CASE UNCHANGED vars
    BY <1>31 DEF vars, senderVars, receiverVars, netVars
<1> QED
    BY <1>1, <1>2, <1>3, <1>4, <1>5, <1>6, <1>7, <1>8, <1>9, <1>10, <1>11, <1>12, <1>13,
       <1>14, <1>15, <1>16, <1>17, <1>18, <1>19, <1>20, <1>21, <1>22, <1>23, <1>24,
       <1>25, <1>26, <1>27, <1>28, <1>29, <1>30, <1>31
    DEF Next, SenderStep, ReceiverStep, Environment

LEMMA StepVerifiedOK == IInv /\ [Next]_vars => VerifiedOK'
<1> SUFFICES ASSUME IInv, [Next]_vars PROVE VerifiedOK'
    OBVIOUS
<1> USE DEF IInv, VerifiedOK, Finished, Sha256
<1>1. CASE Introduce
    BY <1>1 DEF TypeOK, Introduce, diskVars
<1>2. CASE Stat
    BY <1>2 DEF TypeOK, Stat, receiverVars, diskVars
<1>3. CASE Hash
    BY <1>3 DEF TypeOK, Hash, receiverVars, diskVars
<1>4. CASE AnswerResumeRequest
    BY <1>4 DEF TypeOK, AnswerResumeRequest, SenderEnds, receiverVars, diskVars
<1>5. CASE SendChunk
    BY <1>5 DEF TypeOK, SendChunk, Smaller, receiverVars, diskVars
<1>6. CASE SendEOS
    BY <1>6 DEF TypeOK, SendEOS, receiverVars, diskVars
<1>7. CASE SendHash
    BY <1>7 DEF TypeOK, SendHash, SenderEnds, receiverVars, diskVars
<1>8. CASE SenderSeesBreak
    BY <1>8 DEF TypeOK, SenderSeesBreak, SenderEnds, receiverVars, diskVars
<1>9. CASE CheckPartial
    BY <1>9 DEF TypeOK, CheckPartial, RemoveMeta, TooLong, MetaMatches
<1>10. CASE DropPartial
    BY <1>10 DEF TypeOK, DropPartial, RemovePartial
<1>11. CASE SendResumeRequest
    BY <1>11 DEF TypeOK, SendResumeRequest, diskVars
<1>12. CASE ReadTransferStart
    BY <1>12 DEF TypeOK, ReadTransferStart, Receive, ReceiverEnds, diskVars
<1>13. CASE OpenPartial
    BY <1>13 DEF TypeOK, OpenPartial
<1>14. CASE TruncateMeta
    BY <1>14 DEF TypeOK, TruncateMeta
<1>15. CASE WriteMeta
    BY <1>15 DEF TypeOK, WriteMeta
<1>16. CASE SeedHash
    BY <1>16 DEF TypeOK, SeedHash, diskVars
<1>17. CASE RecvChunk
    BY <1>17 DEF TypeOK, RecvChunk, Receive
<1>18. CASE RecvEOS
    BY <1>18 DEF TypeOK, RecvEOS, Receive, diskVars
<1>19. CASE RecvClose
    BY <1>19 DEF TypeOK, RecvClose, ReceiverEnds, diskVars
<1>20. CASE VerifyTrailer
    <2>1. Head(toR).sha = rSha
        BY <1>20, TailOK DEF TypeOK, DigestOK, VerifyTrailer
    <2>2. rHash = partial
        BY <1>20 DEF PartialOK, VerifyTrailer
    <2> QED
        BY <1>20, <2>1, <2>2 DEF VerifyTrailer, ReceiverEnds, diskVars
<1>21. CASE Sync
    BY <1>21 DEF TypeOK, Sync
<1>22. CASE Rename
    BY <1>22 DEF TypeOK, Rename
<1>23. CASE Cleanup
    BY <1>23 DEF TypeOK, Cleanup, RemoveMeta, ReceiverEnds
<1>24. CASE ReceiverSeesBreak
    BY <1>24 DEF TypeOK, ReceiverSeesBreak, ReceiverEnds, diskVars
<1>25. CASE EditSource
    BY <1>25 DEF TypeOK, EditSource, receiverVars, diskVars
<1>26. CASE BreakLink
    BY <1>26 DEF TypeOK, BreakLink, receiverVars, diskVars
<1>27. CASE SourceFails
    BY <1>27 DEF TypeOK, SourceFails, SenderEnds, receiverVars, diskVars
<1>28. CASE SenderStops
    BY <1>28 DEF TypeOK, SenderStops, receiverVars, diskVars
<1>29. CASE ReceiverStops
    BY <1>29 DEF TypeOK, ReceiverStops, ReceiverEnds
<1>30. CASE PowerLoss
    <2>1. dest' = dest
        BY <1>30 DEF DirtyOK, PowerLoss
    <2>2. CASE rPc \in Finished
        BY <1>30, <2>1, <2>2 DEF DirtyOK, PowerLoss, receiverVars
    <2>3. CASE rPc \notin Finished
        BY <1>30, <2>3 DEF PowerLoss, ReceiverEnds
    <2> QED BY <2>2, <2>3
<1>31. CASE UNCHANGED vars
    BY <1>31 DEF vars, receiverVars, diskVars
<1> QED
    BY <1>1, <1>2, <1>3, <1>4, <1>5, <1>6, <1>7, <1>8, <1>9, <1>10, <1>11, <1>12, <1>13,
       <1>14, <1>15, <1>16, <1>17, <1>18, <1>19, <1>20, <1>21, <1>22, <1>23, <1>24,
       <1>25, <1>26, <1>27, <1>28, <1>29, <1>30, <1>31
    DEF Next, SenderStep, ReceiverStep, Environment

LEMMA StepIInv == IInv /\ [Next]_vars => IInv'
BY StepTypeOK, StepDirtyOK, StepPartialOK, StepDigestOK, StepVerifiedOK DEF IInv

(* IInv holds in every reachable state. *)
THEOREM Invariance == Spec => []IInv
<1>1. Init => IInv
    BY InitIInv
<1>2. IInv /\ [Next]_vars => IInv'
    BY StepIInv
<1> QED
    BY <1>1, <1>2, PTL DEF Spec

(* The state stays within its types, and the connection never holds more   *)
(* frames than the writer can get in before it blocks.                     *)
THEOREM TypeCorrect == Spec => []TypeOK
<1>1. IInv => TypeOK
    BY DEF IInv
<1> QED
    BY <1>1, Invariance, PTL

(* The rolling hash the trailer is compared with covers exactly the bytes  *)
(* in the partial file: what is verified is what is renamed.               *)
THEOREM HashIsOfPartial == Spec => []HashCoversPartial
<1>1. IInv => HashCoversPartial
    BY DEF IInv, PartialOK, HashCoversPartial
<1> QED
    BY <1>1, Invariance, PTL

(* A receiver that reports success has saved the file it was offered and   *)
(* left no partial file, after any number of crashes, power losses and     *)
(* resumed attempts.                                                       *)
THEOREM SuccessIsClean == Spec => []CleanFinish
<1>1. IInv => CleanFinish
    BY DEF IInv, VerifiedOK, CleanFinish
<1> QED
    BY <1>1, Invariance, PTL

(* Only the rename changes the destination, and the offer stays the same   *)
(* for as long as a receiver works on it.                                  *)
LEMMA OnlyRenameSaves ==
    IInv /\ [Next]_vars => \/ Rename
                           \/ dest' = dest /\ (Receiving /\ Receiving' => rSha' = rSha)
<1> SUFFICES ASSUME IInv, [Next]_vars
             PROVE  Rename \/ (dest' = dest /\ (Receiving /\ Receiving' => rSha' = rSha))
    OBVIOUS
<1> USE DEF Receiving, Finished
<1>1. CASE Introduce
    BY <1>1 DEF Introduce, diskVars
<1>2. CASE Stat
    BY <1>2 DEF Stat, receiverVars, diskVars
<1>3. CASE Hash
    BY <1>3 DEF Hash, receiverVars, diskVars
<1>4. CASE AnswerResumeRequest
    BY <1>4 DEF AnswerResumeRequest, SenderEnds, receiverVars, diskVars
<1>5. CASE SendChunk
    BY <1>5 DEF SendChunk, receiverVars, diskVars
<1>6. CASE SendEOS
    BY <1>6 DEF SendEOS, receiverVars, diskVars
<1>7. CASE SendHash
    BY <1>7 DEF SendHash, SenderEnds, receiverVars, diskVars
<1>8. CASE SenderSeesBreak
    BY <1>8 DEF SenderSeesBreak, SenderEnds, receiverVars, diskVars
<1>9. CASE CheckPartial
    BY <1>9 DEF CheckPartial
<1>10. CASE DropPartial
    BY <1>10 DEF DropPartial
<1>11. CASE SendResumeRequest
    BY <1>11 DEF SendResumeRequest, diskVars
<1>12. CASE ReadTransferStart
    BY <1>12 DEF ReadTransferStart, Receive, ReceiverEnds, diskVars
<1>13. CASE OpenPartial
    BY <1>13 DEF OpenPartial
<1>14. CASE TruncateMeta
    BY <1>14 DEF TruncateMeta
<1>15. CASE WriteMeta
    BY <1>15 DEF WriteMeta
<1>16. CASE SeedHash
    BY <1>16 DEF SeedHash, diskVars
<1>17. CASE RecvChunk
    BY <1>17 DEF RecvChunk
<1>18. CASE RecvEOS
    BY <1>18 DEF RecvEOS, diskVars
<1>19. CASE RecvClose
    BY <1>19 DEF RecvClose, ReceiverEnds, diskVars
<1>20. CASE VerifyTrailer
    BY <1>20 DEF VerifyTrailer, Receive, ReceiverEnds, diskVars
<1>21. CASE Sync
    BY <1>21 DEF Sync
<1>22. CASE Rename
    BY <1>22
<1>23. CASE Cleanup
    BY <1>23 DEF Cleanup, ReceiverEnds
<1>24. CASE ReceiverSeesBreak
    BY <1>24 DEF ReceiverSeesBreak, ReceiverEnds, diskVars
<1>25. CASE EditSource
    BY <1>25 DEF EditSource, receiverVars, diskVars
<1>26. CASE BreakLink
    BY <1>26 DEF BreakLink, receiverVars, diskVars
<1>27. CASE SourceFails
    BY <1>27 DEF SourceFails, SenderEnds, receiverVars, diskVars
<1>28. CASE SenderStops
    BY <1>28 DEF SenderStops, receiverVars, diskVars
<1>29. CASE ReceiverStops
    BY <1>29 DEF ReceiverStops, ReceiverEnds
<1>30. CASE PowerLoss
    BY <1>30 DEF IInv, DirtyOK, PowerLoss, ReceiverEnds, Remains, receiverVars
<1>31. CASE UNCHANGED vars
    BY <1>31 DEF vars, receiverVars, diskVars
<1> QED
    BY <1>1, <1>2, <1>3, <1>4, <1>5, <1>6, <1>7, <1>8, <1>9, <1>10, <1>11, <1>12, <1>13,
       <1>14, <1>15, <1>16, <1>17, <1>18, <1>19, <1>20, <1>21, <1>22, <1>23, <1>24,
       <1>25, <1>26, <1>27, <1>28, <1>29, <1>30, <1>31
    DEF Next, SenderStep, ReceiverStep, Environment

LEMMA StepDelivers == IInv /\ IInv' /\ [Next]_vars => [D!Next]_(D!vars)
<1> SUFFICES ASSUME IInv, IInv', [Next]_vars PROVE [D!Next]_(D!vars)
    OBVIOUS
<1>1. CASE Rename
    <2>1. partial \in Seq(Block) /\ Sha256(partial) = rSha
        BY <1>1 DEF IInv, PartialOK, VerifiedOK, Rename
    <2>2. Receiving /\ ~Receiving' /\ dest' = partial
        BY <1>1 DEF Rename, Receiving, Finished
    <2>3. D!Deliver
        BY <2>1, <2>2 DEF D!Deliver
    <2> QED BY <2>3 DEF D!Next
<1>2. CASE dest' = dest /\ (Receiving /\ Receiving' => rSha' = rSha)
    <2>1. CASE Receiving <=> Receiving'
        BY <1>2, <2>1 DEF D!vars
    <2>2. CASE Receiving /\ ~Receiving'
        <3>1. D!Abandon
            BY <1>2, <2>2 DEF D!Abandon, IInv, DigestOK
        <3> QED BY <3>1 DEF D!Next
    <2>3. CASE ~Receiving /\ Receiving'
        <3>1. D!Accept
            BY <1>2, <2>3 DEF D!Accept, IInv, DigestOK
        <3> QED BY <3>1 DEF D!Next
    <2> QED BY <2>1, <2>2, <2>3
<1> QED
    BY <1>1, <1>2, OnlyRenameSaves

(* The transfer implements Delivery: each accepted transfer replaces the   *)
(* destination at most once, in one step, by the very file that was        *)
(* offered, whatever crashes, power losses, broken connections and edits   *)
(* of the source happen.                                                   *)
THEOREM ImplementsDelivery == Spec => DeliversAtomically
<1>1. Init => D!Init
    BY DEF Init, D!Init, Receiving, Finished
<1>2. IInv /\ IInv' /\ [Next]_vars => [D!Next]_(D!vars)
    BY StepDelivers
<1> QED
    BY <1>1, <1>2, Invariance, PTL DEF Spec, D!Spec, DeliversAtomically
=============================================================================
