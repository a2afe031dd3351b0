---------------------------- MODULE FramesProofs ----------------------------
(***************************************************************************)
(* Proofs about the frames in flight in Transfer.  The protocol has no     *)
(* frame types and its trailer is not framed, so that the two ends must    *)
(* agree on where they are; and it has no acknowledgement, so that what    *)
(* the sender leaves on the connection must be all the receiver needs.     *)
(***************************************************************************)
EXTENDS QuietProofs

(* The sender is between the TransferStart and the trailer. *)
Writing == sPc \in {"stream", "trailer"}

(* What may be written behind a frame. *)
Follows(f, g) ==
    \/ f.type \in {"start", "chunk"} /\ g.type \in {"chunk", "eos"}
    \/ f.type = "eos" /\ g.type = "hash"

OrderOK == \A i \in 1 .. Len(toR) : i + 1 \in 1 .. Len(toR) => Follows(toR[i], toR[i + 1])

(* The first frame in flight is the one the receiver is going to read.     *)
HeadOK ==
    toR # <<>> =>
        /\ Streaming
        /\ rPc = "awaitStart" => toR[1].type = "start"
        /\ rPc \notin {"awaitStart", "trailer"} => toR[1].type \in {"chunk", "eos"}
        /\ rPc = "trailer" => toR[1].type = "hash"

(* The last one is what the sender wrote last; when the receiver has read  *)
(* it, it is just behind it.                                               *)
LastOK ==
    /\ Streaming /\ sPc = "stream" =>
          IF toR = <<>> THEN rPc \notin {"awaitStart", "trailer"}
          ELSE rPc # "trailer" /\ toR[Len(toR)].type \in {"start", "chunk"}
    /\ Streaming /\ sPc = "trailer" =>
          IF toR = <<>> THEN rPc = "trailer"
          ELSE toR[Len(toR)].type = "eos"

(* The sender only writes to a receiver that reads, and writes nothing     *)
(* before it got the request or after it closed.                           *)
TurnsOK ==
    /\ Writing /\ link = "up" => Streaming
    /\ link = "closing" => ~SenderAttached
    /\ request # None => rPc = "awaitStart" /\ toR = <<>> /\ ~Writing
    /\ rPc \in {"check", "drop", "request"} => ~Writing

FramesInv == OrderOK /\ HeadOK /\ LastOK /\ TurnsOK

(* What a write does to the frames in flight, and what a read does. *)
LEMMA Written ==
    ASSUME toR \in Seq(Frames), OrderOK, NEW f \in Frames, toR' = Append(toR, f),
           toR # <<>> => Follows(toR[Len(toR)], f)
    PROVE  /\ OrderOK' /\ toR' # <<>> /\ toR'[Len(toR')] = f
           /\ toR = <<>> => toR'[1] = f
           /\ toR # <<>> => toR'[1] = toR[1]
<1>1. /\ Len(toR) \in Nat /\ Len(toR') = Len(toR) + 1 /\ toR'[Len(toR) + 1] = f
      /\ \A i \in 1 .. Len(toR) : toR'[i] = toR[i]
    BY AppendProperties, LenProperties
<1>2. toR = <<>> <=> Len(toR) = 0
    BY EmptySeq
<1>3. toR' # <<>>
    BY AppendProperties
<1>4. ASSUME NEW i \in 1 .. Len(toR'), i + 1 \in 1 .. Len(toR')
      PROVE  Follows(toR'[i], toR'[i + 1])
    <2>1. i \in 1 .. Len(toR) /\ toR'[i] = toR[i]
        BY <1>1, <1>4
    <2>2. CASE i = Len(toR)
        BY <1>1, <1>2, <2>1, <2>2
    <2>3. CASE i # Len(toR)
        <3>1. i + 1 \in 1 .. Len(toR)
            BY <1>1, <2>1, <2>3
        <3> QED
            BY <1>1, <2>1, <3>1 DEF OrderOK
    <2> QED
        BY <2>2, <2>3
<1>5. OrderOK'
    BY <1>4 DEF OrderOK
<1> QED
    BY <1>1, <1>2, <1>3, <1>5

LEMMA Taken ==
    ASSUME toR \in Seq(Frames), toR # <<>>, OrderOK, toR' = Tail(toR)
    PROVE  /\ OrderOK'
           /\ Head(toR) = toR[1]
           /\ toR' = <<>> => toR[Len(toR)] = toR[1]
           /\ toR' # <<>> => Follows(toR[1], toR'[1]) /\ toR'[Len(toR')] = toR[Len(toR)]
<1>1. /\ Len(toR) \in Nat \ {0} /\ Len(toR') = Len(toR) - 1 /\ Head(toR) = toR[1]
      /\ \A i \in 1 .. Len(toR') : toR'[i] = toR[i + 1]
    BY HeadTailProperties, EmptySeq
<1>2. ASSUME NEW i \in 1 .. Len(toR'), i + 1 \in 1 .. Len(toR')
      PROVE  Follows(toR'[i], toR'[i + 1])
    <2>1. /\ i + 1 \in 1 .. Len(toR) /\ (i + 1) + 1 \in 1 .. Len(toR)
          /\ toR'[i] = toR[i + 1] /\ toR'[i + 1] = toR[(i + 1) + 1]
        BY <1>1, <1>2
    <2> QED
        BY <2>1 DEF OrderOK
<1>3. OrderOK'
    BY <1>2 DEF OrderOK
<1>4. toR' \in Seq(Frames)
    BY HeadTailProperties
<1>5. toR' = <<>> => Len(toR) = 1
    BY <1>1, EmptySeq
<1>6. ASSUME toR' # <<>>
      PROVE  Follows(toR[1], toR'[1]) /\ toR'[Len(toR')] = toR[Len(toR)]
    <2>1. Len(toR') \in Nat \ {0}
        BY <1>4, <1>6, EmptySeq, LenProperties
    <2>2. /\ 1 \in 1 .. Len(toR') /\ 1 \in 1 .. Len(toR) /\ 1 + 1 \in 1 .. Len(toR)
          /\ Len(toR') \in 1 .. Len(toR') /\ Len(toR') + 1 = Len(toR)
        BY <1>1, <2>1
    <2> QED
        BY <1>1, <2>2 DEF OrderOK
<1> QED
    BY <1>1, <1>3, <1>5, <1>6

(* A receiver that ends leaves nothing on the connection. *)
LEMMA EndedFrames ==
    ASSUME rPc' \in Finished, toR' = <<>>, request' = None, link' = "broken"
    PROVE  FramesInv'
<1>1. OrderOK'
    BY EmptySeq DEF OrderOK
<1> QED
    BY <1>1 DEF FramesInv, HeadOK, LastOK, TurnsOK, Streaming, Finished

(* Nothing that was written is touched, and neither end moves on the wire. *)
LEMMA SameFrames ==
    ASSUME FramesInv, UNCHANGED <<toR, request>>,
           rPc' = rPc \/ (Streaming /\ Streaming' /\ {rPc, rPc'} \cap {"awaitStart", "trailer"} = {}),
           sPc' = sPc \/ (~Writing' /\ (sPc' = "await" => sPc = "await")),
           link' = link \/ link' = "broken" \/ (link' = "closing" /\ sPc' = "idle")
    PROVE  FramesInv'
<1>1. OrderOK'
    BY DEF FramesInv, OrderOK
<1>2. HeadOK'
    BY DEF FramesInv, HeadOK, Streaming
<1>3. LastOK'
    BY DEF FramesInv, LastOK, Writing, Streaming
<1>4. TurnsOK'
    BY DEF FramesInv, TurnsOK, Writing, Streaming, SenderAttached
<1> QED
    BY <1>1, <1>2, <1>3, <1>4 DEF FramesInv

LEMMA SenderFrames ==
    ASSUME IInv, FramesInv, SenderStep
    PROVE  FramesInv'
<1> USE DEF receiverVars, netVars
<1>1. CASE Stat \/ Hash
    <2>1. UNCHANGED <<rPc, toR, request, link>> /\ sPc' \in {"hash", "offering"}
        BY <1>1 DEF Stat, Hash
    <2> QED
        BY <2>1, SameFrames DEF Writing
<1>2. CASE SenderSeesBreak
    <2>1. UNCHANGED <<rPc, toR, request, link>> /\ sPc' = "idle"
        BY <1>2 DEF SenderSeesBreak, SenderEnds
    <2> QED
        BY <2>1, SameFrames DEF Writing
<1>3. CASE AnswerResumeRequest
    <2>1. request' = None /\ rPc' = rPc /\ rPc = "awaitStart" /\ toR = <<>> /\ link = "up"
        BY <1>3 DEF AnswerResumeRequest, FramesInv, TurnsOK
    <2>2. CASE request <= sSize
        <3>1. Start(request) \in Frames /\ Start(request).type = "start"
            BY <1>3, FramesOK DEF AnswerResumeRequest, Start, IInv, TypeOK
        <3>2. sPc' = "stream" /\ toR' = Append(toR, Start(request)) /\ link' = link
            BY <1>3, <2>2 DEF AnswerResumeRequest
        <3>3. OrderOK' /\ toR' # <<>> /\ toR'[1].type = "start" /\ toR'[Len(toR')].type = "start"
            BY <2>1, <3>1, <3>2, Written DEF IInv, TypeOK, FramesInv
        <3> QED
            BY <2>1, <3>2, <3>3
            DEF FramesInv, HeadOK, LastOK, TurnsOK, Writing, Streaming, SenderAttached
    <2>3. CASE ~(request <= sSize)
        <3>1. sPc' = "idle" /\ link' = "closing" /\ toR' = <<>>
            BY <1>3, <2>1, <2>3 DEF AnswerResumeRequest, SenderEnds
        <3> QED
            BY <2>1, <3>1, EmptySeq
            DEF FramesInv, OrderOK, HeadOK, LastOK, TurnsOK, Writing, Streaming, SenderAttached
    <2> QED
        BY <2>2, <2>3
<1>4. ASSUME NEW f \in Frames, toR' = Append(toR, f), link = "up", link' \in {"up", "closing"},
             UNCHANGED <<rPc, request>>,
             \/ sPc = "stream" /\ f.type = "chunk" /\ sPc' = "stream" /\ link' = "up"
             \/ sPc = "stream" /\ f.type = "eos" /\ sPc' = "trailer" /\ link' = "up"
             \/ sPc = "trailer" /\ f.type = "hash" /\ sPc' = "idle"
      PROVE  FramesInv'
    <2>1. Streaming /\ Streaming' /\ request' = None
        BY <1>4 DEF FramesInv, TurnsOK, Writing, Streaming
    <2>2. toR # <<>> => Follows(toR[Len(toR)], f)
        BY <1>4, <2>1 DEF FramesInv, LastOK, Follows
    <2>3. /\ OrderOK' /\ toR' # <<>> /\ toR'[Len(toR')] = f
          /\ toR = <<>> => toR'[1] = f
          /\ toR # <<>> => toR'[1] = toR[1]
        BY <1>4, <2>2, Written DEF IInv, TypeOK, FramesInv
    <2>4. HeadOK'
        BY <1>4, <2>1, <2>3 DEF FramesInv, HeadOK, LastOK
    <2>5. LastOK'
        BY <1>4, <2>1, <2>3 DEF FramesInv, LastOK
    <2>6. TurnsOK'
        BY <1>4, <2>1 DEF TurnsOK, Writing, Streaming, SenderAttached
    <2> QED
        BY <2>3, <2>4, <2>5, <2>6 DEF FramesInv
<1>5. CASE SendChunk
    <2> DEFINE f == Chunk(SubSeq(source, sPos + 1, sPos'))
    <2>1. f \in Frames /\ f.type = "chunk"
        BY <1>5, ReadIsSeq, FramesOK DEF Chunk
    <2>2. toR' = Append(toR, f)
        BY <1>5 DEF SendChunk
    <2> HIDE DEF f
    <2> QED
        BY <1>4, <1>5, <2>1, <2>2 DEF SendChunk
<1>6. CASE SendEOS
    <2>1. EOS \in Frames /\ EOS.type = "eos"
        BY FramesOK DEF EOS
    <2> QED
        BY <1>4, <1>6, <2>1 DEF SendEOS
<1>7. CASE SendHash
    <2>1. Trailer(sSha) \in Frames /\ Trailer(sSha).type = "hash"
        BY <1>7, FramesOK DEF SendHash, Trailer, IInv, DigestOK
    <2>2. link = "up" /\ link' = "closing" /\ sPc = "trailer" /\ sPc' = "idle"
            /\ UNCHANGED <<rPc, request>> /\ toR' = Append(toR, Trailer(sSha))
        BY <1>7 DEF SendHash, SenderEnds
    <2> QED
        BY ONLY <1>4, <2>1, <2>2
<1> QED
    BY <1>1, <1>2, <1>3, <1>5, <1>6, <1>7 DEF SenderStep

LEMMA ReceiverFrames ==
    ASSUME IInv, FramesInv, ReceiverStep
    PROVE  FramesInv'
<1> USE DEF senderVars, netVars
<1>1. CASE CheckPartial \/ DropPartial \/ Sync \/ Rename
    <2>1. /\ UNCHANGED <<sPc, toR, request, link>>
          /\ \/ rPc \in {"check", "drop"} /\ rPc' \in {"drop", "request"}
             \/ rPc \in {"sync", "rename"} /\ rPc' \in {"rename", "cleanup"}
        BY <1>1 DEF CheckPartial, DropPartial, Sync, Rename
    <2>2. toR = <<>> /\ request = None /\ ~Streaming
        BY <2>1 DEF FramesInv, HeadOK, TurnsOK, Streaming
    <2> QED
        BY <2>1, <2>2, EmptySeq
        DEF FramesInv, OrderOK, HeadOK, LastOK, TurnsOK, Writing, Streaming, SenderAttached
<1>2. CASE SendResumeRequest
    <2>1. UNCHANGED <<sPc, toR, link>> /\ rPc = "request" /\ rPc' = "awaitStart"
        BY <1>2 DEF SendResumeRequest
    <2>2. toR = <<>> /\ ~Writing
        BY <2>1 DEF FramesInv, HeadOK, TurnsOK, Streaming
    <2> QED
        BY <2>1, <2>2, EmptySeq
        DEF FramesInv, OrderOK, HeadOK, LastOK, TurnsOK, Writing, Streaming, SenderAttached
<1>3. CASE OpenPartial \/ TruncateMeta \/ WriteMeta \/ SeedHash
    <2>1. /\ UNCHANGED <<sPc, toR, request, link>>
          /\ rPc \in {"open", "truncateMeta", "meta", "seed"}
          /\ rPc' \in {"truncateMeta", "meta", "seed", "stream"}
        BY <1>3 DEF OpenPartial, TruncateMeta, WriteMeta, SeedHash
    <2> QED
        BY <2>1, SameFrames DEF Streaming
<1>4. ASSUME NEW outcome \in Finished, ReceiverEnds(outcome)
      PROVE  FramesInv'
    BY <1>4, EndedFrames DEF ReceiverEnds
<1>5. ASSUME toR # <<>>, toR' = Tail(toR), UNCHANGED <<sPc, request, link>>,
             \/ rPc = "awaitStart" /\ rPc' = "open"
             \/ rPc = "stream" /\ rPc' = "stream" /\ Head(toR).type = "chunk"
             \/ rPc = "stream" /\ rPc' = "trailer" /\ Head(toR).type = "eos"
             \/ rPc = "trailer" /\ rPc' = "sync"
      PROVE  FramesInv'
    <2>1. /\ OrderOK'
          /\ Head(toR) = toR[1]
          /\ toR' = <<>> => toR[Len(toR)] = toR[1]
          /\ toR' # <<>> => Follows(toR[1], toR'[1]) /\ toR'[Len(toR')] = toR[Len(toR)]
        BY <1>5, Taken DEF IInv, TypeOK, FramesInv
    <2>2. /\ Streaming
          /\ rPc = "awaitStart" => toR[1].type = "start"
          /\ rPc = "trailer" => toR[1].type = "hash"
        BY <1>5 DEF FramesInv, HeadOK
    <2>3. rPc' = "sync" => toR' = <<>>
        BY <1>5, <2>1, <2>2 DEF Follows
    <2>4. rPc' = "trailer" /\ toR' # <<>> => toR[Len(toR)].type = "hash"
        <3> SUFFICES ASSUME rPc' = "trailer", toR' # <<>>
                     PROVE  toR'[Len(toR')].type = "hash"
            BY <2>1
        <3>1. toR[1].type = "eos" /\ toR'[1].type = "hash"
            BY <1>5, <2>1 DEF Follows
        <3>2. toR' \in Seq(Frames) /\ Len(toR') \in Nat /\ Len(toR') # 0
            BY <1>5, TailOK, EmptySeq, LenProperties DEF IInv, TypeOK
        <3>3. CASE Len(toR') = 1
            BY <3>1, <3>3
        <3>4. CASE Len(toR') # 1
            <4> DEFINE l == Len(toR')
            <4>1. l \in Nat /\ l # 0 /\ l # 1
                BY <3>2, <3>4
            <4> HIDE DEF l
            <4>2. 1 \in 1 .. l /\ 1 + 1 \in 1 .. l
                BY ONLY <4>1
            <4>3. Follows(toR'[1], toR'[1 + 1])
                BY <2>1, <4>2 DEF OrderOK, l
            <4> QED
                BY <3>1, <4>3 DEF Follows
        <3> QED
            BY <3>3, <3>4
    <2>5. HeadOK'
        BY <1>5, <2>1, <2>2, <2>3 DEF HeadOK, Streaming, Follows
    <2>6. LastOK'
        BY <1>5, <2>1, <2>2, <2>4 DEF FramesInv, LastOK, Streaming
    <2>7. TurnsOK'
        <3>1. rPc = "trailer" => ~Writing
            <4> SUFFICES ASSUME rPc = "trailer" PROVE ~Writing
                OBVIOUS
            <4>1. toR' = <<>> /\ toR[Len(toR)].type = "hash"
                BY <1>5, <2>1, <2>2, <2>3
            <4> QED
                BY <1>5, <2>2, <4>1 DEF FramesInv, LastOK, Writing
        <3>2. request = None
            BY <1>5 DEF FramesInv, TurnsOK
        <3> QED
            BY <1>5, <2>2, <3>1, <3>2 DEF FramesInv, TurnsOK, Writing, Streaming, SenderAttached
    <2> QED
        BY <2>1, <2>5, <2>6, <2>7 DEF FramesInv
<1>6. CASE ReadTransferStart
    BY <1>4, <1>5, <1>6 DEF ReadTransferStart, Receive, Finished
<1>7. CASE RecvChunk
    BY <1>5, <1>7 DEF RecvChunk, Receive
<1>8. CASE RecvEOS
    BY <1>5, <1>8 DEF RecvEOS, Receive
<1>9. CASE RecvClose
    <2>1. CASE rPc = "stream"
        <3>1. UNCHANGED <<sPc, toR, request, link>> /\ rPc' = "trailer" /\ toR = <<>> /\ link = "closing"
            BY <1>9, <2>1 DEF RecvClose
        <3>2. ~Writing /\ request = None
            BY <2>1, <3>1 DEF FramesInv, TurnsOK, Writing, SenderAttached
        <3> QED
            BY <3>1, <3>2, EmptySeq
            DEF FramesInv, OrderOK, HeadOK, LastOK, TurnsOK, Writing, Streaming, SenderAttached
    <2>2. CASE rPc # "stream"
        BY <1>4, <1>9, <2>2 DEF RecvClose, Finished
    <2> QED
        BY <2>1, <2>2
<1>10. CASE VerifyTrailer
    BY <1>4, <1>5, <1>10 DEF VerifyTrailer, Receive, Finished
<1>11. CASE Cleanup \/ ReceiverSeesBreak
    BY <1>4, <1>11 DEF Cleanup, ReceiverSeesBreak, Finished
<1> QED
    BY <1>1, <1>2, <1>3, <1>6, <1>7, <1>8, <1>9, <1>10, <1>11 DEF ReceiverStep

LEMMA OtherFrames ==
    ASSUME FramesInv, Introduce \/ Environment \/ UNCHANGED vars
    PROVE  FramesInv'
<1> USE DEF senderVars, receiverVars, netVars
<1>1. CASE Introduce
    <2>1. sPc' = "await" /\ rPc' = "check" /\ request' = None /\ toR' = <<>> /\ link' = "up"
        BY <1>1 DEF Introduce
    <2> QED
        BY <2>1, EmptySeq
        DEF FramesInv, OrderOK, HeadOK, LastOK, TurnsOK, Writing, Streaming, SenderAttached
<1>2. CASE EditSource \/ BreakLink \/ UNCHANGED vars
    <2>1. UNCHANGED <<rPc, sPc, toR, request>> /\ (link' = link \/ link' = "broken")
        BY <1>2 DEF EditSource, BreakLink, vars
    <2> QED
        BY <2>1, SameFrames
<1>3. CASE SourceFails \/ SenderStops
    <2>1. /\ UNCHANGED <<rPc, toR, request>> /\ sPc' = "idle"
          /\ link' = link \/ link' = "broken" \/ link' = "closing"
        BY <1>3 DEF SourceFails, SenderStops, SenderEnds
    <2> QED
        BY <2>1, SameFrames DEF Writing
<1>4. CASE ReceiverStops
    BY <1>4, EndedFrames DEF ReceiverStops, ReceiverEnds, Finished
<1>5. CASE PowerLoss
    <2>1. CASE rPc \in Finished
        <3>1. UNCHANGED <<rPc, sPc, toR, request, link>>
            BY <1>5, <2>1 DEF PowerLoss
        <3> QED
            BY <3>1, SameFrames
    <2>2. CASE rPc \notin Finished
        BY <1>5, <2>2, EndedFrames DEF PowerLoss, ReceiverEnds, Finished
    <2> QED
        BY <2>1, <2>2
<1> QED
    BY <1>1, <1>2, <1>3, <1>4, <1>5 DEF Environment

LEMMA InitFrames == Init => FramesInv
BY EmptySeq
   DEF Init, FramesInv, OrderOK, HeadOK, LastOK, TurnsOK, Writing, Streaming, SenderAttached

(* The two ends agree on where they are in the protocol, however attempts  *)
(* begin and end, and whatever the source does meanwhile.                  *)
THEOREM FramesInvariance == Spec => []FramesInv
<1>1. IInv /\ FramesInv /\ [Next]_vars => FramesInv'
    BY SenderFrames, ReceiverFrames, OtherFrames DEF Next
<1> QED
    BY InitFrames, <1>1, Invariance, PTL DEF Spec

(* Every read of the receiver meets the frame it is for, and a verified    *)
(* transfer has nothing left on the connection.                            *)
THEOREM ReadersInStep == Spec => []FramesInStep
<1>1. IInv /\ FramesInv => FramesInStep
    <2> SUFFICES ASSUME IInv, FramesInv PROVE FramesInStep
        OBVIOUS
    <2>1. toR # <<>> => Head(toR) = toR[1]
        BY TailOK DEF IInv, TypeOK
    <2> QED
        BY <2>1 DEF FramesInv, HeadOK, FramesInStep, Streaming
<1> QED
    BY <1>1, Invariance, FramesInvariance, PTL

(* When the source stays put while it is sent, a sender that reports       *)
(* success has left the receiver all it needs: what is there and what is   *)
(* in flight add up to the offered file, and the trailer is its digest.    *)
THEOREM SuccessNeedsNobody == ASSUME ~EditsDuringRun PROVE Spec => []SuccessIsCovered
<1>1. IInv /\ QInv /\ FramesInv => SuccessIsCovered
    <2> DEFINE n == IF rPc \in {"stream", "trailer"} THEN Len(partial) ELSE rOff
    <2> SUFFICES ASSUME IInv, QInv, FramesInv, TrailerInFlight
                 PROVE  /\ n <= Len(Offered)
                        /\ n # 0 => partial = SubSeq(Offered, 1, n)
                        /\ Carries(toR, Offered, n, Len(Offered))
                        /\ toR[Len(toR)].sha = Sha256(Offered)
        BY DEF SuccessIsCovered
    <2>1. Streaming /\ toR \in Seq(Frames) /\ toR # <<>> /\ toR[Len(toR)].type = "hash"
        BY DEF TrailerInFlight, FramesInv, HeadOK, IInv, TypeOK
    <2>2. Offered \in Seq(Block) /\ rSha = Sha256(Offered)
        BY <2>1, OfferedIsSeq DEF Streaming, Receiving, Finished
    <2>3. Len(toR) \in 1 .. Len(toR)
        BY <2>1, EmptySeq, LenProperties
    <2>4. toR[Len(toR)].sha = Sha256(Offered)
        BY <2>1, <2>2, <2>3 DEF IInv, DigestOK
    <2>5. PICK k \in 0 .. Len(Offered) : Carries(toR, Offered, n, k)
        BY <2>1 DEF QInv, WireOK
    <2>6. k = Len(Offered)
        BY <2>1, <2>3, <2>5 DEF Carries, Positions
    <2>7. n # 0 => partial = SubSeq(Offered, 1, n)
        <3>1. n # 0 => IsPrefixOf(partial, Offered) /\ n = Len(partial)
            BY <2>1 DEF QInv, PrefixOK, Streaming, IInv, PartialOK
        <3> QED
            BY <2>2, <3>1, PrefixLength
    <2>8. n <= Len(Offered)
        <3>1. 1 \in 1 .. Len(toR) + 1
            BY <2>3
        <3>2. n \in 0 .. Len(Offered)
            BY <2>5, <3>1 DEF Carries
        <3> QED
            BY <3>2
    <2> QED
        BY <2>4, <2>5, <2>6, <2>7, <2>8
<1> QED
    BY <1>1, Invariance, QuietInvariance, FramesInvariance, PTL
=============================================================================
