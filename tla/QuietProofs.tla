---------------------------- MODULE QuietProofs ----------------------------
(***************************************************************************)
(* Proofs about Transfer when the source stays put while it is sent: what  *)
(* the sidecar vouches for is a true prefix, and no transfer is rejected.  *)
(* On top of the invariant of TransferProofs they need to know where in    *)
(* the file each frame in flight belongs.                                  *)
(***************************************************************************)
EXTENDS TransferProofs

(* A stretch of a file, the next one behind it, and the start of a start. *)
LEMMA Stretch ==
    ASSUME NEW file \in Seq(Block), NEW m \in 0 .. Len(file), NEW n \in m .. Len(file)
    PROVE  /\ SubSeq(file, m + 1, n) \in Seq(Block)
           /\ Len(SubSeq(file, m + 1, n)) = n - m
<1>1. \A i \in m + 1 .. n : file[i] \in Block
    BY ElementOfSeq, LenProperties
<1>2. m + 1 \in Int /\ n \in Int
    BY LenProperties
<1> QED
    BY <1>1, <1>2, SubSeqProperties

LEMMA StretchBehind ==
    ASSUME NEW file \in Seq(Block), NEW m \in 0 .. Len(file), NEW n \in m .. Len(file)
    PROVE  SubSeq(file, 1, m) \o SubSeq(file, m + 1, n) = SubSeq(file, 1, n)
<1>1. 1 \in 1 .. Len(file) + 1 /\ m \in 1 - 1 .. Len(file)
    BY LenProperties
<1> QED
    BY <1>1, ConcatAdjacentSubSeq

LEMMA StretchCut ==
    ASSUME NEW file \in Seq(Block), NEW m \in 0 .. Len(file), NEW n \in m .. Len(file),
           NEW k \in 1 .. n - m
    PROVE  SubSeq(SubSeq(file, m + 1, n), 1, k) = SubSeq(file, m + 1, m + k)
<1>1. /\ m + 1 \in 1 .. Len(file) /\ n \in 1 .. Len(file)
      /\ 1 \in 1 .. n - (m + 1) + 1 /\ k \in 1 .. n - (m + 1) + 1
    BY LenProperties
<1>2. SubSeq(SubSeq(file, m + 1, n), 1, k) = SubSeq(file, (m + 1) + 1 - 1, (m + 1) + k - 1)
    BY <1>1, SubSeqOfSubSeq
<1>3. (m + 1) + 1 - 1 = m + 1 /\ (m + 1) + k - 1 = m + k
    BY LenProperties
<1> QED
    BY <1>2, <1>3

IsPrefixOf(data, file) == \E n \in 0 .. Len(file) : data = SubSeq(file, 1, n)

LEMMA PrefixLength ==
    ASSUME NEW file \in Seq(Block), NEW data, IsPrefixOf(data, file)
    PROVE  /\ data \in Seq(Block)
           /\ Len(data) \in 0 .. Len(file)
           /\ data = SubSeq(file, 1, Len(data))
<1>1. PICK n \in 0 .. Len(file) : data = SubSeq(file, 1, n)
    BY DEF IsPrefixOf
<1>2. 0 \in 0 .. Len(file) /\ n \in 0 .. Len(file) /\ n - 0 = n
    BY LenProperties
<1>3. SubSeq(file, 0 + 1, n) \in Seq(Block) /\ Len(SubSeq(file, 0 + 1, n)) = n - 0
    BY <1>2, Stretch
<1> QED
    BY <1>1, <1>2, <1>3

(* Nothing is a prefix of everything, as a cut prefix and a whole are.     *)
LEMMA EmptyPrefix ==
    ASSUME NEW file \in Seq(Block)
    PROVE  IsPrefixOf(<<>>, file)
BY SubSeqEmpty, LenProperties DEF IsPrefixOf

LEMMA CutPrefix ==
    ASSUME NEW file \in Seq(Block), NEW data, IsPrefixOf(data, file), NEW n \in 0 .. Len(data)
    PROVE  IsPrefixOf(SubSeq(data, 1, n), file)
<1>1. /\ Len(data) \in 0 .. Len(file) /\ data = SubSeq(file, 1, Len(data))
      /\ Len(file) \in Nat
    BY PrefixLength, LenProperties
<1>2. CASE n = 0
    <2>1. SubSeq(data, 1, 0) = <<>>
        BY SubSeqEmpty
    <2> QED
        BY <1>2, <2>1, EmptyPrefix
<1>3. CASE n # 0
    <2>1. n \in 1 .. Len(data) - 0 /\ 0 \in 0 .. Len(file) /\ Len(data) \in 0 .. Len(file)
        BY <1>1, <1>3
    <2>2. SubSeq(SubSeq(file, 0 + 1, Len(data)), 1, n) = SubSeq(file, 0 + 1, 0 + n)
        BY <2>1, StretchCut
    <2> QED
        BY <1>1, <2>1, <2>2 DEF IsPrefixOf
<1> QED
    BY <1>2, <1>3

LEMMA LongerPrefix ==
    ASSUME NEW file \in Seq(Block), NEW data, IsPrefixOf(data, file),
           NEW n \in Len(data) .. Len(file)
    PROVE  IsPrefixOf(data \o SubSeq(file, Len(data) + 1, n), file)
<1>1. Len(data) \in 0 .. Len(file) /\ data = SubSeq(file, 1, Len(data))
    BY PrefixLength
<1>2. n \in 0 .. Len(file)
    BY <1>1, LenProperties
<1> QED
    BY <1>1, <1>2, StretchBehind DEF IsPrefixOf

(* The source is what the sender hashed. *)
SourceOK == sPc \notin {"idle", "hash"} => sSha = Sha256(source)

(* A ResumeRequest in flight is the receiver's last step, and until it is  *)
(* answered the sender has sent nothing.                                   *)
RequestOK ==
    /\ request # None => rPc = "awaitStart" /\ request = rOff
    /\ request # None \/ rPc \in {"check", "drop", "request"} =>
          toR = <<>> /\ sPc \notin {"stream", "trailer"}

(* From WriteMeta to the rename the sidecar is that of the offer.          *)
SidecarOK ==
    rPc \in {"seed", "stream", "trailer", "sync", "rename"} =>
        meta = [size |-> rSize, sha |-> rSha]

(* What the receiver resumes or has written is a prefix of the offer.      *)
PrefixOK ==
    /\ rPc \in {"request", "awaitStart", "open"} /\ rOff # 0 => IsPrefixOf(partial, Offered)
    /\ rPc \in {"truncateMeta", "meta", "seed", "stream", "trailer"} =>
          IsPrefixOf(partial, Offered)

(* The receiver waits for what answers its request. *)
Streaming ==
    rPc \in {"awaitStart", "open", "truncateMeta", "meta", "seed", "stream", "trailer"}

(* The frames in flight go on where the receiver stands and end where the  *)
(* sender does.                                                            *)
WireOK ==
    Streaming =>
        \E m, n \in 0 .. Len(Offered) :
            /\ Carries(toR, Offered, m, n)
            /\ m = IF rPc \in {"stream", "trailer"} THEN Len(partial) ELSE rOff
            /\ sPc = "stream" => n = sPos
            /\ sPc = "trailer" => n = Len(Offered)

QInv ==
    /\ SourceOK
    /\ RequestOK
    /\ SidecarOK
    /\ PrefixOK
    /\ PartialIsPrefix
    /\ WireOK
    /\ NoMismatch

(* What reads and writes do to the frames in flight. *)
LEMMA CarriesNothing ==
    ASSUME NEW file \in Seq(Block), NEW n \in 0 .. Len(file)
    PROVE  Carries(<<>>, file, n, n)
<1> DEFINE p == [i \in 1 .. Len(<<>>) + 1 |-> n]
<1>1. /\ p \in [1 .. Len(<<>>) + 1 -> 0 .. Len(file)]
      /\ Positions(<<>>, file, p) /\ p[1] = n /\ p[Len(<<>>) + 1] = n
    BY EmptySeq DEF Positions
<1> QED
    BY <1>1 DEF Carries

LEMMA CarriesMore ==
    ASSUME NEW q \in Seq(Frames), NEW file \in Seq(Block),
           NEW m \in 0 .. Len(file), NEW n \in 0 .. Len(file), Carries(q, file, m, n),
           NEW f \in Frames, NEW k \in 0 .. Len(file),
           f.type = "chunk" => n <= k /\ f.data = SubSeq(file, n + 1, k),
           f.type # "chunk" => k = n,
           f.type \in {"eos", "hash"} => n = Len(file)
    PROVE  Carries(Append(q, f), file, m, k)
<1>1. PICK p \in [1 .. Len(q) + 1 -> 0 .. Len(file)] :
         Positions(q, file, p) /\ p[1] = m /\ p[Len(q) + 1] = n
    BY DEF Carries
<1>2. /\ Len(q) \in Nat /\ Len(Append(q, f)) = Len(q) + 1 /\ Append(q, f)[Len(q) + 1] = f
      /\ \A i \in 1 .. Len(q) : Append(q, f)[i] = q[i]
    BY AppendProperties, LenProperties
<1> DEFINE r == [i \in 1 .. Len(q) + 2 |-> IF i <= Len(q) + 1 THEN p[i] ELSE k]
<1>3. r \in [1 .. Len(Append(q, f)) + 1 -> 0 .. Len(file)]
    BY <1>1, <1>2 DEF Positions
<1>4. r[1] = m /\ r[Len(q) + 1] = n /\ r[Len(q) + 2] = k
    BY <1>1, <1>2
<1>5. ASSUME NEW i \in 1 .. Len(q)
      PROVE  r[i] = p[i] /\ r[i + 1] = p[i + 1]
    BY <1>2
<1> HIDE DEF r
<1>6. ASSUME NEW i \in 1 .. Len(Append(q, f))
      PROVE  /\ Append(q, f)[i].type = "chunk" =>
                   r[i] <= r[i + 1] /\ Append(q, f)[i].data = SubSeq(file, r[i] + 1, r[i + 1])
             /\ Append(q, f)[i].type # "chunk" => r[i + 1] = r[i]
             /\ Append(q, f)[i].type \in {"eos", "hash"} => r[i] = Len(file)
    <2>1. CASE i \in 1 .. Len(q)
        <3>1. Append(q, f)[i] = q[i] /\ r[i] = p[i] /\ r[i + 1] = p[i + 1]
            BY <1>2, <1>5, <2>1
        <3> QED
            BY <1>1, <2>1, <3>1 DEF Positions
    <2>2. CASE i = Len(q) + 1
        <3>1. Append(q, f)[i] = f /\ r[i] = n /\ r[i + 1] = k
            <4>1. (Len(q) + 1) + 1 = Len(q) + 2
                BY <1>2
            <4> QED
                BY <1>2, <1>4, <2>2, <4>1
        <3> QED
            BY <3>1
    <2>3. i \in 1 .. Len(q) \/ i = Len(q) + 1
        BY <1>2
    <2> QED
        BY <2>1, <2>2, <2>3
<1>7. Positions(Append(q, f), file, r)
    BY <1>6 DEF Positions
<1>8. Len(Append(q, f)) + 1 = Len(q) + 2
    BY <1>2
<1>9. r[1] = m /\ r[Len(Append(q, f)) + 1] = k
    BY <1>4, <1>8
<1> QED
    BY <1>3, <1>7, <1>9 DEF Carries

LEMMA CarriesRest ==
    ASSUME NEW q \in Seq(Frames), q # <<>>, NEW file \in Seq(Block),
           NEW m \in 0 .. Len(file), NEW n \in 0 .. Len(file), Carries(q, file, m, n)
    PROVE  \E k \in 0 .. Len(file) :
              /\ Carries(Tail(q), file, k, n)
              /\ Head(q).type = "chunk" => m <= k /\ Head(q).data = SubSeq(file, m + 1, k)
              /\ Head(q).type # "chunk" => k = m
              /\ Head(q).type \in {"eos", "hash"} => m = Len(file)
<1>1. PICK p \in [1 .. Len(q) + 1 -> 0 .. Len(file)] :
         Positions(q, file, p) /\ p[1] = m /\ p[Len(q) + 1] = n
    BY DEF Carries
<1>2. /\ Len(q) \in Nat \ {0} /\ Len(Tail(q)) = Len(q) - 1 /\ Head(q) = q[1]
      /\ \A i \in 1 .. Len(Tail(q)) : Tail(q)[i] = q[i + 1]
    BY HeadTailProperties, EmptySeq
<1> DEFINE r == [i \in 1 .. Len(q) |-> p[i + 1]]
<1>3. r \in [1 .. Len(Tail(q)) + 1 -> 0 .. Len(file)]
    BY <1>1, <1>2 DEF Positions
<1>4. r[1] = p[2] /\ r[Len(Tail(q)) + 1] = n
    BY <1>1, <1>2
<1>5. ASSUME NEW i \in 1 .. Len(Tail(q))
      PROVE  r[i] = p[i + 1] /\ r[i + 1] = p[(i + 1) + 1] /\ i + 1 \in 1 .. Len(q)
    BY <1>2
<1> HIDE DEF r
<1>6. Positions(Tail(q), file, r)
    <2>1. ASSUME NEW i \in 1 .. Len(Tail(q))
          PROVE  /\ Tail(q)[i].type = "chunk" =>
                       r[i] <= r[i + 1] /\ Tail(q)[i].data = SubSeq(file, r[i] + 1, r[i + 1])
                 /\ Tail(q)[i].type # "chunk" => r[i + 1] = r[i]
                 /\ Tail(q)[i].type \in {"eos", "hash"} => r[i] = Len(file)
        <3>1. Tail(q)[i] = q[i + 1] /\ i + 1 \in 1 .. Len(q)
            BY <1>2, <1>5
        <3>2. /\ q[i + 1].type = "chunk" => p[i + 1] <= p[(i + 1) + 1]
                    /\ q[i + 1].data = SubSeq(file, p[i + 1] + 1, p[(i + 1) + 1])
              /\ q[i + 1].type # "chunk" => p[(i + 1) + 1] = p[i + 1]
              /\ q[i + 1].type \in {"eos", "hash"} => p[i + 1] = Len(file)
            BY <1>1, <3>1 DEF Positions
        <3> QED
            BY <1>5, <3>1, <3>2
    <2> QED
        BY <2>1 DEF Positions
<1>7. /\ p[2] \in 0 .. Len(file)
      /\ q[1].type = "chunk" => m <= p[2] /\ q[1].data = SubSeq(file, m + 1, p[2])
      /\ q[1].type # "chunk" => p[2] = m
      /\ q[1].type \in {"eos", "hash"} => m = Len(file)
    <2>1. 1 \in 1 .. Len(q) /\ 1 + 1 = 2 /\ 2 \in 1 .. Len(q) + 1
        BY <1>2
    <2> QED
        BY <1>1, <2>1 DEF Positions
<1>8. Carries(Tail(q), file, p[2], n)
    BY <1>3, <1>4, <1>6 DEF Carries
<1> QED
    BY <1>2, <1>7, <1>8

LEMMA OfferedIsSeq ==
    ASSUME IInv, Receiving
    PROVE  Offered \in Seq(Block) /\ rSha = Sha256(Offered)
BY DEF IInv, DigestOK, Digests, Offered, Sha256

LEMMA SendsOffered ==
    ASSUME IInv, SourceOK, sPc \in {"stream", "trailer"}
    PROVE  Offered = source /\ Offered \in Seq(Block)
BY TransferAssumption
   DEF IInv, TypeOK, SourceOK, DigestOK, SenderAttached, Offered, Sha256

LEMMA ResumesInside ==
    ASSUME IInv, PrefixOK, rPc \in {"request", "awaitStart", "open"}
    PROVE  Offered \in Seq(Block) /\ rOff \in 0 .. Len(Offered)
<1>1. Offered \in Seq(Block)
    BY OfferedIsSeq DEF Receiving, Finished
<1>2. CASE rOff # 0
    BY <1>1, <1>2, PrefixLength DEF PrefixOK, IInv, PartialOK
<1> QED
    BY <1>1, <1>2, LenProperties

(* A chunk that is received, whole or in part, goes on where the partial   *)
(* file ends.                                                              *)
LEMMA NextChunk ==
    ASSUME IInv, PrefixOK, WireOK, rPc = "stream", toR # <<>>, Head(toR).type = "chunk"
    PROVE  /\ Offered \in Seq(Block) /\ IsPrefixOf(partial, Offered)
           /\ \E n \in 0 .. Len(Offered), k \in Len(partial) .. Len(Offered) :
                 /\ Carries(Tail(toR), Offered, k, n)
                 /\ Head(toR).data = SubSeq(Offered, Len(partial) + 1, k)
                 /\ sPc = "stream" => n = sPos
                 /\ sPc = "trailer" => n = Len(Offered)
<1>1. Offered \in Seq(Block) /\ IsPrefixOf(partial, Offered)
    BY OfferedIsSeq DEF Receiving, Finished, PrefixOK
<1>2. PICK m, n \in 0 .. Len(Offered) :
         /\ Carries(toR, Offered, m, n) /\ m = Len(partial)
         /\ sPc = "stream" => n = sPos
         /\ sPc = "trailer" => n = Len(Offered)
    BY DEF WireOK, Streaming
<1>3. PICK k \in 0 .. Len(Offered) :
         /\ Carries(Tail(toR), Offered, k, n)
         /\ m <= k /\ Head(toR).data = SubSeq(Offered, m + 1, k)
    <2> DEFINE q == toR
               file == Offered
    <2>1. q \in Seq(Frames) /\ q # <<>> /\ Head(q).type = "chunk"
        BY DEF IInv, TypeOK
    <2>2. file \in Seq(Block) /\ m \in 0 .. Len(file) /\ n \in 0 .. Len(file)
            /\ Carries(q, file, m, n)
        BY <1>1, <1>2
    <2> HIDE DEF q, file
    <2>3. \E k \in 0 .. Len(file) :
             /\ Carries(Tail(q), file, k, n)
             /\ m <= k /\ Head(q).data = SubSeq(file, m + 1, k)
        BY ONLY <2>1, <2>2, CarriesRest
    <2> QED
        BY <2>3 DEF q, file
<1>4. k \in Len(partial) .. Len(Offered)
    BY <1>1, <1>2, <1>3, PrefixLength, LenProperties
<1> QED
    BY <1>1, <1>2, <1>3, <1>4

LEMMA RecvChunkGrows ==
    ASSUME IInv, PrefixOK, WireOK, RecvChunk
    PROVE  /\ IsPrefixOf(partial', Offered)
           /\ \E k, n \in 0 .. Len(Offered) :
                 /\ Carries(Tail(toR), Offered, k, n)
                 /\ Len(partial \o Head(toR).data) = k
                 /\ sPc = "stream" => n = sPos
                 /\ sPc = "trailer" => n = Len(Offered)
<1>1. /\ Offered \in Seq(Block) /\ IsPrefixOf(partial, Offered)
      /\ partial \in Seq(Block) /\ Len(partial) \in 0 .. Len(Offered)
    BY NextChunk, PrefixLength DEF RecvChunk, Receive
<1>2. PICK n \in 0 .. Len(Offered), k \in Len(partial) .. Len(Offered) :
         /\ Carries(Tail(toR), Offered, k, n)
         /\ Head(toR).data = SubSeq(Offered, Len(partial) + 1, k)
         /\ sPc = "stream" => n = sPos
         /\ sPc = "trailer" => n = Len(Offered)
    BY NextChunk DEF RecvChunk, Receive
<1>3. IsPrefixOf(partial', Offered)
    BY <1>1, <1>2, LongerPrefix DEF RecvChunk
<1>4. /\ Head(toR).data \in Seq(Block) /\ Len(Head(toR).data) = k - Len(partial)
      /\ k \in 0 .. Len(Offered)
    <2>1. k \in 0 .. Len(Offered)
        BY <1>1, <1>2, LenProperties
    <2>2. /\ SubSeq(Offered, Len(partial) + 1, k) \in Seq(Block)
          /\ Len(SubSeq(Offered, Len(partial) + 1, k)) = k - Len(partial)
        BY <1>1, <1>2, Stretch
    <2> QED
        BY <1>2, <2>1, <2>2
<1>5. Len(partial \o Head(toR).data) = Len(partial) + Len(Head(toR).data)
    BY <1>1, <1>4, ConcatProperties
<1>6. Len(partial \o Head(toR).data) = k
    BY <1>1, <1>4, <1>5
<1> QED
    BY <1>2, <1>3, <1>4, <1>6

LEMMA StopGrows ==
    ASSUME IInv, PrefixOK, WireOK, ReceiverStops
    PROVE  \/ partial' = partial
           \/ rPc = "stream" /\ IsPrefixOf(partial', Offered)
<1> SUFFICES ASSUME rPc = "stream", toR # <<>>, Head(toR).type = "chunk",
                    NEW j \in 1 .. Len(Head(toR).data),
                    partial' = partial \o SubSeq(Head(toR).data, 1, j)
             PROVE  IsPrefixOf(partial', Offered)
    BY DEF ReceiverStops
<1>1. /\ Offered \in Seq(Block) /\ IsPrefixOf(partial, Offered)
      /\ Len(partial) \in 0 .. Len(Offered)
    BY NextChunk, PrefixLength
<1>2. PICK k \in Len(partial) .. Len(Offered) :
         Head(toR).data = SubSeq(Offered, Len(partial) + 1, k)
    BY NextChunk
<1>3. j \in 1 .. k - Len(partial)
    BY <1>1, <1>2, Stretch
<1>4. SubSeq(Head(toR).data, 1, j) = SubSeq(Offered, Len(partial) + 1, Len(partial) + j)
    BY <1>1, <1>2, <1>3, StretchCut
<1>5. Len(partial) + j \in Len(partial) .. Len(Offered)
    BY <1>1, <1>3, LenProperties
<1> QED
    BY <1>1, <1>4, <1>5, LongerPrefix

LEMMA StepSourceOK ==
    ASSUME ~EditsDuringRun, IInv, QInv, [Next]_vars
    PROVE  SourceOK'
<1> USE DEF QInv, SourceOK, senderVars, receiverVars, diskVars, netVars
<1>1. CASE Introduce \/ Stat \/ Hash \/ AnswerResumeRequest \/ SendChunk \/ SendEOS \/ SendHash
           \/ SenderSeesBreak \/ EditSource \/ BreakLink \/ SourceFails \/ SenderStops
    BY <1>1 DEF Introduce, Stat, Hash, AnswerResumeRequest, SendChunk, SendEOS, SendHash,
           SenderSeesBreak, EditSource, BreakLink, SourceFails, SenderStops, SenderEnds, Fault
<1>2. CASE CheckPartial \/ DropPartial \/ SendResumeRequest \/ ReadTransferStart \/ OpenPartial
           \/ TruncateMeta \/ WriteMeta \/ SeedHash \/ RecvChunk \/ RecvEOS \/ RecvClose
           \/ VerifyTrailer \/ Sync \/ Rename \/ Cleanup \/ ReceiverSeesBreak \/ ReceiverStops
           \/ PowerLoss
    BY <1>2 DEF CheckPartial, DropPartial, SendResumeRequest, ReadTransferStart, OpenPartial,
           TruncateMeta, WriteMeta, SeedHash, RecvChunk, RecvEOS, RecvClose, VerifyTrailer, Sync,
           Rename, Cleanup, ReceiverSeesBreak, ReceiverStops, PowerLoss, RemoveMeta, Fault,
           RemovePartial, Receive, ReceiverEnds
<1>3. CASE UNCHANGED vars
    BY <1>3 DEF vars
<1> QED
    BY <1>1, <1>2, <1>3
    DEF Next, SenderStep, ReceiverStep, Environment

LEMMA StepRequestOK ==
    ASSUME ~EditsDuringRun, IInv, QInv, [Next]_vars
    PROVE  RequestOK'
<1> USE DEF QInv, RequestOK, Finished, senderVars, receiverVars, diskVars, netVars
<1>1. CASE Introduce \/ Stat \/ Hash \/ AnswerResumeRequest \/ SendChunk \/ SendEOS \/ SendHash
           \/ SenderSeesBreak \/ EditSource \/ BreakLink \/ SourceFails \/ SenderStops
    BY <1>1 DEF Introduce, Stat, Hash, AnswerResumeRequest, SendChunk, SendEOS, SendHash,
           SenderSeesBreak, EditSource, BreakLink, SourceFails, SenderStops, SenderEnds, Fault
<1>2. CASE CheckPartial \/ DropPartial \/ SendResumeRequest \/ ReadTransferStart \/ OpenPartial
           \/ TruncateMeta \/ WriteMeta \/ SeedHash \/ RecvChunk \/ RecvEOS \/ RecvClose
           \/ VerifyTrailer \/ Sync \/ Rename \/ Cleanup \/ ReceiverSeesBreak \/ ReceiverStops
           \/ PowerLoss
    BY <1>2 DEF CheckPartial, DropPartial, SendResumeRequest, ReadTransferStart, OpenPartial,
           TruncateMeta, WriteMeta, SeedHash, RecvChunk, RecvEOS, RecvClose, VerifyTrailer, Sync,
           Rename, Cleanup, ReceiverSeesBreak, ReceiverStops, PowerLoss, RemoveMeta, Fault,
           RemovePartial, Receive, ReceiverEnds
<1>3. CASE UNCHANGED vars
    BY <1>3 DEF vars
<1> QED
    BY <1>1, <1>2, <1>3
    DEF Next, SenderStep, ReceiverStep, Environment

LEMMA StepSidecarOK ==
    ASSUME ~EditsDuringRun, IInv, QInv, [Next]_vars
    PROVE  SidecarOK'
<1> USE DEF QInv, SidecarOK, Finished, senderVars, receiverVars, diskVars, netVars
<1>1. CASE Introduce \/ Stat \/ Hash \/ AnswerResumeRequest \/ SendChunk \/ SendEOS \/ SendHash
           \/ SenderSeesBreak \/ EditSource \/ BreakLink \/ SourceFails \/ SenderStops
    BY <1>1 DEF Introduce, Stat, Hash, AnswerResumeRequest, SendChunk, SendEOS, SendHash,
           SenderSeesBreak, EditSource, BreakLink, SourceFails, SenderStops, SenderEnds, Fault
<1>2. CASE CheckPartial \/ DropPartial \/ SendResumeRequest \/ ReadTransferStart \/ OpenPartial
           \/ TruncateMeta \/ WriteMeta \/ SeedHash \/ RecvChunk \/ RecvEOS \/ RecvClose
           \/ VerifyTrailer \/ Sync \/ Rename \/ Cleanup \/ ReceiverSeesBreak \/ ReceiverStops
           \/ PowerLoss
    BY <1>2 DEF CheckPartial, DropPartial, SendResumeRequest, ReadTransferStart, OpenPartial,
           TruncateMeta, WriteMeta, SeedHash, RecvChunk, RecvEOS, RecvClose, VerifyTrailer, Sync,
           Rename, Cleanup, ReceiverSeesBreak, ReceiverStops, PowerLoss, RemoveMeta, Fault,
           RemovePartial, Receive, ReceiverEnds
<1>3. CASE UNCHANGED vars
    BY <1>3 DEF vars
<1> QED
    BY <1>1, <1>2, <1>3
    DEF Next, SenderStep, ReceiverStep, Environment

LEMMA StepNoMismatch ==
    ASSUME ~EditsDuringRun, IInv, QInv, [Next]_vars
    PROVE  NoMismatch'
<1> USE DEF QInv, NoMismatch, senderVars, receiverVars, diskVars, netVars
<1>1. CASE VerifyTrailer
    <2> SUFFICES ASSUME rPc = "trailer", toR # <<>>, Head(toR).type = "hash"
                 PROVE  Head(toR).sha = Sha256(rHash)
        BY <1>1 DEF VerifyTrailer, Receive
    <2>1. Offered \in Seq(Block) /\ rSha = Sha256(Offered)
        BY OfferedIsSeq DEF Receiving, Finished
    <2>2. Head(toR).sha = rSha
        BY TailOK DEF IInv, TypeOK, DigestOK
    <2>3. PICK m, n \in 0 .. Len(Offered) : Carries(toR, Offered, m, n) /\ m = Len(partial)
        BY DEF WireOK, Streaming, Streaming
    <2>4. m = Len(Offered)
        BY <2>1, <2>3, CarriesRest DEF IInv, TypeOK
    <2>5. rHash = Offered
        BY <2>1, <2>3, <2>4, PrefixLength, SubSeqFull DEF PrefixOK, IInv, PartialOK
    <2> QED
        BY <2>1, <2>2, <2>5
<1>2. CASE Introduce \/ Stat \/ Hash \/ AnswerResumeRequest \/ SendChunk \/ SendEOS \/ SendHash
           \/ SenderSeesBreak \/ EditSource \/ BreakLink \/ SourceFails \/ SenderStops
    BY <1>2 DEF Introduce, Stat, Hash, AnswerResumeRequest, SendChunk, SendEOS, SendHash,
           SenderSeesBreak, EditSource, BreakLink, SourceFails, SenderStops, SenderEnds, Fault
<1>3. CASE CheckPartial \/ DropPartial \/ SendResumeRequest \/ ReadTransferStart \/ OpenPartial
           \/ TruncateMeta \/ WriteMeta \/ SeedHash \/ RecvChunk \/ RecvEOS \/ RecvClose \/ Sync
           \/ Rename \/ Cleanup \/ ReceiverSeesBreak \/ ReceiverStops \/ PowerLoss
    BY <1>3 DEF CheckPartial, DropPartial, SendResumeRequest, ReadTransferStart, OpenPartial,
           TruncateMeta, WriteMeta, SeedHash, RecvChunk, RecvEOS, RecvClose, Sync, Rename,
           Cleanup, ReceiverSeesBreak, ReceiverStops, PowerLoss, RemoveMeta, Fault,
           RemovePartial, Receive, ReceiverEnds
<1>4. CASE UNCHANGED vars
    BY <1>4 DEF vars
<1> QED
    BY <1>1, <1>2, <1>3, <1>4
    DEF Next, SenderStep, ReceiverStep, Environment

LEMMA StepPrefixOK ==
    ASSUME ~EditsDuringRun, IInv, QInv, [Next]_vars
    PROVE  PrefixOK'
<1> USE DEF QInv, PrefixOK, Offered, Finished, senderVars, receiverVars, diskVars, netVars
<1>1. CASE CheckPartial
    <2>1. CASE MetaMatches /\ partial # None /\ rOff' = Len(partial)
        <3>1. meta \in Metas /\ meta.sha = rSha
            BY <2>1, OfferedIsSeq, <1>1 DEF MetaMatches, Metas, IInv, TypeOK, DigestOK, CheckPartial,
               Receiving, Finished
        <3> QED
            BY <1>1, <2>1, <3>1 DEF CheckPartial, PartialIsPrefix, IsPrefixOf
    <2>2. CASE rOff' = 0
        BY <1>1, <2>2 DEF CheckPartial
    <2> QED
        BY <1>1, <2>1, <2>2 DEF CheckPartial
<1>2. CASE DropPartial
    BY <1>2 DEF DropPartial, IInv, PartialOK
<1>3. CASE OpenPartial
    <2>1. Offered \in Seq(Block)
        BY <1>3, OfferedIsSeq DEF OpenPartial, Receiving, Finished
    <2> QED
        BY <1>3, <2>1, EmptyPrefix DEF OpenPartial
<1>4. CASE RecvChunk
    BY <1>4, RecvChunkGrows DEF RecvChunk
<1>5. CASE Introduce \/ Stat \/ Hash \/ AnswerResumeRequest \/ SendChunk \/ SendEOS \/ SendHash
           \/ SenderSeesBreak \/ EditSource \/ BreakLink \/ SourceFails \/ SenderStops
    BY <1>5 DEF Introduce, Stat, Hash, AnswerResumeRequest, SendChunk, SendEOS, SendHash,
           SenderSeesBreak, EditSource, BreakLink, SourceFails, SenderStops, SenderEnds, Fault
<1>6. CASE SendResumeRequest \/ ReadTransferStart \/ TruncateMeta \/ WriteMeta \/ SeedHash
           \/ RecvEOS \/ RecvClose \/ VerifyTrailer \/ Sync \/ Rename \/ Cleanup
           \/ ReceiverSeesBreak \/ ReceiverStops \/ PowerLoss
    BY <1>6 DEF SendResumeRequest, ReadTransferStart, TruncateMeta, WriteMeta, SeedHash, RecvEOS,
           RecvClose, VerifyTrailer, Sync, Rename, Cleanup, ReceiverSeesBreak, ReceiverStops,
           PowerLoss, Receive, ReceiverEnds, RemoveMeta, Fault
<1>7. CASE UNCHANGED vars
    BY <1>7 DEF vars
<1> QED
    BY <1>1, <1>2, <1>3, <1>4, <1>5, <1>6, <1>7
    DEF Next, SenderStep, ReceiverStep, Environment

LEMMA StepPartialIsPrefix ==
    ASSUME ~EditsDuringRun, IInv, QInv, [Next]_vars
    PROVE  PartialIsPrefix'
<1> USE LeftoverAssumption DEF QInv, PartialIsPrefix, senderVars, receiverVars, diskVars, netVars
<1>1. CASE OpenPartial
    <2>1. meta \in Metas => IsPrefixOf(<<>>, meta.sha.sha256)
        BY EmptyPrefix DEF Metas, Digests
    <2> QED
        BY <1>1, <2>1 DEF OpenPartial, IsPrefixOf
<1>2. CASE WriteMeta
    BY <1>2 DEF WriteMeta, PrefixOK, IsPrefixOf, Offered
<1>3. CASE RecvChunk
    <2>1. IsPrefixOf(partial', Offered)
        BY <1>3, RecvChunkGrows
    <2>2. meta' = meta /\ meta.sha = rSha
        BY <1>3 DEF RecvChunk, SidecarOK
    <2> QED
        BY <2>1, <2>2 DEF IsPrefixOf, Offered
<1>4. CASE ReceiverStops
    <2>1. CASE UNCHANGED partial
        BY <1>4, <2>1 DEF ReceiverStops
    <2>2. CASE rPc = "stream" /\ IsPrefixOf(partial', Offered)
        BY <1>4, <2>2 DEF ReceiverStops, SidecarOK, IsPrefixOf, Offered
    <2> QED
        BY <1>4, <2>1, <2>2, StopGrows DEF ReceiverStops
<1>5. CASE PowerLoss
    <2> SUFFICES ASSUME meta' \in Metas, partial' # None
                 PROVE  IsPrefixOf(partial', meta.sha.sha256) /\ meta' = meta
        BY DEF IsPrefixOf
    <2>1. meta' = meta
        BY <1>5 DEF PowerLoss
    <2>2. CASE partial' = partial
        BY <2>1, <2>2 DEF IsPrefixOf
    <2>3. CASE "partial" \in dirty /\ partial' \in Remains(partial)
        <3>1. IsPrefixOf(partial, meta.sha.sha256) /\ meta.sha.sha256 \in Seq(Block)
            BY <2>1, <2>3 DEF IInv, DirtyOK, IsPrefixOf, Metas, Digests
        <3>2. PICK n \in 0 .. Len(partial) : partial' = SubSeq(partial, 1, n)
            BY <2>3 DEF Remains
        <3>3. IsPrefixOf(SubSeq(partial, 1, n), meta.sha.sha256)
            BY <3>1, CutPrefix
        <3> QED
            BY <2>1, <3>2, <3>3
    <2> QED
        BY <1>5, <2>1, <2>2, <2>3 DEF PowerLoss
<1>6. CASE Introduce \/ Stat \/ Hash \/ AnswerResumeRequest \/ SendChunk \/ SendEOS \/ SendHash
           \/ SenderSeesBreak \/ EditSource \/ BreakLink \/ SourceFails \/ SenderStops
    BY <1>6 DEF Introduce, Stat, Hash, AnswerResumeRequest, SendChunk, SendEOS, SendHash,
           SenderSeesBreak, EditSource, BreakLink, SourceFails, SenderStops, SenderEnds, Fault
<1>7. CASE CheckPartial \/ DropPartial \/ SendResumeRequest \/ ReadTransferStart \/ TruncateMeta
           \/ SeedHash \/ RecvEOS \/ RecvClose \/ VerifyTrailer \/ Sync \/ Rename \/ Cleanup
           \/ ReceiverSeesBreak
    BY <1>7 DEF CheckPartial, DropPartial, SendResumeRequest, ReadTransferStart, TruncateMeta,
           SeedHash, RecvEOS, RecvClose, VerifyTrailer, Sync, Rename, Cleanup, ReceiverSeesBreak,
           RemoveMeta, Fault, RemovePartial, Receive, ReceiverEnds
<1>8. CASE UNCHANGED vars
    BY <1>8 DEF vars
<1> QED
    BY <1>1, <1>2, <1>3, <1>4, <1>5, <1>6, <1>7, <1>8
    DEF Next, SenderStep, ReceiverStep, Environment

LEMMA StepWireOK ==
    ASSUME ~EditsDuringRun, IInv, QInv, [Next]_vars
    PROVE  WireOK'
<1> USE DEF QInv, WireOK, Streaming, senderVars, receiverVars, diskVars, netVars
<1>1. CASE AnswerResumeRequest
    <2>1. rPc = "awaitStart" /\ toR = <<>> /\ request = rOff
        BY <1>1 DEF AnswerResumeRequest, RequestOK
    <2>2. Offered \in Seq(Block) /\ rOff \in 0 .. Len(Offered)
        BY <2>1, ResumesInside
    <2>3. CASE request <= sSize
        <3>1. Carries(<<>>, Offered, rOff, rOff)
            BY <2>2, CarriesNothing
        <3>2. Start(rOff) \in Frames /\ Start(rOff).type = "start" /\ <<>> \in Seq(Frames)
            BY FramesOK, EmptySeq DEF Start, IInv, TypeOK
        <3>3. Carries(Append(<<>>, Start(rOff)), Offered, rOff, rOff)
            BY <2>2, <3>1, <3>2, CarriesMore
        <3> QED
            BY <1>1, <2>1, <2>2, <2>3, <3>3 DEF AnswerResumeRequest, Offered
    <2>4. CASE ~(request <= sSize)
        BY <1>1, <2>4 DEF AnswerResumeRequest, SenderEnds, Offered
    <2> QED
        BY <2>3, <2>4
<1>2. CASE SendChunk
    <2> SUFFICES ASSUME Streaming
                 PROVE  WireOK'
        BY <1>2 DEF SendChunk, Streaming
    <2>1. Offered = source /\ Offered \in Seq(Block)
        BY <1>2, SendsOffered DEF SendChunk, SenderAttached
    <2>2. PICK m, n \in 0 .. Len(Offered) :
             /\ Carries(toR, Offered, m, n) /\ n = sPos
             /\ m = IF rPc \in {"stream", "trailer"} THEN Len(partial) ELSE rOff
        BY <1>2 DEF SendChunk, Streaming
    <2>3. sPos' \in n .. Len(Offered)
        BY <1>2, <2>1, <2>2, LenProperties, TransferAssumption DEF SendChunk, Smaller, IInv, TypeOK
    <2>4. /\ SubSeq(Offered, n + 1, sPos') \in Seq(Block)
          /\ sPos' \in 0 .. Len(Offered) /\ n <= sPos'
        BY <2>1, <2>2, <2>3, Stretch
    <2>5. Carries(Append(toR, Chunk(SubSeq(Offered, n + 1, sPos'))), Offered, m, sPos')
        BY <2>1, <2>2, <2>4, FramesOK, CarriesMore DEF Chunk, IInv, TypeOK
    <2> QED
        BY <1>2, <2>1, <2>2, <2>4, <2>5 DEF SendChunk, Offered
<1>3. CASE SendEOS
    <2> SUFFICES ASSUME Streaming
                 PROVE  WireOK'
        BY <1>3 DEF SendEOS, Streaming
    <2>1. Offered = source /\ Offered \in Seq(Block)
        BY <1>3, SendsOffered DEF SendEOS, SenderAttached
    <2>2. PICK m, n \in 0 .. Len(Offered) :
             /\ Carries(toR, Offered, m, n) /\ n = sPos
             /\ m = IF rPc \in {"stream", "trailer"} THEN Len(partial) ELSE rOff
        BY <1>3 DEF SendEOS, Streaming
    <2>3. n = Len(Offered)
        BY <1>3, <2>1, <2>2, LenProperties DEF SendEOS
    <2>4. Carries(Append(toR, EOS), Offered, m, n)
        BY <2>1, <2>2, <2>3, FramesOK, CarriesMore DEF EOS, IInv, TypeOK
    <2> QED
        BY <1>3, <2>2, <2>3, <2>4 DEF SendEOS, Offered
<1>4. CASE SendHash
    <2> SUFFICES ASSUME Streaming
                 PROVE  WireOK'
        BY <1>4 DEF SendHash, Streaming
    <2>1. Offered \in Seq(Block) /\ sSha \in Digests
        BY <1>4, SendsOffered DEF SendHash, SenderAttached, IInv, DigestOK
    <2>2. PICK m, n \in 0 .. Len(Offered) :
             /\ Carries(toR, Offered, m, n) /\ n = Len(Offered)
             /\ m = IF rPc \in {"stream", "trailer"} THEN Len(partial) ELSE rOff
        BY <1>4 DEF SendHash, Streaming
    <2>3. Carries(Append(toR, Trailer(sSha)), Offered, m, n)
        BY <2>1, <2>2, FramesOK, CarriesMore DEF Trailer, IInv, TypeOK
    <2> QED
        BY <1>4, <2>2, <2>3 DEF SendHash, SenderEnds, Offered
<1>5. CASE SendResumeRequest
    <2>1. Offered \in Seq(Block) /\ rOff \in 0 .. Len(Offered)
        BY <1>5, ResumesInside DEF SendResumeRequest
    <2>2. Carries(toR, Offered, rOff, rOff)
        BY <1>5, <2>1, CarriesNothing DEF SendResumeRequest, RequestOK
    <2> QED
        BY <1>5, <2>1, <2>2 DEF SendResumeRequest, RequestOK, Offered
<1>6. CASE ReadTransferStart
    <2> SUFFICES ASSUME Receive("start"), Streaming'
                 PROVE  WireOK'
        BY <1>6 DEF ReadTransferStart, ReceiverEnds, Finished, Streaming, Receive
    <2>1. Offered \in Seq(Block) /\ Streaming
        BY <1>6, OfferedIsSeq DEF ReadTransferStart, Receiving, Finished, Streaming
    <2>2. PICK m, n \in 0 .. Len(Offered) :
             /\ Carries(toR, Offered, m, n)
             /\ m = IF rPc \in {"stream", "trailer"} THEN Len(partial) ELSE rOff
             /\ sPc = "stream" => n = sPos
             /\ sPc = "trailer" => n = Len(Offered)
        BY <2>1 DEF Streaming
    <2>3. Carries(Tail(toR), Offered, m, n)
        <3>1. toR \in Seq(Frames) /\ toR # <<>> /\ Head(toR).type # "chunk"
            BY DEF IInv, TypeOK, Receive
        <3> QED
            BY ONLY <2>1, <2>2, <3>1, CarriesRest
    <2> QED
        BY <1>6, <2>2, <2>3 DEF ReadTransferStart, Receive, ReceiverEnds, Finished, Offered, Streaming
<1>7. CASE SeedHash
    BY <1>7 DEF SeedHash, Offered, IInv, PartialOK
<1>8. CASE RecvChunk
    <2>1. PICK k \in 0 .. Len(Offered), n \in 0 .. Len(Offered) :
             /\ Carries(Tail(toR), Offered, k, n) /\ Len(partial \o Head(toR).data) = k
             /\ sPc = "stream" => n = sPos
             /\ sPc = "trailer" => n = Len(Offered)
        BY <1>8, RecvChunkGrows DEF RecvChunk
    <2> QED
        BY <1>8, <2>1 DEF RecvChunk, Receive, Offered
<1>9. CASE RecvEOS
    <2> SUFFICES ASSUME Receive("eos"), Streaming'
                 PROVE  WireOK'
        BY <1>9 DEF RecvEOS, ReceiverEnds, Finished, Streaming, Receive
    <2>1. Offered \in Seq(Block) /\ Streaming
        BY <1>9, OfferedIsSeq DEF RecvEOS, Receiving, Finished, Streaming
    <2>2. PICK m, n \in 0 .. Len(Offered) :
             /\ Carries(toR, Offered, m, n)
             /\ m = IF rPc \in {"stream", "trailer"} THEN Len(partial) ELSE rOff
             /\ sPc = "stream" => n = sPos
             /\ sPc = "trailer" => n = Len(Offered)
        BY <2>1 DEF Streaming
    <2>3. Carries(Tail(toR), Offered, m, n)
        <3>1. toR \in Seq(Frames) /\ toR # <<>> /\ Head(toR).type # "chunk"
            BY DEF IInv, TypeOK, Receive
        <3> QED
            BY ONLY <2>1, <2>2, <3>1, CarriesRest
    <2> QED
        BY <1>9, <2>2, <2>3 DEF RecvEOS, Receive, ReceiverEnds, Finished, Offered, Streaming
<1>10. CASE OpenPartial \/ TruncateMeta \/ WriteMeta
    BY <1>10 DEF Offered, OpenPartial, TruncateMeta, WriteMeta
<1>11. CASE RecvClose \/ EditSource \/ BreakLink \/ SourceFails \/ SenderStops
           \/ SenderSeesBreak \/ Stat \/ Hash
    BY <1>11 DEF Offered, Finished, RecvClose, EditSource, BreakLink, SourceFails, SenderStops, SenderSeesBreak,
           Stat, Hash, ReceiverEnds, Fault, SenderEnds
<1>12. CASE Introduce \/ CheckPartial \/ DropPartial \/ VerifyTrailer \/ Sync \/ Rename
           \/ Cleanup \/ ReceiverSeesBreak \/ ReceiverStops \/ PowerLoss
    BY <1>12 DEF Finished, Introduce, CheckPartial, DropPartial, VerifyTrailer, Sync, Rename, Cleanup,
           ReceiverSeesBreak, ReceiverStops, PowerLoss, RemoveMeta, Fault, RemovePartial,
           Receive, ReceiverEnds
<1>13. CASE UNCHANGED vars
    BY <1>13 DEF vars, Offered
<1> QED
    BY <1>1, <1>2, <1>3, <1>4, <1>5, <1>6, <1>7, <1>8, <1>9, <1>10, <1>11, <1>12, <1>13
    DEF Next, SenderStep, ReceiverStep, Environment

LEMMA InitQInv == Init => QInv
BY LeftoverAssumption
   DEF Init, QInv, SourceOK, RequestOK, SidecarOK, PrefixOK, PartialIsPrefix, WireOK,
       Streaming, NoMismatch

(* With a source that stays put while it is sent, the partial file and the *)
(* frames in flight are always stretches of the file that was offered.     *)
THEOREM QuietInvariance == ASSUME ~EditsDuringRun PROVE Spec => []QInv
<1>1. IInv /\ QInv /\ [Next]_vars => QInv'
    BY StepSourceOK, StepRequestOK, StepSidecarOK, StepPrefixOK, StepPartialIsPrefix,
       StepWireOK, StepNoMismatch DEF QInv
<1> QED
    BY InitQInv, <1>1, Invariance, PTL DEF Spec

(* A sidecar that parses vouches only for a true prefix of its file, after *)
(* any crashes, power losses, failed removals and resumed attempts.        *)
THEOREM ResumesTruePrefix == ASSUME ~EditsDuringRun PROVE Spec => []PartialIsPrefix
BY QuietInvariance, PTL DEF QInv

(* No receiver ever rejects the trailer of a transfer.                     *)
THEOREM NeverMismatches == ASSUME ~EditsDuringRun PROVE Spec => []NoMismatch
BY QuietInvariance, PTL DEF QInv
=============================================================================
