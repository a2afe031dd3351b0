------------------------------ MODULE Transfer ------------------------------
(***************************************************************************)
(* The file transfer of p2pft: internal/transfer on both ends, driven by   *)
(* runSend and runReceive, with the files each end keeps on disk.          *)
(*                                                                         *)
(* One user sends one path, again and again if need be, to one receiver    *)
(* that saves it at one destination.  Every attempt is a fresh pair of     *)
(* processes: the sender stats and hashes the source, the relay introduces *)
(* it to the receiver (Introduce stands for Relay.tla, the connection race *)
(* and the TLS handshake), and both run the transfer protocol over one     *)
(* connection.  What survives between attempts is the receiver's disk:     *)
(* <dest>, <dest>.partial and <dest>.partial.meta.                         *)
(*                                                                         *)
(* A content is a sequence of blocks.  SHA-256 is taken to be free of      *)
(* collisions, so a digest is a record that wraps the content it was       *)
(* computed over; nothing but equality is ever asked of it by the code.    *)
(***************************************************************************)
EXTENDS Integers, Sequences

CONSTANTS
    Block,           \* the unit a content is made of
    Contents,        \* the contents the source file takes
    ChunkSize,       \* blocks in one read of the source (DefaultChunkSize)
    WireCap,         \* frames in flight before the sender's write blocks
    MaxFaults,       \* bound: crashes, I/O errors and broken connections
    MaxEdits,        \* bound: changes of the source file
    EditsDuringRun,  \* whether the source may change while a sender runs
    None,            \* no file, no sidecar, no frame
    Corrupt          \* a sidecar that does not parse

ASSUME TransferAssumption ==
    /\ Contents \subseteq Seq(Block)
    /\ Contents # {}
    /\ ChunkSize \in Nat \ {0}
    /\ WireCap \in Nat \ {0}
    /\ MaxFaults \in Nat
    /\ MaxEdits \in Nat
    /\ EditsDuringRun \in BOOLEAN

VARIABLES
    source,   \* content of the file being sent
    edits,    \* how often it may still change
    faults,   \* how many faults may still happen
    sPc,      \* where the sender process is, "idle" between processes
    sSize,    \* size found by runSend's os.Stat
    sSha,     \* digest found by runSend's FileSHA256
    sPos,     \* read position in the source file
    rPc,      \* where the receiver process is
    rSize,    \* expected size, from SessionFound
    rSha,     \* expected digest, from SessionFound
    rOff,     \* startOffset
    rHash,    \* bytes fed to the rolling hash of the HashingWriter
    partial,  \* <dest>.partial
    meta,     \* <dest>.partial.meta
    dest,     \* <dest>
    dirty,    \* files with data that no Sync has made durable
    request,  \* the ResumeRequest in flight, None when there is none
    toR,      \* frames in flight to the receiver
    link      \* the connection: "up", "closing" (sender's end shut), "broken"

senderVars   == <<sPc, sSize, sSha, sPos>>
receiverVars == <<rPc, rSize, rSha, rOff, rHash>>
diskVars     == <<partial, meta, dest, dirty>>
netVars      == <<request, toR, link>>
budgetVars   == <<edits, faults>>
vars == <<source, budgetVars, senderVars, receiverVars, diskVars, netVars>>

Sha256(data) == [sha256 |-> data]
Digests == [sha256 : Seq(Block)]
Metas == [size : Nat, sha : Digests]

(* No file and no sidecar differ from any file and sidecar.                *)
ASSUME LeftoverAssumption == None \notin Seq(Block) /\ None \notin Metas /\ Corrupt \notin Metas

Start(offset) == [type |-> "start", offset |-> offset]
Chunk(data)   == [type |-> "chunk", data |-> data]
EOS           == [type |-> "eos"]
Trailer(sha)  == [type |-> "hash", sha |-> sha]

Frames == [type : {"start"}, offset : Nat] \cup [type : {"chunk"}, data : Seq(Block)]
            \cup {EOS} \cup [type : {"hash"}, sha : Digests]

SenderPcs == {"idle", "hash", "offering", "await", "stream", "trailer"}
Finished == {"idle", "ok", "mismatch"}
ReceiverPcs == Finished \cup
    {"check", "drop", "request", "awaitStart", "open", "truncateMeta", "meta",
     "seed", "stream", "trailer", "sync", "rename", "cleanup"}

(* The sender process holds its end of the connection. *)
SenderAttached == sPc \in {"await", "stream", "trailer"}

(* Points at which the receiver reads from or writes to the connection. *)
ReceiverOnWire == rPc \in {"request", "awaitStart", "stream", "trailer"}

Smaller(m, n) == IF m <= n THEN m ELSE n

Init ==
    /\ source \in Contents
    /\ edits = MaxEdits
    /\ faults = MaxFaults
    /\ sPc = "idle" /\ sSize = 0 /\ sSha = None /\ sPos = 0
    /\ rPc = "idle" /\ rSize = 0 /\ rSha = None /\ rOff = 0 /\ rHash = <<>>
    /\ partial = None /\ meta = None /\ dest = None /\ dirty = {}
    /\ request = None /\ toR = <<>> /\ link = "broken"

(* One of the things that may go wrong does. *)
Fault ==
    /\ faults > 0
    /\ faults' = faults - 1

-----------------------------------------------------------------------------
(* Sender                                                                  *)

(* A sender process ends with its connection closed behind what it sent:   *)
(* the deferred tlsConn.Close of runSend.                                  *)
SenderEnds ==
    /\ sPc' = "idle"
    /\ sPos' = 0
    /\ link' = IF link = "up" THEN "closing" ELSE link
    /\ UNCHANGED <<sSize, sSha>>

(* The user runs p2pft send. *)
Stat ==
    /\ sPc = "idle"
    /\ sPc' = "hash"
    /\ sSize' = Len(source)
    /\ UNCHANGED <<source, budgetVars, sSha, sPos, receiverVars, diskVars, netVars>>

Hash ==
    /\ sPc = "hash"
    /\ sPc' = "offering"
    /\ sSha' = Sha256(source)
    /\ UNCHANGED <<source, budgetVars, sSize, sPos, receiverVars, diskVars, netVars>>

\* Mutant: the source is not read from the offset on.
AnswerResumeRequest_NoSeek ==
    /\ sPc = "await"
    /\ link = "up"
    /\ request # None
    /\ request' = None
    /\ IF request <= sSize
         THEN /\ sPc' = "stream"
              /\ sPos' = 0
              /\ toR' = Append(toR, Start(request))
              /\ UNCHANGED <<sSize, sSha, link>>
         ELSE SenderEnds /\ UNCHANGED toR
    /\ UNCHANGED <<source, budgetVars, receiverVars, diskVars>>

(* The ResumeRequest is read and checked, TransferStart is sent and the    *)
(* source opened at the offset.                                            *)
AnswerResumeRequest ==
    /\ sPc = "await"
    /\ link = "up"
    /\ request # None
    /\ request' = None
    /\ IF request <= sSize
         THEN /\ sPc' = "stream"
              /\ sPos' = request
              /\ toR' = Append(toR, Start(request))
              /\ UNCHANGED <<sSize, sSha, link>>
         ELSE SenderEnds /\ UNCHANGED toR
    /\ UNCHANGED <<source, budgetVars, receiverVars, diskVars>>

\* Mutant: a writer that never blocks.
SendChunk_Unbounded ==
    /\ sPc = "stream"
    /\ link = "up"
    /\ sPos < Len(source)
    /\ sPos' = Smaller(sPos + ChunkSize, Len(source))
    /\ toR' = Append(toR, Chunk(SubSeq(source, sPos + 1, sPos')))
    /\ UNCHANGED <<source, budgetVars, sPc, sSize, sSha, receiverVars, diskVars,
                   request, link>>

(* One turn of the loop: read up to ChunkSize blocks, write them as a      *)
(* frame.  The write blocks while the connection's buffers are full.       *)
SendChunk ==
    /\ sPc = "stream"
    /\ link = "up"
    /\ Len(toR) < WireCap
    /\ sPos < Len(source)
    /\ sPos' = Smaller(sPos + ChunkSize, Len(source))
    /\ toR' = Append(toR, Chunk(SubSeq(source, sPos + 1, sPos')))
    /\ UNCHANGED <<source, budgetVars, sPc, sSize, sSha, receiverVars, diskVars,
                   request, link>>

\* Mutant: the loop is not left at the end of the file.
SendEOS_StillReads ==
    /\ sPc = "stream"
    /\ link = "up"
    /\ Len(toR) < WireCap
    /\ sPos >= Len(source)
    /\ sPc' \in {"stream", "trailer"}
    /\ toR' = Append(toR, EOS)
    /\ UNCHANGED <<source, budgetVars, sSize, sSha, sPos, receiverVars, diskVars,
                   request, link>>

(* The read meets the end of the file as it is now. *)
SendEOS ==
    /\ sPc = "stream"
    /\ link = "up"
    /\ Len(toR) < WireCap
    /\ sPos >= Len(source)
    /\ sPc' = "trailer"
    /\ toR' = Append(toR, EOS)
    /\ UNCHANGED <<source, budgetVars, sSize, sSha, sPos, receiverVars, diskVars,
                   request, link>>

(* The precomputed digest is the trailer, whatever was streamed. *)
SendHash ==
    /\ sPc = "trailer"
    /\ link = "up"
    /\ Len(toR) < WireCap
    /\ toR' = Append(toR, Trailer(sSha))
    /\ SenderEnds
    /\ UNCHANGED <<source, budgetVars, receiverVars, diskVars, request>>

(* A read or write on a connection that is gone returns an error. *)
SenderSeesBreak ==
    /\ SenderAttached
    /\ link = "broken"
    /\ SenderEnds
    /\ UNCHANGED <<source, budgetVars, receiverVars, diskVars, request, toR>>

-----------------------------------------------------------------------------
(* Receiver                                                                *)

(* A receiver process ends; its deferred Close takes the connection down.  *)
ReceiverEnds(outcome) ==
    /\ rPc' = outcome
    /\ rOff' = 0
    /\ rHash' = <<>>
    /\ request' = None
    /\ toR' = <<>>
    /\ link' = "broken"
    /\ UNCHANGED <<rSize, rSha>>

(* The relay pairs the two users, the sender's dial and both handshakes    *)
(* succeed, the receiver's user accepts: SessionFound's size and digest    *)
(* are the receiver's expectations.                                        *)
Introduce ==
    /\ sPc = "offering"
    /\ rPc \in Finished
    /\ sPc' = "await"
    /\ rPc' = "check"
    /\ rSize' = sSize
    /\ rSha' = sSha
    /\ request' = None
    /\ toR' = <<>>
    /\ link' = "up"
    /\ UNCHANGED <<source, budgetVars, sSize, sSha, sPos, rOff, rHash, diskVars>>

\* Mutant: any sidecar that parses vouches for the partial file.
MetaMatches_Ignored == meta \notin {None, Corrupt}

(* The sidecar is that of the offered file. *)
MetaMatches == meta = [size |-> rSize, sha |-> rSha]

\* Mutant: only a partial file longer than the offer is thrown away.
TooLong_Exceeds == partial # None /\ Len(partial) > rSize

(* As long as the offer or longer: corrupt, or a complete transfer. *)
TooLong == partial # None /\ Len(partial) >= rSize

(* os.Remove, whose error nobody looks at.                                 *)
RemoveMeta ==
    \/ meta' = None /\ dirty' = dirty \ {"meta"} /\ UNCHANGED faults
    \/ Fault /\ UNCHANGED <<meta, dirty>>

RemovePartial ==
    \/ partial' = None /\ dirty' = dirty \ {"partial"} /\ UNCHANGED faults
    \/ Fault /\ UNCHANGED <<partial, dirty>>

(* CheckPartial: the resume offset, or 0 after throwing the leftovers of   *)
(* some other or unusable attempt away (sidecar first, then the file).     *)
CheckPartial ==
    /\ rPc = "check"
    /\ \/ /\ meta = None
          /\ rPc' = "request" /\ rOff' = 0
          /\ UNCHANGED <<meta, dirty, faults>>
       \/ /\ meta # None
          /\ ~MetaMatches \/ TooLong
          /\ rPc' = "drop" /\ rOff' = 0
          /\ RemoveMeta
       \/ /\ MetaMatches
          /\ partial = None
          /\ rPc' = "request" /\ rOff' = 0
          /\ RemoveMeta
       \/ /\ MetaMatches
          /\ partial # None /\ ~TooLong
          /\ rPc' = "request" /\ rOff' = Len(partial)
          /\ UNCHANGED <<meta, dirty, faults>>
    /\ UNCHANGED <<source, edits, senderVars, rSize, rSha, rHash, partial, dest,
                   netVars>>

DropPartial ==
    /\ rPc = "drop"
    /\ rPc' = "request"
    /\ RemovePartial
    /\ UNCHANGED <<source, edits, senderVars, rSize, rSha, rOff, rHash, meta, dest,
                   netVars>>

SendResumeRequest ==
    /\ rPc = "request"
    /\ rPc' = "awaitStart"
    /\ request' = rOff
    /\ UNCHANGED <<source, budgetVars, senderVars, rSize, rSha, rOff, rHash, diskVars,
                   toR, link>>

(* The next frame is of the given type and is taken off the wire. *)
Receive(type) ==
    /\ toR # <<>>
    /\ Head(toR).type = type
    /\ toR' = Tail(toR)

ReadTransferStart ==
    /\ rPc = "awaitStart"
    /\ toR # <<>> /\ Head(toR).type = "start"
    /\ IF Head(toR).offset = rOff
         THEN /\ rPc' = "open"
              /\ Receive("start")
              /\ UNCHANGED <<rSize, rSha, rOff, rHash, request, link>>
         ELSE ReceiverEnds("idle")
    /\ UNCHANGED <<source, budgetVars, senderVars, diskVars>>

\* Mutant: a fresh download appends to whatever the file holds.
OpenPartial_Appends ==
    /\ rPc = "open"
    /\ rPc' = "truncateMeta"
    /\ partial' = IF partial = None THEN <<>> ELSE partial
    /\ UNCHANGED <<source, budgetVars, senderVars, rSize, rSha, rOff, rHash, meta, dest,
                   dirty, netVars>>

(* os.Create truncates; with an offset the file is opened for appending. *)
OpenPartial ==
    /\ rPc = "open"
    /\ rPc' = "truncateMeta"
    /\ IF rOff = 0
         THEN partial' = <<>> /\ dirty' = dirty \ {"partial"}
         ELSE UNCHANGED <<partial, dirty>>
    /\ UNCHANGED <<source, budgetVars, senderVars, rSize, rSha, rOff, rHash, meta, dest,
                   netVars>>

(* WriteMeta, first half: os.WriteFile has truncated the sidecar. *)
TruncateMeta ==
    /\ rPc = "truncateMeta"
    /\ rPc' = "meta"
    /\ meta' = Corrupt
    /\ UNCHANGED <<source, budgetVars, senderVars, rSize, rSha, rOff, rHash, partial,
                   dest, dirty, netVars>>

(* WriteMeta, second half: the sidecar's bytes are in the page cache. *)
WriteMeta ==
    /\ rPc = "meta"
    /\ rPc' = "seed"
    /\ meta' = [size |-> rSize, sha |-> rSha]
    /\ dirty' = dirty \cup {"meta"}
    /\ UNCHANGED <<source, budgetVars, senderVars, rSize, rSha, rOff, rHash, partial,
                   dest, netVars>>

\* Mutant: the rolling hash starts empty on a resumed transfer too.
SeedHash_Skipped ==
    /\ rPc = "seed"
    /\ rPc' = "stream"
    /\ UNCHANGED <<source, budgetVars, senderVars, rSize, rSha, rOff, rHash, diskVars,
                   netVars>>

SeedHash ==
    /\ rPc = "seed"
    /\ rPc' = "stream"
    /\ rHash' = SubSeq(partial, 1, rOff)
    /\ UNCHANGED <<source, budgetVars, senderVars, rSize, rSha, rOff, diskVars, netVars>>

(* HashingWriter.Write: the bytes go to the file and into the hash. *)
RecvChunk ==
    /\ rPc = "stream"
    /\ Receive("chunk")
    /\ partial' = partial \o Head(toR).data
    /\ rHash' = rHash \o Head(toR).data
    /\ dirty' = dirty \cup {"partial"}
    /\ UNCHANGED <<source, budgetVars, senderVars, rPc, rSize, rSha, rOff, meta, dest,
                   request, link>>

RecvEOS ==
    /\ rPc = "stream"
    /\ Receive("eos")
    /\ rPc' = "trailer"
    /\ UNCHANGED <<source, budgetVars, senderVars, rSize, rSha, rOff, rHash, diskVars,
                   request, link>>

\* Mutant: a close is noticed before what was sent ahead of it is read.
RecvClose_Overtakes ==
    /\ rPc \in {"awaitStart", "stream", "trailer"}
    /\ link = "closing"
    /\ ReceiverEnds("idle")
    /\ UNCHANGED <<source, budgetVars, senderVars, diskVars>>

(* The sender closed and everything it sent was read: ReadFrame returns an *)
(* error that wraps io.EOF, which the stream loop takes for the end of the *)
(* stream and every other read for a failure.                              *)
RecvClose ==
    /\ rPc \in {"awaitStart", "stream", "trailer"}
    /\ link = "closing"
    /\ toR = <<>>
    /\ IF rPc = "stream"
         THEN /\ rPc' = "trailer"
              /\ UNCHANGED <<rSize, rSha, rOff, rHash, netVars>>
         ELSE ReceiverEnds("idle")
    /\ UNCHANGED <<source, budgetVars, senderVars, diskVars>>

\* Mutant: the trailer is taken off the wire and not compared.
VerifyTrailer_Skipped ==
    /\ rPc = "trailer"
    /\ Receive("hash")
    /\ rPc' = "sync"
    /\ UNCHANGED <<source, budgetVars, senderVars, rSize, rSha, rOff, rHash, diskVars,
                   request, link>>

(* The trailer is compared with the rolling hash. *)
VerifyTrailer ==
    /\ rPc = "trailer"
    /\ toR # <<>> /\ Head(toR).type = "hash"
    /\ IF Head(toR).sha = Sha256(rHash)
         THEN /\ rPc' = "sync"
              /\ Receive("hash")
              /\ UNCHANGED <<rSize, rSha, rOff, rHash, request, link>>
         ELSE ReceiverEnds("mismatch")
    /\ UNCHANGED <<source, budgetVars, senderVars, diskVars>>

\* Mutant: no f.Sync before the rename.
Sync_Skipped ==
    /\ rPc = "sync"
    /\ rPc' = "rename"
    /\ UNCHANGED <<source, budgetVars, senderVars, rSize, rSha, rOff, rHash, diskVars,
                   netVars>>

Sync ==
    /\ rPc = "sync"
    /\ rPc' = "rename"
    /\ dirty' = dirty \ {"partial"}
    /\ UNCHANGED <<source, budgetVars, senderVars, rSize, rSha, rOff, rHash, partial,
                   meta, dest, netVars>>

Rename ==
    /\ rPc = "rename"
    /\ rPc' = "cleanup"
    /\ dest' = partial
    /\ partial' = None
    /\ dirty' = (dirty \ {"partial", "dest"})
                    \cup (IF "partial" \in dirty THEN {"dest"} ELSE {})
    /\ UNCHANGED <<source, budgetVars, senderVars, rSize, rSha, rOff, rHash, meta, netVars>>

Cleanup ==
    /\ rPc = "cleanup"
    /\ RemoveMeta
    /\ ReceiverEnds("ok")
    /\ UNCHANGED <<source, edits, senderVars, partial, dest>>

\* Mutant: reads never fail, as with a peer that vanished and no keepalive.
ReceiverSeesBreak_OnlyWrites ==
    /\ rPc = "request"
    /\ link = "broken"
    /\ ReceiverEnds("idle")
    /\ UNCHANGED <<source, budgetVars, senderVars, diskVars>>

ReceiverSeesBreak ==
    /\ ReceiverOnWire
    /\ link = "broken"
    /\ ReceiverEnds("idle")
    /\ UNCHANGED <<source, budgetVars, senderVars, diskVars>>

-----------------------------------------------------------------------------
(* Environment                                                             *)

EditSource ==
    /\ edits > 0
    /\ EditsDuringRun \/ sPc = "idle"
    /\ edits' = edits - 1
    /\ source' \in Contents \ {source}
    /\ UNCHANGED <<faults, senderVars, receiverVars, diskVars, netVars>>

(* The network between the two machines fails. *)
BreakLink ==
    /\ Fault
    /\ SenderAttached \/ ReceiverOnWire
    /\ link # "broken"
    /\ link' = "broken"
    /\ UNCHANGED <<source, edits, senderVars, receiverVars, diskVars, request, toR>>

(* The source cannot be opened or read: Run returns, the connection is     *)
(* closed in good order.                                                   *)
SourceFails ==
    /\ Fault
    /\ sPc = "stream"
    /\ SenderEnds
    /\ UNCHANGED <<source, edits, receiverVars, diskVars, request, toR>>

(* The sender is killed.  The system closes its socket: behind a whole     *)
(* record the receiver cannot tell that from an orderly close (crypto/tls  *)
(* reports io.EOF for both); otherwise, or if the machine died, its reads  *)
(* fail.                                                                   *)
SenderStops ==
    /\ Fault
    /\ sPc # "idle"
    /\ sPc' = "idle"
    /\ sPos' = 0
    /\ link' \in IF SenderAttached /\ link = "up" THEN {"closing", "broken"} ELSE {link}
    /\ UNCHANGED <<source, edits, sSize, sSha, receiverVars, diskVars, request, toR>>

(* The receiver is killed, or a step on its disk returns an error.  Inside *)
(* HashingWriter.Write, some of the chunk may have reached the file.       *)
ReceiverStops ==
    /\ Fault
    /\ rPc \notin Finished
    /\ \/ UNCHANGED <<partial, dirty>>
       \/ /\ rPc = "stream"
          /\ toR # <<>> /\ Head(toR).type = "chunk"
          /\ \E k \in 1 .. Len(Head(toR).data) :
                partial' = partial \o SubSeq(Head(toR).data, 1, k)
          /\ dirty' = dirty \cup {"partial"}
    /\ ReceiverEnds("idle")
    /\ UNCHANGED <<source, edits, senderVars, meta, dest>>

(* What a file with unsynced data may hold after a power loss. *)
Remains(data) == {SubSeq(data, 1, n) : n \in 0 .. Len(data)}

(* The receiver's machine loses power: data that was never synced is cut   *)
(* short, the directory is as the last completed operation left it.        *)
PowerLoss ==
    /\ Fault
    /\ dirty # {} \/ rPc \notin Finished
    /\ partial' \in IF "partial" \in dirty THEN Remains(partial) ELSE {partial}
    /\ dest' \in IF "dest" \in dirty THEN Remains(dest) ELSE {dest}
    /\ meta' \in IF "meta" \in dirty THEN {meta, Corrupt} ELSE {meta}
    /\ dirty' = {}
    /\ IF rPc \in Finished
         THEN UNCHANGED <<receiverVars, netVars>>
         ELSE ReceiverEnds("idle")
    /\ UNCHANGED <<source, edits, senderVars>>

-----------------------------------------------------------------------------
SenderStep ==
    \/ Stat
    \/ Hash
    \/ AnswerResumeRequest
    \/ SendChunk
    \/ SendEOS
    \/ SendHash
    \/ SenderSeesBreak

ReceiverStep ==
    \/ CheckPartial
    \/ DropPartial
    \/ SendResumeRequest
    \/ ReadTransferStart
    \/ OpenPartial
    \/ TruncateMeta
    \/ WriteMeta
    \/ SeedHash
    \/ RecvChunk
    \/ RecvEOS
    \/ RecvClose
    \/ VerifyTrailer
    \/ Sync
    \/ Rename
    \/ Cleanup
    \/ ReceiverSeesBreak

Environment ==
    \/ EditSource
    \/ BreakLink
    \/ SourceFails
    \/ SenderStops
    \/ ReceiverStops
    \/ PowerLoss

Next == Introduce \/ SenderStep \/ ReceiverStep \/ Environment

Spec == Init /\ [][Next]_vars

(* A running process keeps running, a broken connection is noticed (TCP    *)
(* keepalive, on by default in Go), the users try again after a failure    *)
(* and meet in the end.                                                    *)
Fairness == WF_vars(SenderStep) /\ WF_vars(ReceiverStep) /\ WF_vars(Introduce)

FairSpec == Spec /\ Fairness

-----------------------------------------------------------------------------
(* Properties                                                              *)

(* Types and bounds of the state; the connection never holds more frames   *)
(* than a writer can get in before it blocks.                              *)
TypeOK ==
    /\ source \in Contents
    /\ edits \in 0 .. MaxEdits
    /\ faults \in 0 .. MaxFaults
    /\ sPc \in SenderPcs
    /\ sSize \in Nat
    /\ sSha \in Digests \cup {None}
    /\ sPos \in Nat
    /\ rPc \in ReceiverPcs
    /\ rSize \in Nat
    /\ rSha \in Digests \cup {None}
    /\ rOff \in Nat
    /\ rHash \in Seq(Block)
    /\ partial \in Seq(Block) \cup {None}
    /\ meta \in Metas \cup {None, Corrupt}
    /\ dest \in Seq(Block) \cup {None}
    /\ dirty \subseteq {"partial", "meta", "dest"}
    /\ request \in Nat \cup {None}
    /\ toR \in Seq(Frames) /\ Len(toR) <= WireCap
    /\ link \in {"up", "closing", "broken"}

(* The rolling hash covers exactly the bytes in the partial file, resumed  *)
(* or not, whenever it may be compared with the trailer: otherwise the     *)
(* comparison would say nothing about the file that is renamed.            *)
HashCoversPartial ==
    rPc \in {"stream", "trailer", "sync", "rename"} => rHash = partial

(* A receiver that ended well left the file it was offered at the          *)
(* destination, and no partial file that a later transfer to the same path *)
(* could take for the start of its own.                                    *)
CleanFinish ==
    rPc = "ok" => Sha256(dest) = rSha /\ partial = None

(* The receiver is in a transfer its user accepted. *)
Receiving == rPc \notin Finished \cup {"cleanup"}

D == INSTANCE Delivery WITH
        Files <- Seq(Block),
        offer <- IF Receiving THEN rSha ELSE None

(* The destination is replaced in one step by the very file that was       *)
(* offered, or not touched, through every crash, power loss, broken        *)
(* connection and edit of the source: the detailed steps implement         *)
(* Delivery.                                                               *)
DeliversAtomically == D!Spec

(* No frame says what it is and the trailer is not even framed, so the     *)
(* reader has to be where the writer was: every read meets what it is for, *)
(* however the attempt began, and nothing is left behind the trailer.      *)
FramesInStep ==
    /\ toR # <<>> =>
          /\ rPc = "awaitStart" => Head(toR).type = "start"
          /\ rPc = "stream" => Head(toR).type \in {"chunk", "eos"}
          /\ rPc = "trailer" => Head(toR).type = "hash"
    /\ rPc \in {"sync", "rename", "cleanup"} => toR = <<>>

(* A sidecar that parses vouches only for a true prefix of its file: what  *)
(* makes resuming from Len(partial) right.  It needs the source to stay    *)
(* put while it is sent.                                                   *)
PartialIsPrefix ==
    (meta \in Metas /\ partial # None)
        => \E n \in 0 .. Len(meta.sha.sha256) :
              partial = SubSeq(meta.sha.sha256, 1, n)

(* With a source that stays put while it is sent, no crash, resume or      *)
(* power loss ever makes the receiver reject a transfer.                   *)
NoMismatch == rPc # "mismatch"

(* The frames q take a reader of file from position m to position n: p[i]  *)
(* is where frame i starts, a chunk holds the blocks up to the next frame, *)
(* and the end of the stream and the trailer come at the end of the file.  *)
Positions(q, file, p) ==
    \A i \in 1 .. Len(q) :
        /\ q[i].type = "chunk" =>
              p[i] <= p[i + 1] /\ q[i].data = SubSeq(file, p[i] + 1, p[i + 1])
        /\ q[i].type # "chunk" => p[i + 1] = p[i]
        /\ q[i].type \in {"eos", "hash"} => p[i] = Len(file)

Carries(q, file, m, n) ==
    \E p \in [1 .. Len(q) + 1 -> 0 .. Len(file)] :
        Positions(q, file, p) /\ p[1] = m /\ p[Len(q) + 1] = n

(* The file the receiver was offered. *)
Offered == rSha.sha256

TrailerInFlight == toR # <<>> /\ toR[Len(toR)].type = "hash"

(* The sender reports success when the trailer is written, and nobody      *)
(* confirms it.  From then on the receiver needs nobody: what it has is a  *)
(* start of the offered file, the frames in flight are exactly the rest,   *)
(* and the trailer is the digest it was promised.                          *)
SuccessIsCovered ==
    TrailerInFlight =>
        LET n == IF rPc \in {"stream", "trailer"} THEN Len(partial) ELSE rOff IN
            /\ n <= Len(Offered)
            /\ n # 0 => partial = SubSeq(Offered, 1, n)
            /\ Carries(toR, Offered, n, Len(Offered))
            /\ toR[Len(toR)].sha = Sha256(Offered)

(* So a success that was reported comes true, unless the receiver itself   *)
(* or the connection still fails.                                          *)
SuccessArrives ==
    TrailerInFlight /\ link = "closing" /\ faults = 0 ~> rPc = "ok"

(* Once the source is left alone and nothing fails any more, retrying the  *)
(* transfer delivers it for good: no leftover on the receiver's disk, not  *)
(* even a poisoned prefix, makes every later attempt fail.                 *)
Heals == <>[](dest = source)

(* Every process of an attempt ends: neither peer waits for ever on one    *)
(* that failed, whatever the point of failure.                             *)
AttemptsEnd ==
    /\ SenderAttached ~> sPc = "idle"
    /\ rPc \notin Finished ~> rPc \in Finished

(* What the comments on Receiver.Run and the README say of a mismatch: the *)
(* partial file is kept for the next attempt to resume.  CheckPartial      *)
(* throws a partial of the full size away.                                 *)
MismatchIsResumable ==
    rPc = "mismatch" => MetaMatches /\ partial # None /\ ~TooLong
=============================================================================
