# p2pft in TLA+

p2pft sends one file from one machine to another. A relay introduces the two
sides by a short code; the bytes then go over a direct TLS connection, and an
interrupted transfer leaves a partial file that the next attempt may resume.
This directory holds TLA+ models of it, the TLC configurations that check them
and proofs of their main invariants for TLAPS.

    tlc -config transfer_edits.cfg MCTransfer     # one run
    tlapm TransferProofs.tla                      # one module of proofs

## 1. Inventory

| Component | Source | State it keeps | Operations |
| --- | --- | --- | --- |
| File transfer | `internal/transfer/{sender,receiver,resume,checksum,protocol}.go` | sender: size, digest, read position; receiver: expected size and digest, resume offset, rolling hash; on disk `<dest>`, `<dest>.partial`, `<dest>.partial.meta` | `Sender.Run`, `Receiver.Run`, `CheckPartial`, `WriteMeta`, `FileSHA256`, `HashingWriter.Write` |
| Framing | `internal/transfer/framing.go` | none | `WriteFrame`, `ReadFrame`, `WriteEOS`, `WriteHash`, `ReadHash`, control frames |
| Relay handlers | `internal/relay/server.go` | one goroutine per WebSocket | `ServeHTTP`, `handleSender`, `handleReceiver` |
| Session store | `internal/relay/session.go` | code to session map under a mutex; per session `SenderAddrs`, `SenderReady`, `ReceiverJoined` | `Create`, `Claim`, the reaper, `Shutdown` |
| Codes | `internal/signaling/codes.go` | none | `GenerateCode` (32^3 codes) |
| Signaling client | `internal/signaling/*.go` | the WebSocket | hello, created/found/joined, peer addresses |
| Commands | `cmd/p2pft/{send,receive}.go` | the attempt | stat, hash, dial the relay, listen, prompt, connect, transfer |
| Connection race and pairing | `internal/nat/punch.go`, `cmd/p2pft/pairing.go` | dials in flight, accept tries left | `RaceConnect`, preambles, `acceptWithCode` |
| TLS identities | `internal/tlsx/tlsx.go` | an ephemeral certificate | generate, pin |
| Progress bar | `internal/progress/bar.go` | last render, done flag | `Set`, `Finish` |
| Address discovery, CLI, relay main | `internal/nat/discover.go`, `cmd/p2pft/{main,util}.go`, `cmd/p2pft-relay/main.go` | none of their own | interfaces, flags, prompt, server start |

How they interact:

 - The sender's command hashes the file, connects to the relay, gets a code,
   sends its addresses and waits. The relay's handler for it stores a session
   and parks on the session's channel.
 - The receiver's command presents the code. Its handler removes the session
   from the store, waits for the sender's addresses, answers with `SessionFound`
   (size, digest, certificate fingerprint), waits for the receiver's addresses
   and puts them in the channel. The sender's handler forwards them.
 - The sender dials every address at once; the first connection to come up
   carries a preamble, the TLS handshake and then the transfer protocol.
 - The receiver's disk is all that survives from one attempt to the next. The
   relay keeps everything in memory.

What is hard about it (the full list, with source lines, is in `PROJECT.json`
under "hazards"):

 - crashes and power losses between any two steps on the receiver's disk, whose
   steps are not atomic together: truncate sidecar / write sidecar / append /
   sync / rename / remove sidecar;
 - a source that is edited between the stat, the hash, the streaming, and from
   one attempt to the next, so that a partial file is a prefix of nothing;
 - a connection that ends in an orderly way at a frame boundary, which the
   receiver's loop takes for the end of the stream;
 - handlers of the relay that share a store and a channel: simultaneous claims,
   a claim before the addresses are there, clean-up by code after the code has
   changed hands, a select whose two cases are ready at once;
 - a race of dials whose losers reach the receiver's accept queue before the
   winner, addresses that mean another machine on the sender's side, and two
   deadlines that run at once in the accept loop;
 - receivers that share a destination;
 - timeouts on every wait of the relay and none on the reads of a transfer.

What makes each component correct:

 - transfer: the destination is only ever replaced at once by the file that was
   offered; success means that it was; resuming continues a true prefix; a
   bad prefix does not make every retry fail; both processes end;
 - relay: a code leads one receiver to one sender; `SessionFound` is complete;
   nothing is dropped in the channel; no handler leaves its session behind; every
   handler ends and every code comes free;
 - connection race and pairing: the pair that ends up in TLS is sender and
   receiver of one session; every losing connection is closed; the limits of the
   accept loop are enough for an honest sender.

## 2. Modules

| Module | What it is |
| --- | --- |
| `Delivery` | what a transfer promises: accept an offer, replace the destination by it once, or abandon it |
| `Transfer` | both ends of the transfer protocol, the receiver's disk, attempts, faults |
| `MCTransfer` | contents for TLC |
| `TransferProofs` | proofs about `Transfer` |
| `QuietProofs` | proofs about `Transfer` when the source stays put while it is sent |
| `FramesProofs` | proofs about the frames in flight in `Transfer` |
| `SharedPartial` | several receivers that save to one destination |
| `MCSharedPartial` | contents for TLC |
| `SharedProofs` | proofs about `SharedPartial` when receivers take turns |
| `Rendezvous` | what the relay promises: offer, withdraw, match with one receiver, introduce |
| `Relay` | the relay's handlers, store, channels, reaper and time |
| `MCRelay` | symmetry for TLC |
| `RelayProofs` | proofs about `Relay` |
| `Restart` | `Relay` with users who come back after an interrupted transfer |
| `Pairing` | what connecting promises: each end that goes on has the other end of its own session |
| `Connect` | the race of dials, the preambles, the accept loop and the pinned handshake |
| `MCConnect` | sessions, addresses and where they lead, for TLC |
| `ConnectProofs`, `ReasonProofs`, `DrainProofs` | proofs about `Connect`: pairing, reasons of failure, the race's accounts |

`Transfer`, `Relay` and `Connect` each implement their abstract module under a
refinement mapping (`D == INSTANCE Delivery WITH ...`,
`R == INSTANCE Rendezvous WITH ...`, `P == INSTANCE Pairing WITH ...`). In the order
of the program the three follow each other: `Rendezvous` introduces the two
commands (`ReceiverJoined` in `Connect`), `Pairing` connects them (`Introduce` in
`Transfer`), `Delivery` moves the file.

### Transfer

The state is that of the two processes, of the connection and of the receiver's
disk. `sPc` and `rPc` name the next step of `Sender.Run` and `Receiver.Run` (and
of the commands around them); `rHash` is what the `HashingWriter` was fed;
`toR` and `request` are what is in flight.

A content is a short sequence of blocks; a digest wraps the content it was taken
of, so digests are equal exactly when contents are. `ChunkSize` blocks make a
frame.

| Action | Code |
| --- | --- |
| `Stat`, `Hash` | `runSend`: `os.Stat`, `FileSHA256` (the latter in one step) |
| `Introduce` | relay, race, TLS and prompt: both peers hold a connection, and the receiver has the size and digest of `SessionFound` |
| `AnswerResumeRequest`, `SendChunk`, `SendEOS`, `SendHash` | `Sender.Run` |
| `CheckPartial`, `DropPartial` | `CheckPartial`, with the two `os.Remove` calls apart, since it may stop in between; either may fail, and nobody looks |
| `SendResumeRequest`, `ReadTransferStart`, `OpenPartial` | start of `Receiver.Run` |
| `TruncateMeta`, `WriteMeta` | `os.WriteFile` of the sidecar, truncation and write apart |
| `SeedHash`, `RecvChunk`, `RecvEOS`, `RecvClose`, `VerifyTrailer`, `Sync`, `Rename`, `Cleanup` | rest of `Receiver.Run` |
| `SenderSeesBreak`, `ReceiverSeesBreak` | error of a read or write |
| `EditSource`, `BreakLink`, `SourceFails`, `SenderStops`, `ReceiverStops`, `PowerLoss` | the environment |

The connection is "up", "closing" when the sender has closed, or was killed, behind its
last frame (`crypto/tls` reports `io.EOF` at a record boundary either way), or "broken". On a closing connection the receiver still reads everything
that was sent; on a broken one any read may fail before the frames in flight
were read. `RecvClose` is the read that meets the orderly end: the error wraps
`io.EOF`, so the stream loop ends as it does after an end-of-stream frame.

Every attempt is a fresh pair of processes. The context of the commands is never
cancelled, so the watcher that closes the connection on cancellation has no
action. `CleanupPartial` has no caller and has none either.

`ReceiverStops` is a kill as well as an error from the disk; inside a write,
part of the chunk may have reached the file. `PowerLoss` cuts a file whose data
was not synced to some prefix, and an unsynced sidecar may come back
unreadable. Operations on the directory are taken to be durable in their order:
that is an assumption about the file system, which the code makes too.

### Relay

A handler makes at most one session, so a session is named by the connection of
its sender. `sessions` maps codes to sessions (the store), `ready` and `joined`
are the two channels, `claimed` and `forwarded` are the handlers' locals.

| Action | Code |
| --- | --- |
| `SenderHello`, `ReceiverHello`, `Refuse` | `ServeHTTP` up to the first message |
| `Create`, `Collide`, `NoCode` | `handleSender`'s code loop |
| `SendSessionCreated`, `ReadSenderAddrs`, `Signal`, `SenderGivesUp` | up to `close(sess.SenderReady)`, with the error paths |
| `TakeReceiver`, `Expire`, `Forward` | the select and what follows it |
| `ClaimSession`, `SenderIsReady`, `SenderNotReady`, `SendSessionFound`, `ReceiverGivesUp`, `ReadReceiverAddrs`, `Handoff` | `handleReceiver` |
| `Reap`, `Shutdown`, `ReaperExits` | `runReaper` and `Server.Shutdown` |
| `Tick` | a minute |

Time is counted in minutes. `SessionTTL` and `ReaperEvery` are counted exactly:
a timer that is due holds the clock until it fired. The other deadlines of the
relay are under a minute, so such a wait sees at most one tick and may run out
at any moment. A read, write or wait that may fail may fail at any time; a
disconnect of a client is no more than that, because nobody reads the connection
of a parked sender. The wait of a parked sender is ended by its receiver or by
its timer, as in the code. A restart of the relay is a fresh `Init`. `Shutdown` is modelled
because `Server` offers it; in the repository only tests call it, so that the reaper of the
running program never stops.

### Restart

`Relay` knows nothing of the transfer that follows an introduction. `Restart` adds as much of it
as the relay's answer to a second attempt depends on: a transfer between two introduced
commands breaks off (`Interrupt`: the error of `sender.Run` or `receiver.Run`, at which the
command ends), and the users of it come back on other connections (`SenderBack`: `p2pft send`, whose
hello has no code; `ReceiverBack`: `p2pft receive` with the code of the first attempt).
Every other step is one of `Relay` (`RelayStep`). `Returning` are the connections kept for the
second attempt.

### Connect

A session is a sender together with the receiver that presented its code, and
stands for the pair of certificates that the relay exchanged: "the fingerprint is
the expected one" is "the peer is of my session". An address is one of those
that a receiver advertises, or the one the relay saw it at. Every address is
dialled once, so a connection is `<<session, address>>`. Where a dial ends up is
`reach`: at the session's receiver, at another's (a loopback or private address
means another machine on the sender's side), at a stranger's listener, or
nowhere. It is fixed during a behaviour, and `Routes` are the choices.

| Action | Code |
| --- | --- |
| `ReceiverJoined`, `NotJoined` | `runSend`, up to the call of `RaceConnect` |
| `Establish`, `DialFails` | the dialling goroutines and the listener's backlog |
| `TakeWinner`, `TakeFailure`, `Drain` | `RaceConnect`'s result loop and its drain goroutine |
| `WritePreamble` | `writePreamble` |
| `SendPeerAddrs`, `Decline` | the prompt of `runReceive` and what it sends |
| `Accept`, `AcceptTimesOut`, `PreambleMatches`, `PreambleIsWrong`, `PreambleTimesOut` | `acceptWithCode` and `readPreamble`; `Skip` is the closing of a connection and the count of tries |
| `ClientFinish`, `ServerFinish`, `ClientFails`, `ServerFails`, `ClientTimesOut`, `ServerTimesOut` | the handshakes with `ClientConfig` and `ServerConfig`; in TLS 1.3 the client finishes first, so the server may still reject it |
| `SenderStops`, `ReceiverStops` | a command is killed; its system closes its sockets |
| `Reset` | the network resets a connection |
| `Vanish` | the sender's machine drops off the network without a reset |
| `Tick` | a second |

The result channel is the set of dials that are "up" or "failed"; it has room for
all of them, as the code's has. The queue of a listener is a set: connections
arrive there in any order. The two deadlines of the accept loop are counted, and
a deadline that is due holds the clock; the deadlines of the dials, of
`writePreamble` and of the handshakes may strike at any moment, and `late` remembers
which sessions a timeout struck in. A connection that was reset (`broken`) takes no more writes,
and an end that uses it fails; what was written before may still be read at the other end
or be lost. A receiver that is killed before it sent its addresses is one that
declined, a sender that is killed before it was told of a receiver is `NotJoined`. Two sessions may have the same code (`Codings`), since the relay
gives a code out again once it was claimed.

### SharedPartial

A receiver as in `Transfer`, several times over, with the paths they share. A
file is an object of its own, so that a process may have a file open that is no
longer at its path: `partial` and `dest` name files, `data` holds their content.
Each receiver is fed the blocks of its offer, so senders, network and edits are
left out, and so are power losses and a sidecar cut short: they are
`Transfer`'s subject. A write without `O_APPEND` goes to its own position, also in
a file that another receiver has truncated.

## 3. Runs

| Run | Question | Bounds |
| --- | --- | --- |
| `transfer_edits` | Is the destination only ever replaced by the offered file, at once, with faults and edits at any moment (`HashCoversPartial`, `CleanFinish`, `DeliversAtomically`)? Does every process end, and do retries deliver the file once faults and edits stop (`AttemptsEnd`, `Heals`)? Does every read meet a frame of its kind (`FramesInStep`)? | 3 contents, 2 edits, 2 faults |
| `transfer_quiet` | When the source stays put while it is sent, is what the sidecar vouches for a true prefix, and does the receiver never reject a transfer? (`PartialIsPrefix`, `NoMismatch`) When the sender reports success, is all that the receiver needs on its way (`SuccessIsCovered`), and does it arrive (`SuccessArrives`)? | 2 edits, 3 faults |
| `transfer_mismatch` | Is a partial file kept after a mismatch one the next attempt resumes? No | no fault, 2 edits |
| `relay_safety` | Is a code a pairing of one with one, with nothing dropped and nothing left behind? Why does a session leave the store (`RemovedForAReason`)? | 3 connections, 2 codes, TTL 2, reaper 1 |
| `relay_live` | Does every handler end and every code come free? (`HandlersEnd`, `CodeFreed`) | 2 connections, 1 code |
| `relay_aba` | Does a handler's clean-up only remove its own session? No | 3 connections, 1 code |
| `relay_same_code` | A transfer was interrupted and its sender is back and waits: can the receiver come back with the same code? No | 2 connections, 2 that come back, 2 codes |
| `relay_lifetime` | Is a code gone when its TTL is over? No | 1 connection |
| `connect` | Do only chosen connections reach the handshake (`HandshakesOnChosen`) and only the ends of one session the transfer (`ImplementsPairing`)? How long is the accept loop (`AcceptBounded`), and why may an attempt fail (`FailsForAReason`)? Does a race wait for all of its dials, and its drain goroutine for all that are left (`GivesUpLast`, `DrainExact`)? | 2 sessions with 2 and 1 addresses, 4 routings, codes alike or not, 2 tries, deadlines 2 and 1, no resets |
| `connect_live` | Is every losing connection closed (`LosersClosed`), and does every wait end (`AttemptsEnd`)? With a try for each connection, do losers that are reset, closed or silent ever cost a receiver its winner (`FailsForAReason`)? | 1 session, 3 addresses, 3 routings, 3 tries, 1 reset |
| `connect_skips` | Does the accept loop close losers only? No | as `connect_live`, 2 tries |
| `shared_partial` | Is what two receivers leave at one destination the offer of the one that saved it? No | 2 receivers, 2 contents of 2 blocks |

The bounds. The contents `<<a, a, b>>`, `<<a, b, b>>` and `<<b>>` give two
files of one length that share a prefix (so that a stale prefix can look right
and be wrong) and a shorter one (so that a partial can be too long). With chunks of
two blocks, three blocks are a full and a short chunk, a partial file may end
inside a chunk, and two frames on the wire are less than a transfer, so that the
writer blocks. Two faults allow a second failure while recovering from the
first, three a failed `os.Remove` in between; two edits allow the source to come
back to what it was. In the relay, three connections give two
senders and a receiver or one sender and two receivers, the smallest casts of
every race listed, and two codes let two senders hold sessions at once or
collide. One code is enough for `relay_aba`, and makes reuse of a code frequent; `relay_same_code` needs
a second one, or the sender that comes back could only draw its old code. TTL
2 and sweep 1 keep the order of the two timers (in the code, 10 minutes and 1)
and the minute between them.

In `connect`, one receiver advertises two addresses, so that its sender has a
loser, and one of them may lead to the other receiver, whose own sender then
competes with it: with its own connection that makes two in one queue, and two
tries are just enough for one of them to be skipped. Of the routings, one is two sessions
that meet at one receiver, so that there are more connections than tries. A third address in
`connect_live` gives two losers, of which one may come up after the winner was
taken and one before. The accept deadline of 2 and the preamble
deadline of 1 keep the order of the real 30 and 1 seconds: the accept deadline can pass
between two preambles or during one. Resets are in `connect_live`: with two
sessions they make `connect` too large for TLC, and the proofs of section 5 cover them for any
number of sessions and resets (`MaxResets`). Three tries for three connections in
`connect_live` leave a receiver no excuse in their number. Kills are in both runs.

All the safety properties of the passing runs are also proved for every value of the
constants (section 5).

Fairness. `Transfer`: the sender's steps, the receiver's steps and `Introduce`
are weakly fair. A running process keeps running, a process blocked on a dead
connection is told by TCP keepalive (which Go turns on for dialled and accepted
connections), and the users try again: `Stat`
among the sender's steps is the user's next `p2pft send`. No fault or edit is fair, and
their budgets are the meaning of "once faults and edits stop". `Relay`: the
steps of each handler after its first message, the sweep and the clock are weakly
fair. Goroutines are scheduled and timers fire; a send to a client that has no
deadline is taken to end. Nothing makes a client connect, and nothing makes anyone
shut the relay down. `Connect`: each sender, each receiver, each dial, each drain
goroutine and the clock are weakly fair. Goroutines are scheduled, the dials
have a common timeout, the relay hangs up on a sender that waits too long, and
users answer the prompt or are timed out by the relay. `Vanish`, kills and resets are not fair;
`Vanish` stops all the sender's steps.

## 4. What the runs found

 - `relay_aba`. `handleSender` cleans up with `Claim(code)`, which removes
   whatever is stored under that code. If the code has been claimed, or swept, and then
   given to another sender, the second sender's session is deleted by the first
   sender's timeout. It takes a repeated draw among 32768 codes within ten
   minutes.
 - `relay_same_code`. The README says an interrupted transfer can be restarted with
   the same code. A code is spent by the claim, whatever becomes of the transfer, and the sender
   that comes back gets a new one. In the trace two commands are introduced, their transfer
   breaks off, the sender comes back and is parked under its new code, and the receiver that
   comes back with the old one is told that it was not found. Resuming is unaffected,
   because it goes by digest.
 - `relay_lifetime`. `SessionTTL` is called the maximum lifetime of an unclaimed
   code. `Claim` does not look at the age; the bound that holds is
   `SessionTTL + ReaperEvery` (`LifetimeBound`).
 - `transfer_mismatch`. The README and the comment on `Receiver.Run` say that the
   partial file is kept after a mismatch to be resumed. It is kept, but it is
   as long as the offer, and `CheckPartial` throws such a file away. That is just as well:
   `Heals` fails without it.

 - `connect_skips`. A comment says that a connection whose preamble cannot be read
   is a loser's or a faulty peer's. It may also be the one that the sender chose,
   when its preamble comes later than `preambleTimeout`: the receiver closes it,
   and the sender has no other.
 - `shared_partial`. Receivers with one destination share the partial file and
   nothing locks it. One can truncate or overwrite what another has verified and is about
   to rename, and the other then reports success for a file that nobody offered.
 - Without a run of its own: the comment on `acceptWithCode` says that the total
   time cannot exceed the listener's deadline. The deadline is not that of `readPreamble`, so
   the loop may end up to one `preambleTimeout` later. `AcceptBounded` gives
   the bound that holds.

## 5. Proofs

Proved for every value of the constants that satisfies the modules' `ASSUME`s:

 - `TransferProofs`: `TypeOK`, `HashCoversPartial`, `CleanFinish`, and that
   `Transfer` implements `Delivery` (`ImplementsDelivery`);
 - `RelayProofs`: `TypeOK`, `ClaimExclusive`, `FoundHasAddrs`, `HandoffHasRoom`,
   `NoOrphans`, `LifetimeBound`, `RemovedForAReason`, and that `Relay` implements `Rendezvous`
   (`ImplementsAbstractRelay`).

 - `FramesProofs`: `FramesInStep`, and `SuccessIsCovered` for
   `EditsDuringRun = FALSE`;
 - `QuietProofs`, for `EditsDuringRun = FALSE`: `PartialIsPrefix` and `NoMismatch`;
 - `ConnectProofs`: `TypeOK`, `HandshakesOnChosen`, `AcceptBounded`, and that
   `Connect` implements `Pairing` (`ImplementsAbstractPairing`);
 - `ReasonProofs`: `FailsForAReason`;
 - `DrainProofs`: `DrainExact` and `GivesUpLast`;
 - `SharedProofs`: `SavedIsOffered`, which the run `shared_partial` refutes, under the hypothesis
   `[]OneAtATime` that no two receivers are between `CheckPartial` and their return at once.

Each rests on an inductive invariant (`IInv`; with it `QInv` in `QuietProofs`, `FramesInv` in
`FramesProofs`, `ReasonInv` in `ReasonProofs` and `DrainInv` in `DrainProofs`; `SerialInv` in
`SharedProofs`), named conjunct by conjunct.

For `Transfer`, `DirtyOK` says which files may hold unsynced data (no destination
does); `PartialOK` what the partial file is at each point of the receiver, in particular that
it is as long as the resume offset until the hash is seeded and equal to
the hashed bytes from then on; `DigestOK` that trailers in flight and the
digest that the receiver compares with are those of the running attempt; `VerifiedOK`
that past the comparison the partial file is the offered one. The comparison is
between the trailer and the rolling hash, so "the destination is the offered file"
needs both `PartialOK` (the hash is of the file) and `DigestOK` (the
trailer is the offered digest): neither is inductive without the other.

For `Relay`, `HandlerOK` ties the locals of a handler to where it is;
`SessionOK` ties the store to the handlers (a stored session's sender is at a point before
its exits, and no receiver holds it); `ChannelOK` says who may be in a session's
channel (the one receiver that claimed it, after its handoff); `AgeOK`
bounds ages while the reaper runs by the time since its last sweep
(`age <= TTL + sinceReap`, from which `LifetimeBound` follows). `ClaimExclusive`
alone is not inductive: that a session which was claimed is never stored
again needs to know that its sender's handler is past `Create`.

For the quiet `Transfer`, `QInv` is added to `IInv`. `PartialIsPrefix` is not inductive
because a chunk is appended without a look at where it belongs. `WireOK` says that the
frames in flight are adjoining stretches of the offered file, from where the
receiver stands to where the sender reads: there are positions, one per
frame, such that each chunk holds the blocks between two of them and the
end of the stream and the trailer are at the end of the file. Three lemmas
(`CarriesNothing`, `CarriesMore`, `CarriesRest`) say what a new connection, a write and a
read do to it, and the steps use nothing else of the frames. `SourceOK` makes the
sender read the file that was offered, `RequestOK` makes the first position the
resume offset. `NoMismatch` follows: a trailer in front means that the receiver
stands at the end of the file.

The frames have no types on the wire, so `FramesInStep` is about the two ends and not
about a frame. By itself it says nothing of the second frame in flight, which is the
first one after the next read. `FramesInv` adds what may follow what (`OrderOK`), ties the last
frame to where the sender is (`LastOK`: an empty connection means that the reader is just
behind the writer) and the first to where the receiver is (`HeadOK`), and says whose turn
it is (`TurnsOK`). A read then only needs that its tail begins as the order allows, a write
only the last frame (`Taken`, `Written`). With the positions of `QInv` this gives
`SuccessIsCovered`: a trailer can only be the last frame, so the frames in flight reach
to the end of the file.

For `SharedPartial`, each receiver in turn finds a partial file that is a prefix of what
the sidecar names (`LeftOK`), whoever left it and wherever that one stopped: `CheckPartial`
either takes over that name or removes it before the file is touched. `FilesOK` says that the file
that was saved is none that anybody will write to. The hypothesis is used where one
receiver's knowledge of the disk (`WorkOK`) meets another's step (`Alone`); without it each
conjunct fails, and the run shows how.

For `Connect`, `SenderOK` says that preambles are on winners only, `ReceiverOK`
what a receiver has checked about the connection in hand, `FinishedOK` that a
client only finishes with its own receiver. The refinement needs the
last: the preamble check alone lets a sender of another session with the same code
pass. `ClockOK` bounds the wait by how long the current preamble
has been waited for (`waited < AcceptTimeout + preWait`), which is what makes
`AcceptBounded` inductive.

`FailsForAReason` is proved by counting, and needs `ReasonInv` on top. `QueueOK`
says that a connection queued or in hand has come up and was never skipped
before, so that each try is another connection (`TriesOK`: as many tries as
skipped connections). `WinnerOK` keeps the winner out of that count: a receiver
skips its own sender's connection only on a timeout or when it was closed or reset, and
a winner is closed only by a sender that has failed or was killed. So a receiver that
has no try left and no other excuse has one connection more than tries
(`TriesUsedUp`). A sender fails because its receiver did, or the other way round;
`FailureOK` states the two reasons side by side, in terms that no later step
takes away (`ReasonsLast`: a session with a timeout, a kill, a vanished sender or a winner
that was reset is `Excused` for good), and each step gives them for the command that it
ends (`NewReasons`).

`DrainExact` counts as well. While a race runs, what was received and what is outstanding
make up its dials (`RaceOK`); each step that takes a result out of the channel takes one
from the set of outstanding dials, so the number that the winner hands to the drain goroutine,
`len(candidates) - i - 1`, is what is left at that moment, and each later receive keeps the two
equal. `GivesUpLast` is the same account with nothing left.

`RemovedForAReason` is an action property of `Relay` and follows from `IInv`, step by step. Three
kinds of steps remove a session: a claim, the sweep, and a handler that cleans up by its
code (`RemovesUnderItsCode`). In the third the session that goes is the handler's
own, or the handler's own had left the store before, which is what `relay_aba` shows and the property
names: there is no other way.

`LeftoverAssumption` of `Transfer` (no file and no sidecar are different from any
file and sidecar) is used in `QuietProofs` only.

Only model-checked: all liveness (`Heals`, `AttemptsEnd`, `SuccessArrives`, `HandlersEnd`,
`CodeFreed`, `LosersClosed`). The proof system at hand does not prove
liveness from fairness.

## 6. What is not modelled, and why

 - Byte-level framing and JSON: messages are whole and typed. Length prefixes and
   limits are sequential code over a reliable stream: no interleaving, crash or order of
   events bears on them.
 - TLS and SHA-256 are taken to be what they promise, and two certificates to be
   different; `GenerateCert` is a call to the crypto library.
 - The progress bar. `Set` and `Finish` could race, but the commands call them from
   one goroutine.
 - What the two users read on their screens. The protocol has no acknowledgement: a sender
   succeeds once everything is sent. `SuccessIsCovered` and `SuccessArrives` say what that
   is worth: the file, unless the receiver or the connection still fails.
 - The three machines composed into one. `ReceiverJoined` of `Connect` and `Introduce` of
   `Transfer` are where one ends and the next begins.
 - Address discovery, flags, prompts, rendering and logging: no state of their own
   that a property here is about.
 - The sizes of wordlists; a code is a member of a set.

## 7. Plan

 1. Done: `Delivery`, `Transfer`, `Rendezvous`, `Relay`, `Pairing`, `Connect`,
    `SharedPartial`, their runs, and the proofs of section 5.
 2. Next: invariants of the abstract modules `Delivery`, `Rendezvous` and `Pairing`, proved
    there and carried over by the refinement theorems.
 3. `EndToEnd`: relay, pairing and transfer composed at the level of their
    abstract modules. Left for last, since the three share no state but the hand-over.
