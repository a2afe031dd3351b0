--------------------------- MODULE SharedPartial ---------------------------
(***************************************************************************)
(* Several receivers that save to the same destination at once: a user     *)
(* starts a new attempt while an old one still hangs, or two senders offer *)
(* files of one name.  Each runs CheckPartial and Receiver.Run as in       *)
(* Transfer, here with what they share: the paths <dest>, <dest>.partial   *)
(* and <dest>.partial.meta, and files that stay open under a path that has *)
(* moved on.  A receiver makes at most one file, so a file is named by the *)
(* receiver that made it.                                                  *)
(*                                                                         *)
(* The senders' sources do not change, so each receiver is sent the blocks *)
(* of what it was offered, from the offset it asked for.                   *)
(***************************************************************************)
EXTENDS Integers, Sequences

CONSTANTS
    Receiver,  \* receiver processes
    Contents,  \* what they may be offered
    Hole,      \* a block that was skipped over
    None

VARIABLES
    offer,     \* the content each receiver is offered
    rPc,       \* where it is
    rOff,      \* startOffset
    rFile,     \* the file it has open
    rAppends,  \* whether it was opened with O_APPEND
    rHash,     \* blocks fed to its rolling hash
    data,      \* content of each file
    partial,   \* the file at <dest>.partial
    dest,      \* the file at <dest>
    meta,      \* the content <dest>.partial.meta vouches for
    savedBy    \* the receiver that renamed last

localVars == <<rOff, rFile, rAppends, rHash>>
diskVars == <<data, partial, dest, meta, savedBy>>
vars == <<offer, rPc, localVars, diskVars>>

Init ==
    /\ offer \in [Receiver -> Contents]
    /\ rPc = [r \in Receiver |-> "check"]
    /\ rOff = [r \in Receiver |-> 0]
    /\ rFile = [r \in Receiver |-> None]
    /\ rAppends = [r \in Receiver |-> FALSE]
    /\ rHash = [r \in Receiver |-> <<>>]
    /\ data = [r \in Receiver |-> <<>>]
    /\ partial = None /\ dest = None /\ meta = None /\ savedBy = None

Step(r, from, to) ==
    /\ rPc[r] = from
    /\ rPc' = [rPc EXCEPT ![r] = to]
    /\ UNCHANGED offer

CheckPartial(r) ==
    /\ UNCHANGED <<rFile, rAppends, rHash, data, partial, dest, savedBy>>
    /\ LET unusable == meta # offer[r]
                        \/ (partial # None /\ Len(data[partial]) >= Len(offer[r]))
       IN
       \/ /\ meta = None
          /\ Step(r, "check", "open")
          /\ UNCHANGED <<rOff, meta>>
       \/ /\ meta # None /\ unusable
          /\ Step(r, "check", "drop")
          /\ meta' = None
          /\ UNCHANGED rOff
       \/ /\ meta # None /\ ~unusable
          /\ Step(r, "check", "open")
          /\ IF partial = None
               THEN meta' = None /\ UNCHANGED rOff
               ELSE rOff' = [rOff EXCEPT ![r] = Len(data[partial])] /\ UNCHANGED meta

DropPartial(r) ==
    /\ Step(r, "drop", "open")
    /\ partial' = None
    /\ UNCHANGED <<localVars, data, dest, meta, savedBy>>

(* os.Create: a new file, or the one that is there, truncated. *)
CreatePartial(r) ==
    /\ Step(r, "open", "meta")
    /\ rOff[r] = 0
    /\ LET f == IF partial = None THEN r ELSE partial IN
        /\ partial' = f
        /\ rFile' = [rFile EXCEPT ![r] = f]
        /\ data' = [data EXCEPT ![f] = <<>>]
    /\ UNCHANGED <<rOff, rAppends, rHash, dest, meta, savedBy>>

AppendToPartial(r) ==
    /\ Step(r, "open", "meta")
    /\ rOff[r] # 0
    /\ partial # None
    /\ rFile' = [rFile EXCEPT ![r] = partial]
    /\ rAppends' = [rAppends EXCEPT ![r] = TRUE]
    /\ UNCHANGED <<rOff, rHash, diskVars>>

WriteMeta(r) ==
    /\ Step(r, "meta", "seed")
    /\ meta' = offer[r]
    /\ UNCHANGED <<localVars, data, partial, dest, savedBy>>

(* The prefix is read through the path, not through the open file. *)
SeedHash(r) ==
    /\ Step(r, "seed", "stream")
    /\ IF rOff[r] = 0
         THEN UNCHANGED rHash
         ELSE /\ partial # None
              /\ Len(data[partial]) >= rOff[r]
              /\ rHash' = [rHash EXCEPT ![r] = SubSeq(data[partial], 1, rOff[r])]
    /\ UNCHANGED <<rOff, rFile, rAppends, diskVars>>

(* The file after a write of block b at its end, or at position n of it.   *)
WriteAt(file, n, b) ==
    [i \in 1 .. (IF n > Len(file) THEN n ELSE Len(file)) |->
        IF i = n THEN b ELSE IF i <= Len(file) THEN file[i] ELSE Hole]

RecvChunk(r) ==
    /\ Step(r, "stream", "stream")
    /\ Len(rHash[r]) < Len(offer[r])
    /\ LET n == Len(rHash[r]) + 1
           f == rFile[r]
           at == IF rAppends[r] THEN Len(data[f]) + 1 ELSE n
       IN /\ data' = [data EXCEPT ![f] = WriteAt(@, at, offer[r][n])]
          /\ rHash' = [rHash EXCEPT ![r] = Append(@, offer[r][n])]
    /\ UNCHANGED <<rOff, rFile, rAppends, partial, dest, meta, savedBy>>

(* All was received, and the hash is the trailer; f.Sync and f.Close. *)
VerifyTrailer(r) ==
    /\ Step(r, "stream", "rename")
    /\ rHash[r] = offer[r]
    /\ UNCHANGED <<localVars, diskVars>>

(* Whatever file is at the path now. *)
Rename(r) ==
    /\ Step(r, "rename", "cleanup")
    /\ partial # None
    /\ dest' = partial
    /\ partial' = None
    /\ savedBy' = r
    /\ UNCHANGED <<localVars, data, meta>>

Cleanup(r) ==
    /\ Step(r, "cleanup", "ok")
    /\ meta' = None
    /\ UNCHANGED <<localVars, data, partial, dest, savedBy>>

(* Killed, or a step that cannot be done returns its error. *)
Stop(r) ==
    /\ rPc[r] \notin {"ok", "failed"}
    /\ rPc' = [rPc EXCEPT ![r] = "failed"]
    /\ UNCHANGED <<offer, localVars, diskVars>>

Next == \E r \in Receiver :
    \/ CheckPartial(r)
    \/ DropPartial(r)
    \/ CreatePartial(r)
    \/ AppendToPartial(r)
    \/ WriteMeta(r)
    \/ SeedHash(r)
    \/ RecvChunk(r)
    \/ VerifyTrailer(r)
    \/ Rename(r)
    \/ Cleanup(r)
    \/ Stop(r)

Spec == Init /\ [][Next]_vars

(* What the README says of integrity: a receiver hashes what it wrote to   *)
(* disk and renames nothing that does not match.  Once every receiver has  *)
(* ended, the destination holds what was offered to the one that saved it. *)
SavedIsOffered ==
    (dest # None /\ \A r \in Receiver : rPc[r] \in {"ok", "failed"})
        => data[dest] = offer[savedBy]
=============================================================================
