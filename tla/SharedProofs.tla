---------------------------- MODULE SharedProofs ----------------------------
(***************************************************************************)
(* Proofs about SharedPartial: what receivers that overlap can break is    *)
(* safe when only one of them works at a time, whatever the earlier ones   *)
(* were offered and wherever they stopped.                                 *)
(***************************************************************************)
EXTENDS SharedPartial, SequenceTheorems, TLAPS

Blocks == UNION {{c[i] : i \in 1 .. Len(c)} : c \in Contents}

SharedAssumption ==
    /\ Contents \subseteq Seq(Blocks)
    /\ None \notin Receiver \cup Contents

(* A receiver between CheckPartial and its return. *)
Working(r) == rPc[r] \notin {"check", "ok", "failed"}

OneAtATime == \A r, q \in Receiver : Working(r) /\ Working(q) => r = q

TypeInv ==
    /\ offer \in [Receiver -> Contents]
    /\ rPc \in [Receiver -> {"check", "drop", "open", "meta", "seed", "stream",
                             "rename", "cleanup", "ok", "failed"}]
    /\ rOff \in [Receiver -> Nat]
    /\ rFile \in [Receiver -> Receiver \cup {None}]
    /\ rAppends \in [Receiver -> BOOLEAN]
    /\ rHash \in [Receiver -> Seq(Blocks)]
    /\ data \in [Receiver -> Seq(Blocks)]
    /\ partial \in Receiver \cup {None}
    /\ dest \in Receiver \cup {None}
    /\ meta \in Contents \cup {None}

(* A receiver that has yet to open its file has made none, and the partial *)
(* file is never the one that was saved.                                   *)
FilesOK ==
    /\ \A r \in Receiver : rPc[r] \in {"check", "drop", "open"} => partial # r /\ dest # r
    /\ partial # None => partial # dest

PrefixOf(s, t) == Len(s) <= Len(t) /\ \A i \in 1 .. Len(s) : s[i] = t[i]

(* What is left on the disk can be resumed by whom the sidecar names. *)
LeftOK == partial # None /\ meta # None => PrefixOf(data[partial], meta)

SavedOK == dest # None => savedBy \in Receiver /\ data[dest] = offer[savedBy]

(* What a receiver knows of the files at each of its steps. *)
WorkOK(r) ==
    /\ rPc[r] \in {"check", "drop"} => rOff[r] = 0
    /\ rPc[r] \in {"check", "drop", "open"} => rHash[r] = <<>>
    /\ rPc[r] = "open" /\ rOff[r] # 0 =>
          partial # None /\ meta = offer[r] /\ Len(data[partial]) = rOff[r]
    /\ rPc[r] \in {"meta", "seed", "stream", "rename"} => partial # None /\ rFile[r] = partial
    /\ rPc[r] \in {"meta", "seed"} =>
          /\ Len(data[partial]) = rOff[r] /\ rHash[r] = <<>>
          /\ rOff[r] # 0 => meta = offer[r]
    /\ rPc[r] \in {"seed", "stream", "rename"} => meta = offer[r]
    /\ rPc[r] = "stream" => rHash[r] = data[partial]
    /\ rPc[r] = "rename" => data[partial] = offer[r]

SerialInv == TypeInv /\ FilesOK /\ LeftOK /\ SavedOK /\ \A r \in Receiver : WorkOK(r)

(* A write at the end of a file. *)
LEMMA WriteExtends ==
    ASSUME NEW s \in Seq(Blocks), NEW b \in Blocks
    PROVE  WriteAt(s, Len(s) + 1, b) = Append(s, b)
<1> DEFINE n == Len(s) + 1
           w == WriteAt(s, n, b)
<1>1. /\ Len(s) \in Nat /\ n \in Nat /\ s \in [1 .. Len(s) -> Blocks]
      /\ \A i \in 1 .. n : i # n => i <= Len(s) /\ i \in 1 .. Len(s)
    BY LenProperties
<1>2. w = [i \in 1 .. n |-> IF i = n THEN b ELSE s[i]]
    BY <1>1 DEF WriteAt
<1>3. w \in [1 .. n -> Blocks]
    BY <1>1, <1>2
<1>4. w \in Seq(Blocks)
    BY <1>1, <1>3, SeqDef
<1>5. Append(s, b) \in Seq(Blocks) /\ Len(Append(s, b)) = n
      /\ \A i \in 1 .. n : Append(s, b)[i] = IF i = n THEN b ELSE s[i]
    BY <1>1, AppendProperties
<1>6. Len(w) = n
    <2> DEFINE l == Len(w)
    <2> HIDE DEF w
    <2>1. l \in Nat /\ 1 .. l = 1 .. n /\ n \in Nat /\ n >= 1
        BY <1>1, <1>3, <1>4, LenProperties
    <2> HIDE DEF l, n
    <2>2. n \in 1 .. n
        BY ONLY <2>1
    <2>3. n <= l
        BY ONLY <2>1, <2>2
    <2>4. l \in 1 .. l
        BY ONLY <2>1, <2>3
    <2>5. l = n
        BY ONLY <2>1, <2>3, <2>4
    <2> QED
        BY <2>5 DEF l
<1>7. \A i \in 1 .. Len(w) : w[i] = Append(s, b)[i]
    BY <1>2, <1>5, <1>6
<1> HIDE DEF w
<1>8. w = Append(s, b)
    BY <1>4, <1>5, <1>6, <1>7, SeqEqual
<1> QED
    BY <1>8 DEF w

LEMMA PrefixGrows ==
    ASSUME NEW s \in Seq(Blocks), NEW t \in Seq(Blocks), PrefixOf(s, t), Len(s) < Len(t)
    PROVE  PrefixOf(Append(s, t[Len(s) + 1]), t)
<1> DEFINE u == Append(s, t[Len(s) + 1])
<1>1. Len(s) \in Nat /\ Len(t) \in Nat
    BY LenProperties
<1>2. Len(s) + 1 \in 1 .. Len(t)
    BY <1>1
<1>3. t[Len(s) + 1] \in Blocks
    BY <1>2, ElementOfSeq
<1>4. /\ Len(u) = Len(s) + 1 /\ u[Len(s) + 1] = t[Len(s) + 1]
      /\ \A i \in 1 .. Len(s) : u[i] = s[i]
    BY <1>1, <1>3, AppendProperties
<1> HIDE DEF u
<1>5. ASSUME NEW i \in 1 .. Len(u) PROVE u[i] = t[i]
    <2>1. i \in 1 .. Len(s) \/ i = Len(s) + 1
        BY <1>1, <1>4
    <2> QED
        BY <1>4, <2>1 DEF PrefixOf
<1>6. PrefixOf(u, t)
    BY <1>1, <1>4, <1>5 DEF PrefixOf
<1> QED
    BY <1>6 DEF u

LEMMA EmptyIsPrefix ==
    ASSUME NEW s \in Seq(Blocks), NEW t \in Seq(Blocks), Len(s) = 0
    PROVE  s = <<>> /\ PrefixOf(s, t)
<1>1. s = <<>>
    BY EmptySeq
<1>2. Len(t) \in Nat
    BY LenProperties
<1> QED
    BY <1>1, <1>2 DEF PrefixOf

(* The others, which have not begun or have ended, notice nothing of a     *)
(* step of r: it is enough that r's file is none of theirs.                *)
LEMMA OthersRest ==
    ASSUME TypeInv, TypeInv', NEW r \in Receiver, NEW q \in Receiver, q # r, WorkOK(q),
           rPc[q] \in {"check", "ok", "failed"}, rPc'[q] = rPc[q],
           rOff'[q] = rOff[q], rHash'[q] = rHash[q]
    PROVE  WorkOK(q)'
BY DEF WorkOK

(* A receiver that leaves CheckPartial or works is the only one that does. *)
LEMMA Alone ==
    ASSUME TypeInv, TypeInv', OneAtATime, OneAtATime', NEW r \in Receiver,
           Working(r) \/ Working(r)', NEW q \in Receiver, q # r, rPc'[q] = rPc[q]
    PROVE  rPc[q] \in {"check", "ok", "failed"}
BY DEF OneAtATime, Working

LEMMA InitSerial == SharedAssumption /\ Init => SerialInv
<1> SUFFICES ASSUME SharedAssumption, Init PROVE SerialInv
    OBVIOUS
<1>1. <<>> \in Seq(Blocks)
    BY EmptySeq
<1>2. TypeInv
    BY <1>1 DEF Init, TypeInv
<1>3. FilesOK /\ LeftOK /\ SavedOK
    BY DEF Init, FilesOK, LeftOK, SavedOK, SharedAssumption
<1>4. \A r \in Receiver : WorkOK(r)
    BY DEF Init, WorkOK
<1> QED
    BY <1>2, <1>3, <1>4 DEF SerialInv

(* What the blocks of a receiver's write are. *)
LEMMA ChunkWritten ==
    ASSUME SharedAssumption, SerialInv, NEW r \in Receiver, RecvChunk(r)
    PROVE  /\ rFile[r] = partial /\ partial \in Receiver /\ meta = offer[r]
           /\ offer[r] \in Seq(Blocks) /\ offer[r] \in Contents
           /\ rHash'[r] \in Seq(Blocks)
           /\ rHash' = [rHash EXCEPT ![r] = rHash'[r]]
           /\ data' = [data EXCEPT ![partial] = rHash'[r]]
           /\ PrefixOf(rHash'[r], offer[r])
<1> DEFINE h == rHash[r]
           b == offer[r][Len(h) + 1]
<1>1. /\ rPc[r] = "stream" /\ rFile[r] = partial /\ partial # None /\ meta = offer[r]
      /\ h = data[partial] /\ Len(h) < Len(offer[r])
    BY DEF SerialInv, WorkOK, RecvChunk, Step
<1>2. /\ partial \in Receiver /\ offer[r] \in Contents /\ offer[r] \in Seq(Blocks)
      /\ h \in Seq(Blocks) /\ meta # None
    BY <1>1 DEF SerialInv, TypeInv, SharedAssumption
<1>3. Len(h) \in Nat /\ Len(offer[r]) \in Nat
    BY <1>2, LenProperties
<1>4. Len(h) + 1 \in 1 .. Len(offer[r])
    BY <1>1, <1>3
<1>5. b \in Blocks
    BY <1>2, <1>4, ElementOfSeq
<1>6. Append(h, b) \in Seq(Blocks)
    BY <1>2, <1>5, AppendProperties
<1>7. WriteAt(h, Len(h) + 1, b) = Append(h, b)
    BY <1>2, <1>5, WriteExtends
<1>8. rHash' = [rHash EXCEPT ![r] = Append(h, b)] /\ rHash'[r] = Append(h, b)
    BY DEF SerialInv, TypeInv, RecvChunk
<1>9. data' = [data EXCEPT ![partial] = Append(h, b)]
    <2>1. data' = [data EXCEPT ![partial] = WriteAt(h, Len(h) + 1, b)]
        BY <1>1 DEF RecvChunk
    <2> QED
        BY <1>7, <2>1
<1>10. PrefixOf(h, offer[r])
    BY <1>1, <1>2 DEF SerialInv, LeftOK
<1>11. PrefixOf(Append(h, b), offer[r])
    BY <1>1, <1>2, <1>10, PrefixGrows
<1> QED
    BY <1>1, <1>2, <1>6, <1>8, <1>9, <1>11

LEMMA StepTypes ==
    ASSUME SharedAssumption, SerialInv, NEW r \in Receiver,
           \/ CheckPartial(r) \/ DropPartial(r) \/ CreatePartial(r) \/ AppendToPartial(r)
           \/ WriteMeta(r) \/ SeedHash(r) \/ RecvChunk(r) \/ VerifyTrailer(r)
           \/ Rename(r) \/ Cleanup(r) \/ Stop(r)
    PROVE  TypeInv'
<1> USE DEF localVars, diskVars, Step
<1>1. TypeInv
    BY DEF SerialInv
<1>2. CASE CheckPartial(r)
    <2>1. partial # None => Len(data[partial]) \in Nat
        BY <1>1, LenProperties DEF TypeInv
    <2> QED
        BY <1>1, <1>2, <2>1 DEF CheckPartial, TypeInv
<1>3. CASE DropPartial(r) \/ AppendToPartial(r) \/ WriteMeta(r)
    <2>1. CASE DropPartial(r)
        BY <1>1, <2>1 DEF DropPartial, TypeInv
    <2>2. CASE AppendToPartial(r)
        BY <1>1, <2>2 DEF AppendToPartial, TypeInv
    <2>3. CASE WriteMeta(r)
        BY <1>1, <2>3 DEF WriteMeta, TypeInv
    <2> QED
        BY <1>3, <2>1, <2>2, <2>3
<1>4. CASE CreatePartial(r)
    <2> DEFINE f == IF partial = None THEN r ELSE partial
    <2>1. f \in Receiver /\ <<>> \in Seq(Blocks)
        BY <1>1, EmptySeq DEF TypeInv
    <2>2. /\ partial' = f /\ rFile' = [rFile EXCEPT ![r] = f] /\ data' = [data EXCEPT ![f] = <<>>]
          /\ rPc' = [rPc EXCEPT ![r] = "meta"]
          /\ UNCHANGED <<offer, rOff, rAppends, rHash, dest, meta>>
        BY <1>4 DEF CreatePartial
    <2> HIDE DEF f
    <2> QED
        BY <1>1, <2>1, <2>2 DEF TypeInv
<1>5. CASE SeedHash(r)
    <2>1. rHash' \in [Receiver -> Seq(Blocks)]
        <3>1. CASE rOff[r] = 0
            BY <1>1, <1>5, <3>1 DEF SeedHash, TypeInv
        <3>2. CASE rOff[r] # 0
            <4>1. /\ partial \in Receiver /\ data[partial] \in Seq(Blocks)
                  /\ rOff[r] \in Nat /\ Len(data[partial]) >= rOff[r]
                BY <1>1, <1>5, <3>2 DEF SeedHash, TypeInv
            <4>2. \A i \in 1 .. rOff[r] : data[partial][i] \in Blocks
                BY <4>1, ElementOfSeq, LenProperties
            <4>3. SubSeq(data[partial], 1, rOff[r]) \in Seq(Blocks)
                BY <4>1, <4>2, SubSeqProperties
            <4> QED
                BY <1>1, <1>5, <3>2, <4>3 DEF SeedHash, TypeInv
        <3> QED
            BY <3>1, <3>2
    <2> QED
        BY <1>1, <1>5, <2>1 DEF SeedHash, TypeInv
<1>6. CASE RecvChunk(r)
    <2> DEFINE h == rHash'[r]
    <2>1. /\ rHash' = [rHash EXCEPT ![r] = h] /\ data' = [data EXCEPT ![partial] = h]
          /\ h \in Seq(Blocks) /\ partial \in Receiver
        BY <1>6, ChunkWritten
    <2>2. /\ rPc' = [rPc EXCEPT ![r] = "stream"]
          /\ UNCHANGED <<offer, rOff, rFile, rAppends, partial, dest, meta>>
        BY <1>6 DEF RecvChunk
    <2> HIDE DEF h
    <2> QED
        BY <1>1, <2>1, <2>2 DEF TypeInv
<1>7. CASE VerifyTrailer(r) \/ Rename(r) \/ Cleanup(r) \/ Stop(r)
    BY <1>1, <1>7 DEF VerifyTrailer, Rename, Cleanup, Stop, TypeInv
<1> QED
    BY <1>2, <1>3, <1>4, <1>5, <1>6, <1>7

(* What a step of one receiver that works alone leaves behind. *)
LEMMA StepSerial ==
    ASSUME SharedAssumption, SerialInv, TypeInv', OneAtATime, OneAtATime', NEW r \in Receiver,
           \/ CheckPartial(r) \/ DropPartial(r) \/ CreatePartial(r) \/ AppendToPartial(r)
           \/ WriteMeta(r) \/ SeedHash(r) \/ RecvChunk(r) \/ VerifyTrailer(r)
           \/ Rename(r) \/ Cleanup(r) \/ Stop(r)
    PROVE  FilesOK' /\ LeftOK' /\ SavedOK' /\ WorkOK(r)'
<1> USE DEF localVars, diskVars, Step
<1>1. /\ TypeInv /\ FilesOK /\ LeftOK /\ SavedOK /\ WorkOK(r)
      /\ offer[r] \in Contents /\ offer[r] \in Seq(Blocks) /\ offer[r] # None
      /\ partial # None => data[partial] \in Seq(Blocks) /\ Len(data[partial]) \in Nat
      /\ <<>> \in Seq(Blocks) /\ Len(<<>>) = 0
    <2>1. TypeInv /\ FilesOK /\ LeftOK /\ SavedOK /\ WorkOK(r)
        BY DEF SerialInv
    <2>2. offer[r] \in Contents /\ offer[r] \in Seq(Blocks) /\ offer[r] # None
        BY <2>1 DEF TypeInv, SharedAssumption
    <2>3. partial # None => data[partial] \in Seq(Blocks)
        BY <2>1 DEF TypeInv
    <2>4. partial # None => Len(data[partial]) \in Nat
        BY <2>3, LenProperties
    <2> QED
        BY <2>1, <2>2, <2>3, <2>4, EmptySeq
<1>2. CASE CheckPartial(r)
    <2>1. /\ rPc[r] = "check" /\ rPc' = [rPc EXCEPT ![r] = rPc'[r]]
          /\ rPc'[r] \in {"open", "drop"} /\ UNCHANGED <<rHash, offer, data, partial, dest, savedBy>>
          /\ meta' \in {meta, None}
        BY <1>1, <1>2 DEF CheckPartial, TypeInv
    <2>2. FilesOK'
        BY <1>1, <2>1 DEF FilesOK, TypeInv
    <2>3. LeftOK' /\ SavedOK'
        BY <1>1, <2>1 DEF LeftOK, SavedOK, PrefixOf
    <2>4. /\ rPc'[r] = "drop" => rOff'[r] = 0
          /\ rOff'[r] # 0 => partial # None /\ meta' = offer[r] /\ rOff'[r] = Len(data[partial])
        BY <1>1, <1>2, <2>1 DEF CheckPartial, WorkOK, TypeInv
    <2> QED
        BY <1>1, <2>1, <2>2, <2>3, <2>4 DEF WorkOK
<1>3. CASE DropPartial(r)
    <2>1. /\ rPc[r] = "drop" /\ rPc' = [rPc EXCEPT ![r] = "open"] /\ partial' = None
          /\ UNCHANGED <<offer, rOff, rFile, rAppends, rHash, data, dest, meta, savedBy>>
        BY <1>3 DEF DropPartial
    <2>2. rPc'[r] = "open" /\ rOff[r] = 0 /\ rHash[r] = <<>>
        BY <1>1, <2>1 DEF WorkOK, TypeInv
    <2>3. FilesOK'
        BY <1>1, <2>1 DEF FilesOK, TypeInv, SharedAssumption
    <2>4. LeftOK' /\ SavedOK'
        BY <1>1, <2>1 DEF LeftOK, SavedOK
    <2>5. WorkOK(r)'
        BY <2>1, <2>2 DEF WorkOK
    <2> QED
        BY <2>3, <2>4, <2>5
<1>4. CASE CreatePartial(r)
    <2> DEFINE f == IF partial = None THEN r ELSE partial
    <2>1. /\ rPc[r] = "open" /\ rOff[r] = 0 /\ partial' = f /\ f \in Receiver /\ f # None /\ f # dest
          /\ rFile' = [rFile EXCEPT ![r] = f] /\ data' = [data EXCEPT ![f] = <<>>]
          /\ rPc' = [rPc EXCEPT ![r] = "meta"]
          /\ UNCHANGED <<offer, rOff, rAppends, rHash, dest, meta, savedBy>>
        BY <1>1, <1>4 DEF CreatePartial, FilesOK, TypeInv, SharedAssumption
    <2>2. \A q \in Receiver : q # r /\ rPc[q] \in {"check", "drop", "open"} => q # f
        BY <1>1 DEF FilesOK
    <2> HIDE DEF f
    <2>3. FilesOK'
        BY <1>1, <2>1, <2>2 DEF FilesOK, TypeInv
    <2>4. data'[f] = <<>> /\ \A g \in Receiver : g # f => data'[g] = data[g]
        BY <1>1, <2>1 DEF TypeInv
    <2>5. meta # None => PrefixOf(<<>>, meta)
        <3> SUFFICES ASSUME meta # None PROVE PrefixOf(<<>>, meta)
            OBVIOUS
        <3>1. meta \in Seq(Blocks)
            BY <1>1 DEF TypeInv, SharedAssumption
        <3> QED
            BY <1>1, <3>1, EmptyIsPrefix
    <2>6. LeftOK' /\ SavedOK'
        BY <1>1, <2>1, <2>4, <2>5 DEF LeftOK, SavedOK, TypeInv
    <2>7. rPc'[r] = "meta" /\ rFile'[r] = f /\ rHash[r] = <<>>
        BY <1>1, <2>1 DEF WorkOK, TypeInv
    <2> QED
        BY <1>1, <2>1, <2>3, <2>4, <2>6, <2>7 DEF WorkOK
<1>5. CASE AppendToPartial(r)
    <2>1. FilesOK' /\ LeftOK' /\ SavedOK'
        BY <1>1, <1>5 DEF AppendToPartial, FilesOK, LeftOK, SavedOK, TypeInv
    <2> QED
        BY <1>1, <1>5, <2>1 DEF AppendToPartial, WorkOK, TypeInv
<1>6. CASE WriteMeta(r)
    <2>1. PrefixOf(data[partial], offer[r])
        <3>1. CASE rOff[r] = 0
            BY <1>1, <1>6, <3>1, EmptyIsPrefix DEF WriteMeta, WorkOK
        <3>2. CASE rOff[r] # 0
            BY <1>1, <1>6, <3>2 DEF WriteMeta, WorkOK, LeftOK
        <3> QED
            BY <3>1, <3>2
    <2>2. FilesOK' /\ LeftOK' /\ SavedOK'
        BY <1>1, <1>6, <2>1 DEF WriteMeta, FilesOK, LeftOK, SavedOK, TypeInv
    <2> QED
        BY <1>1, <1>6, <2>2 DEF WriteMeta, WorkOK, TypeInv
<1>7. CASE SeedHash(r)
    <2>1. rPc[r] = "seed" /\ partial # None /\ Len(data[partial]) = rOff[r] /\ rHash[r] = <<>>
        BY <1>1, <1>7 DEF SeedHash, WorkOK
    <2>2. rHash'[r] = data[partial]
        <3>1. CASE rOff[r] = 0
            BY <1>1, <1>7, <2>1, <3>1, EmptyIsPrefix DEF SeedHash
        <3>2. CASE rOff[r] # 0
            <4>1. rHash'[r] = SubSeq(data[partial], 1, Len(data[partial]))
                BY <1>1, <1>7, <2>1, <3>2 DEF SeedHash, TypeInv
            <4> QED
                BY <1>1, <2>1, <4>1, SubSeqFull
        <3> QED
            BY <3>1, <3>2
    <2>3. FilesOK' /\ LeftOK' /\ SavedOK'
        BY <1>1, <1>7 DEF SeedHash, FilesOK, LeftOK, SavedOK, TypeInv
    <2> QED
        BY <1>1, <1>7, <2>1, <2>2, <2>3 DEF SeedHash, WorkOK, TypeInv
<1>8. CASE RecvChunk(r)
    <2>1. /\ rPc[r] = "stream" /\ rPc'[r] = "stream" /\ rPc' = rPc
          /\ UNCHANGED <<offer, rOff, rFile, rAppends, partial, dest, meta, savedBy>>
        BY <1>1, <1>8 DEF RecvChunk, TypeInv
    <2>2. /\ data'[partial] = rHash'[r] /\ \A g \in Receiver : g # partial => data'[g] = data[g]
          /\ PrefixOf(data'[partial], offer[r]) /\ meta = offer[r] /\ rFile[r] = partial
          /\ partial \in Receiver
        BY <1>1, <1>8, ChunkWritten DEF TypeInv
    <2>3. FilesOK' /\ LeftOK'
        BY <1>1, <2>1, <2>2 DEF FilesOK, LeftOK
    <2>4. SavedOK'
        <3>1. dest # None => dest \in Receiver /\ dest # partial
            BY <1>1, <2>2 DEF FilesOK, TypeInv, SharedAssumption
        <3> QED
            BY <1>1, <2>1, <2>2, <3>1 DEF SavedOK
    <2> QED
        BY <1>1, <2>1, <2>2, <2>3, <2>4 DEF WorkOK, SharedAssumption
<1>9. CASE VerifyTrailer(r)
    BY <1>1, <1>9 DEF VerifyTrailer, FilesOK, LeftOK, SavedOK, WorkOK, TypeInv
<1>10. CASE Rename(r)
    <2>1. /\ rPc[r] = "rename" /\ rPc' = [rPc EXCEPT ![r] = "cleanup"]
          /\ partial # None /\ dest' = partial /\ partial' = None /\ savedBy' = r
          /\ UNCHANGED <<offer, rOff, rFile, rAppends, rHash, data, meta>>
        BY <1>10 DEF Rename
    <2>2. rPc'[r] = "cleanup" /\ data[partial] = offer[r]
        BY <1>1, <2>1 DEF WorkOK, TypeInv
    <2>3. FilesOK'
        BY <1>1, <2>1 DEF FilesOK, TypeInv, SharedAssumption
    <2>4. LeftOK' /\ SavedOK'
        BY <2>1, <2>2 DEF LeftOK, SavedOK
    <2>5. WorkOK(r)'
        BY <2>1, <2>2 DEF WorkOK
    <2> QED
        BY <2>3, <2>4, <2>5
<1>11. CASE Cleanup(r)
    BY <1>1, <1>11 DEF Cleanup, FilesOK, LeftOK, SavedOK, WorkOK, TypeInv
<1>12. CASE Stop(r)
    BY <1>1, <1>12 DEF Stop, FilesOK, LeftOK, SavedOK, WorkOK, TypeInv
<1> QED
    BY <1>2, <1>3, <1>4, <1>5, <1>6, <1>7, <1>8, <1>9, <1>10, <1>11, <1>12

LEMMA SerialSteps ==
    ASSUME SharedAssumption, SerialInv, OneAtATime, OneAtATime', [Next]_vars
    PROVE  SerialInv'
<1>1. CASE UNCHANGED vars
    BY <1>1 DEF vars, localVars, diskVars, SerialInv, TypeInv, FilesOK, LeftOK, SavedOK, WorkOK
<1>2. CASE Next
    <2>1. PICK r \in Receiver :
             \/ CheckPartial(r) \/ DropPartial(r) \/ CreatePartial(r) \/ AppendToPartial(r)
             \/ WriteMeta(r) \/ SeedHash(r) \/ RecvChunk(r) \/ VerifyTrailer(r)
             \/ Rename(r) \/ Cleanup(r) \/ Stop(r)
        BY <1>2 DEF Next
    <2>2. TypeInv /\ TypeInv'
        BY <2>1, StepTypes DEF SerialInv
    <2>3. FilesOK' /\ LeftOK' /\ SavedOK' /\ WorkOK(r)'
        BY <2>1, <2>2, StepSerial
    <2>4. ASSUME NEW q \in Receiver, q # r
          PROVE  WorkOK(q)'
        <3> USE <2>1 DEF Step, localVars, diskVars, CheckPartial, DropPartial, CreatePartial,
                AppendToPartial, WriteMeta, SeedHash, RecvChunk, VerifyTrailer, Rename,
                Cleanup, Stop
        <3>1. rPc'[q] = rPc[q]
            BY <2>2, <2>4 DEF TypeInv
        <3>2. rOff'[q] = rOff[q]
            BY <2>2, <2>4 DEF TypeInv
        <3>3. rHash'[q] = rHash[q]
            BY <2>2, <2>4 DEF TypeInv
        <3>4. CASE Working(r) \/ Working(r)'
            BY ONLY <2>2, <2>4, <3>1, <3>2, <3>3, <3>4, Alone, OthersRest, SerialInv, OneAtATime,
               OneAtATime' DEF SerialInv
        <3>5. CASE ~(Working(r) \/ Working(r)')
            <4>1. Stop(r)
                BY <2>2, <3>5 DEF Working, TypeInv
            <4> QED
                BY <2>2, <2>4, <3>1, <4>1 DEF SerialInv, WorkOK
        <3> QED
            BY <3>4, <3>5
    <2> QED
        BY <2>2, <2>3, <2>4 DEF SerialInv
<1> QED
    BY <1>1, <1>2

(* Receivers that take turns at a destination, each starting when the last *)
(* one has returned or was killed, resume only what is a prefix of their   *)
(* own file and never write to the one that was saved, whatever each was   *)
(* offered.                                                                *)
THEOREM SerialInvariance ==
    ASSUME SharedAssumption
    PROVE  Spec /\ []OneAtATime => []SerialInv
<1>1. Init => SerialInv
    BY InitSerial
<1>2. SerialInv /\ OneAtATime /\ OneAtATime' /\ [Next]_vars => SerialInv'
    BY SerialSteps
<1> QED
    BY <1>1, <1>2, PTL DEF Spec

(* So the destination then holds what was offered to the receiver that     *)
(* saved it: the overlap is the only way to the file nobody offered that   *)
(* the run of this module finds.                                           *)
THEOREM TurnsSaveTheOffered ==
    ASSUME SharedAssumption
    PROVE  Spec /\ []OneAtATime => []SavedIsOffered
<1>1. SerialInv => SavedIsOffered
    BY DEF SerialInv, SavedOK, SavedIsOffered
<1> QED
    BY <1>1, SerialInvariance, PTL
=============================================================================
