----------------------------- MODULE EncodeProofs -----------------------------
(* Whatever the files, their lengths and the codecs' answers: the buffer of  *)
(* compress() is never given a length it has no room for, what the workers   *)
(* hand to the archive keeps it readable from both ends, and what a reader   *)
(* takes out of it are the bytes of the files.                               *)
EXTENDS Encode, ZipWriterProofs, DataLemmas

IsSeq(s) == \E S : s \in Seq(S)

Part(p) ==
  /\ DOMAIN p = {"of", "bytes", "cap", "total", "fits", "ended", "whole"}
  /\ p.bytes \in Nat /\ p.cap \in Nat /\ p.total \in Nat

(* What the files, the worker and its buffers are.                           *)
Inputs ==
  /\ opts.password \in BOOLEAN
  /\ listed \in Seq(Nat)
  /\ k \in Nat \ {0}
  /\ DOMAIN disk = DOMAIN listed
  /\ \A f \in DOMAIN listed : disk[f] \in Seq(Nat) /\ disk[f] # <<>>

Read == raw \in [mapped : BOOLEAN, len : Nat, bytes : Seq(Nat)]

(* While a file is packed in parts there is one of them for each chunk.      *)
Parts ==
  at = "parts" =>
    /\ DOMAIN parts = 1..Chunks
    /\ \A i \in 1..Chunks : Part(parts[i])

Packed ==
  /\ DOMAIN out = {"parts", "bytes", "eos"}
  /\ IsSeq(out.parts) /\ out.bytes \in Nat

(* The scratch a worker keeps between files has always been taken by the     *)
(* time the next one is packed: its capacity is never older than one call.   *)
Room ==
  /\ scratch = 0
  /\ buf.len \in Nat /\ buf.cap \in Nat /\ buf.len <= buf.cap

EncodeIInv == Inputs /\ Read /\ Parts /\ Packed /\ Room

-----------------------------------------------------------------------------
LEMMA Facts ==
  /\ FileLens \subseteq Nat
  /\ Chunk \in Nat \ {0} /\ PartGrow \in Nat \ {0} /\ PartSlack \in Nat
  /\ DeflateSlack \in Nat \ {0, 1}
  BY EncodeAssumption

LEMMA SameInputs ==
  ASSUME Inputs, UNCHANGED <<opts, listed, disk>>, k' \in Nat \ {0}
  PROVE  Inputs'
  BY DEF Inputs

LEMMA FileNow ==
  ASSUME Inputs, k <= Len(listed)
  PROVE  /\ listed[k] \in Nat /\ LenNow(k) \in Nat /\ VersionNow(k) \in Nat
<1>1. k \in DOMAIN listed
  BY DEF Inputs
<1>2. listed[k] \in Nat /\ disk[k] \in Seq(Nat) /\ disk[k] # <<>>
  BY <1>1 DEF Inputs
<1>3. Len(disk[k]) \in Nat \ {0}
  BY <1>2
<1> QED BY <1>2, <1>3 DEF LenNow, VersionNow, Last

LEMMA AppendedTyped ==
  ASSUME Inputs, Read, k <= Len(listed), NEW n \in Nat
  PROVE  Appended(n) \in [mapped : BOOLEAN, len : Nat, bytes : Seq(Nat)]
<1>1. Bytes(n, VersionNow(k)) \in Seq(Nat)
  BY FileNow DEF Bytes
<1>2. raw.bytes \o Bytes(n, VersionNow(k)) \in Seq(Nat)
  BY <1>1 DEF Read
<1>3. raw.len + n \in Nat
  BY DEF Read
<1>4. Appended(n) = [mapped |-> raw.mapped, len |-> raw.len + n,
                     bytes |-> raw.bytes \o Bytes(n, VersionNow(k))]
  BY DEF Appended, Read
<1> QED BY <1>2, <1>3, <1>4 DEF Read

LEMMA ReadableIsNat ==
  ASSUME Inputs, Read, k <= Len(listed), NEW end \in Nat
  PROVE  Readable(end) \subseteq Nat
  BY FileNow DEF Readable, Read

LEMMA ChunkLens ==
  ASSUME Read
  PROVE  /\ Chunks \in Nat
         /\ \A i \in 1..Chunks : ChunkLen(i) \in Nat /\ FirstRoom(ChunkLen(i)) \in Nat
<1> DEFINE a == raw.len + Chunk - 1
<1>1. a \in Nat /\ raw.len \in Nat /\ Chunk \in Nat \ {0}
  BY Facts DEF Read
<1>2. a \div Chunk \in Nat /\ (a \div Chunk) * Chunk <= a
  <2> HIDE DEF a
  <2> QED BY <1>1
<1>3. Chunks \in Nat /\ Chunks * Chunk <= raw.len + Chunk - 1
  BY <1>2 DEF Chunks
<1>4. ASSUME NEW i \in 1..Chunks PROVE ChunkLen(i) \in Nat
  <2>1. i * Chunk <= Chunks * Chunk
    BY <1>1, <1>3
  <2>2. (i - 1) * Chunk \in Int /\ (i - 1) * Chunk = i * Chunk - Chunk
    BY <1>1
  <2>3. i * Chunk \in Int /\ Chunks * Chunk \in Int
    BY <1>1, <1>3
  <2>4. (i - 1) * Chunk <= raw.len - 1
    BY <2>1, <2>2, <2>3, <1>1, <1>3
  <2>5. raw.len - (i - 1) * Chunk \in Nat
    BY <2>2, <2>4, <1>1
  <2> HIDE DEF a
  <2> QED BY <2>5, <1>1 DEF ChunkLen, Lesser
<1>5. \A n \in Nat : FirstRoom(n) \in Nat
  <2>1. \A n \in Nat : n \div 100 \in Nat
    OBVIOUS
  <2> QED BY <2>1, Facts DEF FirstRoom
<1> QED BY <1>3, <1>4, <1>5

LEMMA RoomOnReserve ==
  ASSUME NEW cap \in Nat, NEW len \in Nat, NEW more \in Nat
  PROVE  Reserve(cap, len, more) \in Nat /\ (len <= cap => Reserve(cap, len, more) >= len + more)
  BY DEF Reserve, Greater

LEMMA OnePart == ASSUME NEW n \in Nat, out' = Alone(n) PROVE Packed'
<1>1. \A r : <<r>> \in Seq({r})
  OBVIOUS
<1>2. IsSeq(out'.parts) /\ out'.bytes = n /\ DOMAIN out' = {"parts", "bytes", "eos"}
  BY <1>1 DEF Alone, IsSeq
<1> QED BY <1>2 DEF Packed, IsSeq

LEMMA OnePartMore ==
  ASSUME Packed, NEW r, NEW n \in Nat,
         out' = [parts |-> Append(out.parts, r), bytes |-> out.bytes + n, eos |-> out.eos]
  PROVE  Packed'
<1>1. PICK S : out.parts \in Seq(S)
  BY DEF Packed, IsSeq
<1>2. Append(out.parts, r) \in Seq(S \cup {r})
  <2>1. out.parts \in Seq(S \cup {r})
    BY <1>1
  <2> QED BY <2>1
<1>3. IsSeq(out'.parts) /\ out'.bytes \in Nat /\ DOMAIN out' = {"parts", "bytes", "eos"}
  BY <1>2 DEF IsSeq, Packed
<1> QED BY <1>3 DEF Packed, IsSeq

LEMMA InitEncodeIInv == EncodeInit => EncodeIInv
<1> SUFFICES ASSUME EncodeInit PROVE EncodeIInv
  OBVIOUS
<1>1. Inputs
  <2>1. listed \in Seq(Nat)
    <3>1. PICK n \in 0..MaxEntries : listed \in [1..n -> FileLens]
      BY DEF EncodeInit
    <3>4. n \in Nat
      BY ZipAssumption
    <3>5. listed \in [1..n -> Nat]
      BY <3>1, Facts
    <3>2. n \in Nat /\ listed = [i \in 1..n |-> listed[i]] /\ \A i \in 1..n : listed[i] \in Nat
      BY <3>4, <3>5
    <3>3. [i \in 1..n |-> listed[i]] \in Seq(Nat)
      BY <3>2
    <3> QED BY <3>2, <3>3
  <2>2. \A f \in DOMAIN listed : disk[f] = <<listed[f]>> /\ listed[f] \in Nat
    BY <2>1 DEF EncodeInit
  <2>3. \A f \in DOMAIN listed : disk[f] \in Seq(Nat) /\ disk[f] # <<>>
    <3>1. \A n \in Nat : <<n>> \in Seq(Nat) /\ <<n>> # <<>>
      OBVIOUS
    <3> QED BY <2>2, <3>1
  <2>4. opts.password \in BOOLEAN
    BY DEF EncodeInit
  <2>5. k \in Nat \ {0} /\ DOMAIN disk = DOMAIN listed
    BY DEF EncodeInit
  <2> QED BY <2>1, <2>3, <2>4, <2>5 DEF Inputs
<1>2. Packed
  <2>1. out.parts \in Seq({0})
    BY DEF EncodeInit, NoOut
  <2> QED BY <2>1 DEF EncodeInit, NoOut, Packed, IsSeq
<1> QED BY <1>1, <1>2 DEF EncodeInit, EncodeIInv, Read, NoRaw, Parts, Room, NoBuf

-----------------------------------------------------------------------------
(* One lemma for the steps that read, one for those that pack.               *)

ReadStep == ReadMapped \/ StartRead \/ ReadSome \/ ReadsEof \/ GcdCalls \/ ReadFails

LEMMA ReadStepKeeps == ASSUME EncodeIInv, ReadStep PROVE EncodeIInv'
<1> USE DEF EncodeIInv
<1>1. /\ k <= Len(listed) /\ at' # "parts"
      /\ UNCHANGED <<vars, opts, disk, listed, k, crc, buf, scratch, parts, out, done>>
  BY DEF ReadStep, ReadMapped, StartRead, ReadSome, ReadsEof, GcdCalls, GcdHandler,
         ReadFails, Worker, AfterDone
<1>2. Read'
  <2>1. CASE ReadMapped
    BY <2>1, FileNow DEF ReadMapped, Read, Worker
  <2>2. CASE StartRead
    BY <2>2 DEF StartRead, Read, NoRaw
  <2>3. CASE ReadSome
    <3>1. PICK n \in Readable(LenNow(k)) : raw' = Appended(n)
      BY <2>3 DEF ReadSome
    <3> QED BY <3>1, <1>1, FileNow, ReadableIsNat, AppendedTyped DEF Read
  <2>4. CASE ReadsEof \/ ReadFails
    BY <2>4 DEF ReadsEof, ReadFails, Read
  <2>5. CASE GcdCalls
    <3>1. \A n \in Nat : Appended(n) \in [mapped : BOOLEAN, len : Nat, bytes : Seq(Nat)]
      BY <1>1, AppendedTyped
    <3>2. Lesser(LenNow(k), listed[k]) \in Nat
      BY <1>1, FileNow DEF Lesser
    <3>3. \A n \in Readable(Lesser(LenNow(k), listed[k])) \cup {0} : n \in Nat
      BY <1>1, <3>2, ReadableIsNat
    <3>4. \E n \in Nat : raw' = Appended(n) \/ raw' = raw
      BY <2>5, <3>3 DEF GcdCalls, GcdHandler
    <3> QED BY <3>1, <3>4 DEF Read
  <2> QED BY <2>1, <2>2, <2>3, <2>4, <2>5 DEF ReadStep
<1>3. Inputs'
  BY <1>1, SameInputs DEF Inputs
<1>4. Packed' /\ Room' /\ Parts'
  BY <1>1 DEF Packed, IsSeq, Room, Parts
<1> QED BY <1>2, <1>3, <1>4

(* Steps that leave file, parts and output alone.                            *)
LEMMA FileChangesKeeps ==
  ASSUME EncodeIInv, NEW f \in DOMAIN listed, FileChanges(f) PROVE EncodeIInv'
<1> USE DEF EncodeIInv
<1>1. PICK n \in FileLens : disk' = [disk EXCEPT ![f] = Append(@, n)]
  BY DEF FileChanges
<1>2. /\ UNCHANGED <<opts, listed, k, raw, buf, scratch, parts, out>>
      /\ UNCHANGED at
  BY DEF FileChanges
<1>3. Inputs'
  <2>1. disk[f] \in Seq(Nat) /\ n \in Nat
    BY Facts DEF Inputs
  <2>2. Append(disk[f], n) \in Seq(Nat) /\ Append(disk[f], n) # <<>>
    BY <2>1
  <2>3. /\ DOMAIN disk' = DOMAIN listed
        /\ \A g \in DOMAIN listed : disk'[g] = IF g = f THEN Append(disk[f], n) ELSE disk[g]
    BY <1>1 DEF Inputs
  <2> QED BY <1>2, <2>2, <2>3 DEF Inputs
<1>4. Read' /\ Packed' /\ Room' /\ Parts'
  BY <1>2 DEF Read, Packed, IsSeq, Room, Parts, Chunks, Part
<1> QED BY <1>3, <1>4

(* Seven steps keep what has been read and the place of the worker.          *)
LEMMA StepsAlone ==
  ASSUME EncodeIInv, UNCHANGED <<opts, listed, disk, raw>>, k' \in Nat \ {0},
         at' # "parts", Packed', Room'
  PROVE  EncodeIInv'
<1>1. Inputs'
  BY SameInputs DEF EncodeIInv
<1> QED BY <1>1 DEF EncodeIInv, Read, Parts

LEMMA KilledKeeps == ASSUME EncodeIInv, Killed PROVE EncodeIInv'
<1>1. Packed' /\ Room'
  BY DEF Killed, EncodeIInv, Packed, IsSeq, Room
<1> QED BY <1>1, StepsAlone DEF Killed, EncodeIInv, Inputs

LEMMA TakeCrcKeeps == ASSUME EncodeIInv, TakeCrc PROVE EncodeIInv'
<1>1. Packed' /\ Room'
  BY DEF TakeCrc, EncodeIInv, Packed, IsSeq, Room
<1> QED BY <1>1, StepsAlone DEF TakeCrc, Worker, EncodeIInv, Inputs

LEMMA PackStoreKeeps == ASSUME EncodeIInv, PackStore PROVE EncodeIInv'
<1>1. Packed'
  BY OnePart DEF PackStore, EncodeIInv, Read
<1>2. Room'
  BY DEF PackStore, EncodeIInv, Room, ScratchAfter
<1> QED BY <1>1, <1>2, StepsAlone DEF PackStore, Worker, EncodeIInv, Inputs

(* The reservation is of the bound less the capacity, on a vector of no      *)
(* bytes: enough because that capacity is zero.                              *)
LEMMA MakeRoomKeeps == ASSUME EncodeIInv, MakeRoom PROVE EncodeIInv'
<1>1. Packed'
  BY DEF MakeRoom, EncodeIInv, Packed, IsSeq
<1>2. Room'
  <2> DEFINE bound == DeflateBound(raw.len)
             cap == IF scratch < bound THEN Reserve(scratch, 0, bound - scratch) ELSE scratch
  <2>1. bound \in Nat \ {0} /\ scratch = 0
    BY Facts DEF DeflateBound, EncodeIInv, Read, Room
  <2>2. cap \in Nat /\ cap >= bound
    <3> HIDE DEF bound
    <3>1. bound - scratch \in Nat /\ bound - scratch = bound
      BY <2>1
    <3>2. Reserve(0, 0, bound) \in Nat /\ Reserve(0, 0, bound) >= bound
      BY <2>1, RoomOnReserve
    <3> QED BY <2>1, <3>1, <3>2
  <2>3. buf' = [len |-> bound, cap |-> cap] /\ scratch' = 0
    BY DEF MakeRoom, ScratchAfter
  <2> HIDE DEF bound, cap
  <2> QED BY <2>1, <2>2, <2>3 DEF Room
<1> QED BY <1>1, <1>2, StepsAlone DEF MakeRoom, Worker, EncodeIInv, Inputs

LEMMA PackDeflateKeeps == ASSUME EncodeIInv, PackDeflate PROVE EncodeIInv'
<1>1. Packed'
  BY OnePart DEF PackDeflate, EncodeIInv, Room
<1>2. Room'
  BY DEF PackDeflate, EncodeIInv, Room, NoBuf
<1> QED BY <1>1, <1>2, StepsAlone DEF PackDeflate, Worker, EncodeIInv, Inputs

LEMMA PackOtherKeeps == ASSUME EncodeIInv, PackOther PROVE EncodeIInv'
<1>1. Packed'
  BY OnePart DEF PackOther, EncodeIInv, Read
<1>2. Room'
  BY DEF PackOther, EncodeIInv, Room
<1> QED BY <1>1, <1>2, StepsAlone DEF PackOther, Worker, EncodeIInv, Inputs

LEMMA WriteEncodedKeeps == ASSUME EncodeIInv, WriteEncoded PROVE EncodeIInv'
<1>1. Packed'
  <2>1. out'.parts \in Seq({0}) /\ out'.bytes = 0 /\ DOMAIN out' = {"parts", "bytes", "eos"}
    BY DEF WriteEncoded, NoOut
  <2> QED BY <2>1 DEF Packed, IsSeq
<1>2. Room' /\ Inputs'
  <2>1. k' \in Nat \ {0}
    BY DEF WriteEncoded, EncodeIInv, Inputs
  <2> QED BY <2>1, SameInputs DEF WriteEncoded, EncodeIInv, Room
<1>3. Read' /\ Parts'
  BY DEF WriteEncoded, NoRaw, Read, Parts, Worker
<1> QED BY <1>1, <1>2, <1>3 DEF EncodeIInv

-----------------------------------------------------------------------------
(* Packing in parts.                                                         *)

LEMMA StartPartsKeeps == ASSUME EncodeIInv, StartParts PROVE EncodeIInv'
<1> USE DEF EncodeIInv
<1>1. UNCHANGED <<opts, disk, listed, k, raw, buf, scratch, out>>
  BY DEF StartParts
<1>2. Chunks' = Chunks
  BY <1>1 DEF Chunks
<1>3. DOMAIN parts' = 1..Chunks /\ \A i \in 1..Chunks : Part(parts'[i])
  <2>1. PICK total \in PartTotals :
          parts' = [i \in 1..Chunks |->
                     [of |-> <<>>, bytes |-> 0, cap |-> FirstRoom(ChunkLen(i)),
                      total |-> total[i], fits |-> total[i] <= FirstRoom(ChunkLen(i)),
                      ended |-> FALSE, whole |-> FALSE]]
    BY DEF StartParts
  <2>2. ASSUME NEW i \in 1..Chunks PROVE Part(parts'[i])
    <3>1. FirstRoom(ChunkLen(i)) \in Nat /\ total[i] \in Nat
      BY ChunkLens DEF PartTotals
    <3>2. PICK room, size \in Nat : room = FirstRoom(ChunkLen(i)) /\ size = total[i]
      BY <3>1
    <3>3. parts'[i] = [of |-> <<>>, bytes |-> 0, cap |-> room, total |-> size,
                       fits |-> size <= room, ended |-> FALSE, whole |-> FALSE]
      BY <2>1, <3>2
    <3>4. (size <= room) \in BOOLEAN
      OBVIOUS
    <3> QED BY <3>3, <3>4 DEF Part
  <2> QED BY <2>1, <2>2
<1>4. Inputs' /\ Read' /\ Packed' /\ Room' /\ Parts'
  BY <1>1, <1>2, <1>3 DEF Inputs, Read, Packed, IsSeq, Room, Parts
<1> QED BY <1>4

LEMMA PartRoundKeeps ==
  ASSUME EncodeIInv, NEW i \in 1..Chunks, PartRound(i) PROVE EncodeIInv'
<1> USE DEF EncodeIInv
<1>1. UNCHANGED <<opts, disk, listed, k, raw, buf, scratch, out>> /\ at = "parts"
  BY DEF PartRound, Worker
<1>2. Chunks' = Chunks
  BY <1>1 DEF Chunks
<1>3. Part(parts[i]) /\ DOMAIN parts = 1..Chunks
  BY <1>1 DEF Parts
<1>4. \A of, ended, whole : \A bytes, cap \in Nat : Part(PartNow(parts[i], of, bytes, cap, ended, whole))
  BY <1>3 DEF PartNow, Part
<1>5. \E p : Part(p) /\ parts' = [parts EXCEPT ![i] = p]
  <2> DEFINE p == parts[i]
             room == p.cap - p.bytes
             more == p.total - p.bytes
             grow == Greater(ChunkLen(i) \div 4, PartGrow)
  <2>1. p.bytes \in Nat /\ p.cap \in Nat /\ p.total \in Nat
    BY <1>3 DEF Part
  <2>2. ChunkLen(i) \in Nat
    BY ChunkLens
  <2>3. grow \in Nat
    <3>1. ChunkLen(i) \div 4 \in Nat
      BY <2>2
    <3> QED BY <3>1, Facts DEF Greater
  <2>4. Reserve(p.cap, p.cap, grow) \in Nat
    <3> HIDE DEF grow
    <3> QED BY <2>1, <2>3, RoomOnReserve
  <2>5. \/ \E seen : parts' = [parts EXCEPT ![i] = PartNow(p, seen, p.total, p.cap, TRUE, TRUE)]
        \/ \E seen : \E ended, consumed \in BOOLEAN :
             parts' = [parts EXCEPT ![i] =
               PartNow(p, seen, p.cap,
                       IF ended THEN p.cap ELSE Reserve(p.cap, p.cap, grow), ended, FALSE)]
    <3>1. CASE more <= room
      BY <3>1 DEF PartRound
    <3>2. CASE ~(more <= room)
      <4> DEFINE isLast == i = Chunks
                 seen == IF p.bytes = 0
                           THEN Seen((i - 1) * Chunk + 1, (i - 1) * Chunk + ChunkLen(i))
                           ELSE p.of
      <4>1. PICK consumed \in BOOLEAN :
              LET ended == consumed /\ ~ isLast IN
              parts' = [parts EXCEPT ![i] =
                PartNow(p, seen, p.cap,
                        IF ended THEN p.cap ELSE Reserve(p.cap, p.cap, grow), ended, FALSE)]
        BY <3>2 DEF PartRound
      <4>2. (consumed /\ ~ isLast) \in BOOLEAN
        OBVIOUS
      <4> HIDE DEF isLast, seen, grow, p
      <4> QED BY <4>1, <4>2
    <3> QED BY <3>1, <3>2
  <2>6. \A ended \in BOOLEAN : (IF ended THEN p.cap ELSE Reserve(p.cap, p.cap, grow)) \in Nat
    BY <2>1, <2>4
  <2> HIDE DEF grow
  <2> QED BY <1>4, <2>1, <2>5, <2>6
<1>6. DOMAIN parts' = 1..Chunks /\ \A j \in 1..Chunks : Part(parts'[j])
  <2>1. PICK p : Part(p) /\ parts' = [parts EXCEPT ![i] = p]
    BY <1>5
  <2>2. DOMAIN parts' = 1..Chunks
        /\ \A j \in 1..Chunks : parts'[j] = IF j = i THEN p ELSE parts[j]
    BY <1>3, <2>1
  <2>3. \A j \in 1..Chunks : Part(parts[j])
    BY <1>1 DEF Parts
  <2> QED BY <2>1, <2>2, <2>3
<1>7. Inputs' /\ Read' /\ Packed' /\ Room' /\ Parts'
  BY <1>1, <1>2, <1>6 DEF Inputs, Read, Packed, IsSeq, Room, Parts
<1> QED BY <1>7

LEMMA ConcatPartsKeeps == ASSUME EncodeIInv, ConcatParts PROVE EncodeIInv'
<1> USE DEF EncodeIInv
<1> DEFINE i == Len(out.parts) + 1
<1>1. UNCHANGED <<opts, disk, listed, k, raw, buf, scratch>> /\ at = "parts"
  BY DEF ConcatParts, Worker
<1>2. Chunks' = Chunks
  BY <1>1 DEF Chunks
<1>3. DOMAIN parts = 1..Chunks /\ \A j \in 1..Chunks : Part(parts[j])
  BY <1>1 DEF Parts
<1>4. i \in Nat \ {0}
  BY DEF Packed, IsSeq
<1>5. Packed'
  <2>1. CASE i > Chunks
    <3>1. out' = out
      BY <2>1 DEF ConcatParts
    <3> QED BY <3>1 DEF Packed, IsSeq
  <2>2. CASE ~(i > Chunks)
    <3>1. i \in 1..Chunks
      BY <2>2, <1>4, ChunkLens
    <3>2. parts[i].bytes \in Nat
      BY <3>1, <1>3 DEF Part
    <3>3. \E r : out' = [parts |-> Append(out.parts, r),
                         bytes |-> out.bytes + parts[i].bytes, eos |-> out.eos]
      BY <2>2 DEF ConcatParts
    <3> QED BY <3>2, <3>3, OnePartMore
  <2> QED BY <2>1, <2>2
<1>6. Parts'
  <2>1. CASE i > Chunks
    BY <2>1 DEF ConcatParts, Worker, Parts
  <2>2. CASE ~(i > Chunks)
    <3>1. parts' = parts
      BY <2>2 DEF ConcatParts
    <3> QED BY <3>1, <1>2, <1>3 DEF Parts
  <2> QED BY <2>1, <2>2
<1>7. Inputs' /\ Read' /\ Room'
  BY <1>1 DEF Inputs, Read, Room
<1> QED BY <1>5, <1>6, <1>7

-----------------------------------------------------------------------------
LEMMA EncodeNextKeeps == EncodeIInv /\ [EncodeNext]_allVars => EncodeIInv'
<1> SUFFICES ASSUME EncodeIInv, [EncodeNext]_allVars PROVE EncodeIInv'
  OBVIOUS
<1>1. CASE \E f \in DOMAIN listed : FileChanges(f)
  BY <1>1, FileChangesKeeps
<1>2. CASE ReadStep
  BY <1>2, ReadStepKeeps
<1>3. CASE Killed \/ TakeCrc \/ PackStore \/ MakeRoom \/ PackDeflate \/ PackOther
  BY <1>3, KilledKeeps, TakeCrcKeeps, PackStoreKeeps, MakeRoomKeeps, PackDeflateKeeps,
     PackOtherKeeps
<1>4. CASE StartParts \/ (\E i \in 1..Chunks : PartRound(i)) \/ ConcatParts
  BY <1>4, StartPartsKeeps, PartRoundKeeps, ConcatPartsKeeps
<1>5. CASE WriteEncoded
  BY <1>5, WriteEncodedKeeps
<1>6. CASE UNCHANGED encodeVars
  BY <1>6 DEF encodeVars, EncodeIInv, Inputs, Read, Parts, Part, Chunks, Packed, IsSeq, Room
<1>7. FinishArchive \/ (Done /\ UNCHANGED encodeVars) \/ Stopped \/ UNCHANGED allVars
        => UNCHANGED encodeVars
  BY DEF FinishArchive, Stopped, allVars, encodeVars
<1> QED BY <1>1, <1>2, <1>3, <1>4, <1>5, <1>6, <1>7 DEF EncodeNext, ReadStep

(* The types of what a worker holds, and the empty scratch it starts a file  *)
(* with, are invariant under any reads, any writes by others and any lengths *)
(* the codecs give.                                                          *)
THEOREM EncodeInvariant == EncodeSpec => []EncodeIInv
<1>1. EncodeInit => EncodeIInv
  BY InitEncodeIInv
<1> QED BY <1>1, EncodeNextKeeps, PTL DEF EncodeSpec

(* compress() never gives its buffer a length beyond what it has reserved.   *)
THEOREM SetLenIsCovered == EncodeSpec => []SetLenWithinCapacity
<1>1. EncodeIInv => SetLenWithinCapacity
  BY DEF EncodeIInv, Room, SetLenWithinCapacity
<1> QED BY <1>1, EncodeInvariant, PTL

(* What a worker hands over is an entry ZipWriter takes.                     *)
LEMMA EntryGiven ==
  ASSUME BodyLens = Nat, Sizes = Nat, EncodeIInv, NEW name \in NameLens
  PROVE  Meta(name) \in Entry
<1>1. opts.password \in BOOLEAN /\ out.bytes \in Nat /\ raw.len \in Nat
  BY DEF EncodeIInv, Inputs, Packed, Read
<1>2. Frame.bytes \in Nat
  BY <1>1 DEF Frame, Sealed, Bare, AE2_OVERHEAD, SALT_LEN, VERIFY_LEN, MAC_LEN
<1> QED BY <1>1, <1>2 DEF Meta, Entry

LEMMA EncodeStepWrites ==
  ASSUME BodyLens = Nat, Sizes = Nat, EncodeIInv, [EncodeNext]_allVars
  PROVE  [Next]_vars
<1>1. CASE WriteEncoded
  BY <1>1, EntryGiven DEF WriteEncoded, Next
<1>2. CASE FinishArchive
  BY <1>2 DEF FinishArchive, Next
<1>3. \/ WriteEncoded \/ FinishArchive \/ UNCHANGED vars
  BY DEF EncodeNext, allVars, FileChanges, ReadMapped, StartRead, ReadSome, ReadsEof,
         GcdCalls, GcdHandler, ReadFails, Killed, TakeCrc, PackStore, MakeRoom, PackDeflate,
         PackOther, StartParts, PartRound, ConcatParts, Done, Stopped
<1> QED BY <1>1, <1>2, <1>3

(* The path of a file through reader, packer and cipher implements the       *)
(* archive's specification, for bodies and sizes of any length.              *)
THEOREM EncodeWritesArchives ==
  ASSUME BodyLens = Nat, Sizes = Nat
  PROVE  EncodeSpec => Spec
<1>1. EncodeInit => Init
  BY DEF EncodeInit
<1>2. EncodeIInv /\ [EncodeNext]_allVars => [Next]_vars
  BY EncodeStepWrites
<1> QED BY <1>1, <1>2, EncodeInvariant, PTL DEF EncodeSpec, Spec

(* So every archive the workers fill reads back from its end ...             *)
THEOREM EncodedReadsBack ==
  ASSUME BodyLens = Nat, Sizes = Nat
  PROVE  EncodeSpec => []ReadsBack
  BY EncodeWritesArchives, ArchiveReadsBack, PTL

(* ... and from its front.                                                   *)
THEOREM EncodedStreamsBack ==
  ASSUME BodyLens = Nat, Sizes = Nat
  PROVE  EncodeSpec => []LocalHeadersChain
  BY EncodeWritesArchives, ArchiveStreamsBack, PTL

-----------------------------------------------------------------------------
(* What becomes of the bytes.                                                *)

(* The bytes of the file in hand, as far as they are settled: a mapping has  *)
(* those of version 1 for as long as nobody writes to the file.              *)
Input == IF raw.mapped THEN Bytes(raw.len, 1) ELSE raw.bytes
Untouched == Len(disk[k]) = 1
Settled == raw.mapped => Untouched

Working == at \in {"crc", "pack", "deflate", "parts", "seal"}
Reading == at \in {"to_end", "gcd"}

(* The walk has listed each file with the length its version 1 has.          *)
ListedFirst == \A f \in DOMAIN listed : disk[f][1] = listed[f]

(* A buffer has what was read, and all of the file once it is read whole.    *)
ReadIsExact ==
  /\ Working \/ Reading => k <= Len(listed)
  /\ ~ raw.mapped => Len(raw.bytes) = raw.len
  /\ Reading => ~ raw.mapped /\ ~ Maps(listed[k])
  /\ Reading /\ Untouched => raw.bytes = Bytes(raw.len, 1) /\ raw.len <= listed[k]
  /\ Working => (raw.mapped <=> Maps(listed[k]))
  /\ Working /\ Untouched => raw.len = listed[k] /\ Input = Bytes(raw.len, 1)

From(i) == (i - 1) * Chunk + 1
UpTo(i) == (i - 1) * Chunk + ChunkLen(i)

(* A chunk with room for its output is packed whole, in one round.           *)
PartIsExact(i) ==
  parts[i].fits =>
    IF parts[i].ended
      THEN parts[i].whole /\ (Settled => parts[i].of = SubSeq(Input, From(i), UpTo(i)))
      ELSE parts[i].bytes = 0 /\ parts[i].total <= parts[i].cap

Joined(i) ==
  out.parts[i] = [of |-> parts[i].of, whole |-> parts[i].whole,
                  fits |-> parts[i].fits, last |-> i = Chunks]

PartsAreExact ==
  at = "parts" =>
    /\ SingleFileParallel
    /\ \A i \in 1..Chunks : PartIsExact(i)
    /\ Len(out.parts) <= Chunks /\ out.eos = FALSE
    /\ \A i \in 1..Len(out.parts) : Joined(i)
    /\ out.parts # <<>> => \A i \in 1..Chunks : parts[i].ended

Roomy(e) == \A i \in DOMAIN e.parts : e.parts[i].fits

(* What was hashed and what was packed are both the file's bytes.            *)
PackIsExact ==
  /\ at \notin {"parts", "seal", "stopped"} => out = NoOut
  /\ at = "deflate" => opts.method = "deflate"
  /\ Working /\ at # "crc" /\ Settled => crc = Input
  /\ at = "seal" /\ Settled /\ Roomy(out) => Unpacks(out) /\ Content(out) = Input

EntryAccepted(f) == ~ ChangedWhileMapped(f) /\ ~ OutOfRoom(f) => Accepts(f)
EntryExact(f) == Len(disk[f]) = 1 /\ ~ OutOfRoom(f) => Content(done[f]) = Bytes(listed[f], 1)

WrittenIsExact ==
  /\ IsSeq(done) /\ IsSeq(entries)
  /\ Len(done) = k - 1 /\ Len(entries) = k - 1 /\ k - 1 <= Len(listed)
  /\ \A f \in 1..(k - 1) : EntryAccepted(f) /\ EntryExact(f)

ContentIInv == ListedFirst /\ ReadIsExact /\ PartsAreExact /\ PackIsExact /\ WrittenIsExact

-----------------------------------------------------------------------------
(* Bytes read, and bytes looked at.                                          *)

LEMMA BytesAre ==
  ASSUME NEW n \in Nat, NEW v \in Nat
  PROVE  /\ Bytes(n, v) \in Seq(Nat) /\ Len(Bytes(n, v)) = n
         /\ \A i \in 1..n : Bytes(n, v)[i] = v
  BY DEF Bytes

LEMMA BytesTogether ==
  ASSUME NEW n \in Nat, NEW m \in Nat
  PROVE  Bytes(n, 1) \o Bytes(m, 1) = Bytes(n + m, 1)
<1> DEFINE a == Bytes(n, 1)
           b == Bytes(m, 1)
           c == Bytes(n + m, 1)
<1>1. /\ a \in Seq(Nat) /\ Len(a) = n /\ \A i \in 1..n : a[i] = 1
      /\ b \in Seq(Nat) /\ Len(b) = m /\ \A i \in 1..m : b[i] = 1
  BY BytesAre
<1>2. c \in Seq(Nat) /\ Len(c) = n + m /\ \A i \in 1..(n + m) : c[i] = 1
  <2>1. n + m \in Nat
    OBVIOUS
  <2> QED BY <2>1, BytesAre
<1> HIDE DEF a, b, c
<1>3. a \o b \in Seq(Nat) /\ Len(a \o b) = n + m
  BY <1>1
<1>4. ASSUME NEW i \in 1..(n + m) PROVE (a \o b)[i] = c[i]
  <2>1. CASE i \in 1..n
    BY <1>1, <1>2, <2>1
  <2>2. CASE i \notin 1..n
    <3>1. i - n \in 1..m
      BY <2>2
    <3>2. (a \o b)[i] = b[i - n]
      BY <1>1, <2>2
    <3> QED BY <1>1, <1>2, <3>1, <3>2
  <2> QED BY <2>1, <2>2
<1>5. a \o b = c
  <2>1. Len(a \o b) = Len(c) /\ \A i \in 1..Len(c) : (a \o b)[i] = c[i]
    BY <1>2, <1>3, <1>4
  <2> QED BY <1>2, <1>3, <2>1, SeqEqual
<1> QED BY <1>5 DEF a, b, c

LEMMA PartOfBytes ==
  ASSUME NEW n \in Nat, NEW from \in Nat \ {0}, NEW to \in Nat, to <= n, from <= to + 1
  PROVE  SubSeq(Bytes(n, 1), from, to) = [i \in 1..(to - from + 1) |-> 1]
<1>1. Bytes(n, 1) \in Seq(Nat) /\ Len(Bytes(n, 1)) = n /\ \A i \in 1..n : Bytes(n, 1)[i] = 1
  BY BytesAre
<1>2. SubSeq(Bytes(n, 1), from, to) = [i \in 1..(to - from + 1) |-> Bytes(n, 1)[i + from - 1]]
  BY <1>1
<1>3. ASSUME NEW i \in 1..(to - from + 1) PROVE Bytes(n, 1)[i + from - 1] = 1
  <2>1. i + from - 1 \in 1..n
    OBVIOUS
  <2> QED BY <1>1, <2>1
<1> QED BY <1>2, <1>3

LEMMA InputIsBytes ==
  ASSUME Read, ReadIsExact
  PROVE  Input \in Seq(Nat) /\ Len(Input) = raw.len
  BY BytesAre DEF Read, ReadIsExact, Input

LEMMA WholeInput ==
  ASSUME Read, ReadIsExact
  PROVE  SubSeq(Input, 1, raw.len) = Input
  BY InputIsBytes, SubSeqFull

(* A file nobody has written to yet has its first version.                   *)
LEMMA FirstVersion ==
  ASSUME Inputs, ListedFirst, k <= Len(listed), Untouched
  PROVE  LenNow(k) = listed[k] /\ VersionNow(k) = 1
<1>1. k \in DOMAIN listed
  BY DEF Inputs
<1>2. disk[k][1] = listed[k] /\ Len(disk[k]) = 1
  BY <1>1 DEF ListedFirst, Untouched
<1> QED BY <1>2 DEF LenNow, VersionNow, Last

(* What a look at settled bytes shows.                                       *)
LEMMA SeenIsInput ==
  ASSUME Inputs, Read, ListedFirst, ReadIsExact, Working, Settled,
         NEW from \in Nat \ {0}, NEW to \in Nat, to <= raw.len, from <= to + 1
  PROVE  Seen(from, to) = SubSeq(Input, from, to)
<1>1. CASE ~ raw.mapped
  BY <1>1 DEF Seen, Input
<1>2. CASE raw.mapped
  <2>1. raw.len \in Nat /\ k <= Len(listed) /\ Untouched
    BY <1>2 DEF Read, ReadIsExact, Settled
  <2>2. LenNow(k) = raw.len /\ VersionNow(k) = 1
    BY <2>1, FirstVersion DEF ReadIsExact
  <2>3. PICK n \in Nat : n = raw.len
    BY <2>1
  <2>4. SubSeq(Input, from, to) = [i \in 1..(to - from + 1) |-> 1]
    BY <1>2, <2>3, PartOfBytes DEF Input
  <2>5. \A i \in 1..(to - from + 1) : from + i - 1 <= n
    BY <2>3
  <2> QED BY <1>2, <2>2, <2>3, <2>4, <2>5 DEF Seen
<1> QED BY <1>1, <1>2

LEMMA CrcIsInput ==
  ASSUME Inputs, Read, ListedFirst, ReadIsExact, Working, Settled
  PROVE  Seen(1, raw.len) = Input
<1>1. PICK n \in Nat : n = raw.len
  BY DEF Read
<1>2. 1 \in Nat \ {0} /\ n <= n /\ 1 <= n + 1
  OBVIOUS
<1> QED BY <1>1, <1>2, SeenIsInput, WholeInput

-----------------------------------------------------------------------------
(* The steps before a file is packed.                                        *)

LEMMA StaysWritten ==
  ASSUME EncodeIInv, WrittenIsExact, UNCHANGED <<done, entries, k, opts, listed>>,
         \A f \in 1..(k - 1) : disk'[f] = disk[f]
  PROVE  WrittenIsExact'
<1>1. k \in Nat \ {0}
  BY DEF EncodeIInv, Inputs
<1>2. ASSUME NEW f \in 1..(k - 1) PROVE EntryAccepted(f)' /\ EntryExact(f)'
  <2>1. EntryAccepted(f) /\ EntryExact(f) /\ disk'[f] = disk[f]
    BY DEF WrittenIsExact
  <2>2. UNCHANGED <<done, entries, opts, listed>>
    OBVIOUS
  <2>3. ChangedWhileMapped(f)' = ChangedWhileMapped(f) /\ OutOfRoom(f)' = OutOfRoom(f)
    BY <2>1, <2>2 DEF ChangedWhileMapped, OutOfRoom
  <2>4. Accepts(f)' = Accepts(f) /\ Content(done'[f]) = Content(done[f])
    BY <2>1, <2>2 DEF Accepts, Unpacks
  <2> QED BY <2>1, <2>2, <2>3, <2>4 DEF EntryAccepted, EntryExact
<1> QED BY <1>1, <1>2 DEF WrittenIsExact, IsSeq

LEMMA StaysListed ==
  ASSUME ListedFirst, UNCHANGED <<listed, disk>> PROVE ListedFirst'
  BY DEF ListedFirst

(* Reading leaves everything but `raw` as it is, and none of it is packed.   *)
LEMMA ReadStepKind ==
  ASSUME EncodeIInv, ReadStep
  PROVE  /\ k <= Len(listed) /\ at \in {"read", "to_end", "gcd"}
         /\ at' \in {"to_end", "gcd", "crc", "stopped"}
         /\ UNCHANGED <<vars, opts, disk, listed, k, crc, buf, scratch, parts, out, done>>
  BY DEF ReadStep, ReadMapped, StartRead, ReadSome, ReadsEof, GcdCalls, GcdHandler,
         ReadFails, Worker, AfterDone

(* A read may go on while what it has is exact, and end when that is all.    *)
ReadSoFar(r) ==
  /\ ~ r.mapped /\ Len(r.bytes) = r.len
  /\ Untouched => r.bytes = Bytes(r.len, 1) /\ r.len <= listed[k]

LEMMA AppendedSoFar ==
  ASSUME Inputs, Read, ListedFirst, k <= Len(listed), ReadSoFar(raw), NEW n \in Nat,
         Untouched => raw.len + n <= listed[k]
  PROVE  ReadSoFar(Appended(n))
<1>1. /\ raw.len \in Nat /\ raw.bytes \in Seq(Nat) /\ VersionNow(k) \in Nat
      /\ ~ raw.mapped /\ Len(raw.bytes) = raw.len
  BY FileNow DEF Read, ReadSoFar
<1>2. PICK v \in Nat : v = VersionNow(k)
  BY <1>1
<1>3. Bytes(n, v) \in Seq(Nat) /\ Len(Bytes(n, v)) = n
  BY BytesAre
<1>4. Appended(n) = [mapped |-> raw.mapped, len |-> raw.len + n, bytes |-> raw.bytes \o Bytes(n, v)]
  BY <1>2 DEF Appended
<1>5. Len(raw.bytes \o Bytes(n, v)) = raw.len + n
  <2>1. PICK a \in Seq(Nat) : a = raw.bytes
    BY <1>1
  <2>2. PICK b \in Seq(Nat) : b = Bytes(n, v)
    BY <1>3
  <2>3. Len(a \o b) = Len(a) + Len(b)
    OBVIOUS
  <2> QED BY <1>1, <1>3, <2>1, <2>2, <2>3
<1>6. ASSUME Untouched PROVE raw.bytes \o Bytes(n, v) = Bytes(raw.len + n, 1)
  <2>1. v = 1 /\ raw.bytes = Bytes(raw.len, 1)
    BY <1>2, <1>6, FirstVersion DEF ReadSoFar
  <2> QED BY <1>1, <2>1, BytesTogether
<1> QED BY <1>1, <1>4, <1>5, <1>6 DEF ReadSoFar

LEMMA ReadableFits ==
  ASSUME Inputs, Read, k <= Len(listed), NEW end \in Nat, NEW n \in Readable(end)
  PROVE  n \in Nat /\ raw.len + n <= end
  BY FileNow DEF Readable, Read

(* What the places of a read ask of its buffer.                              *)
LEMMA ReadOn ==
  ASSUME ReadIsExact, Reading
  PROVE  ReadSoFar(raw) /\ k <= Len(listed) /\ ~ Maps(listed[k])
  BY DEF ReadIsExact, ReadSoFar

LEMMA ReadGoesOn ==
  ASSUME UNCHANGED <<listed, disk, k>>, k <= Len(listed), ~ Maps(listed[k]),
         at' \in {"to_end", "gcd", "crc", "stopped"}, ReadSoFar(raw'),
         at' = "crc" /\ Untouched => raw'.len = listed[k]
  PROVE  ReadIsExact'
<1>1. Maps(listed[k])' = Maps(listed[k]) /\ Untouched' = Untouched
  BY DEF Maps, Untouched
<1>2. Input' = raw'.bytes
  BY DEF Input, ReadSoFar
<1>3. (Working' <=> at' = "crc") /\ (Reading' <=> at' \in {"to_end", "gcd"})
  BY DEF Working, Reading
<1> QED BY <1>1, <1>2, <1>3 DEF ReadIsExact, ReadSoFar

LEMMA EndOfFile ==
  ASSUME Inputs, ListedFirst, k <= Len(listed), Untouched
  PROVE  LenNow(k) = listed[k] /\ Lesser(LenNow(k), listed[k]) = listed[k]
  BY FirstVersion, FileNow DEF Lesser

LEMMA ReadStaysExact ==
  ASSUME EncodeIInv, ListedFirst, ReadIsExact, ReadStep PROVE ReadIsExact'
<1>1. /\ k <= Len(listed) /\ UNCHANGED <<opts, disk, listed, k>>
      /\ at' \in {"to_end", "gcd", "crc", "stopped"}
  BY ReadStepKind
<1>2. Inputs /\ Read
  BY DEF EncodeIInv
<1>3. CASE ReadMapped
  <2>1. raw' = [mapped |-> TRUE, len |-> LenNow(k), bytes |-> <<>>] /\ at' = "crc" /\ Maps(listed[k])
    BY <1>3 DEF ReadMapped, Worker
  <2>2. Untouched' => LenNow(k) = listed[k]
    BY <1>1, <1>2, FirstVersion DEF Untouched
  <2>3. Input' = Bytes(raw'.len, 1) /\ Working' /\ ~ Reading' /\ Maps(listed[k])' /\ raw'.mapped
    BY <1>1, <2>1 DEF Input, Working, Reading, Maps, Bytes
  <2> QED BY <1>1, <2>1, <2>2, <2>3 DEF ReadIsExact
<1>4. CASE StartRead
  <2>1. raw' = NoRaw /\ at' \in {"to_end", "gcd"} /\ ~ Maps(listed[k])
    BY <1>4 DEF StartRead, Worker
  <2>2. <<>> = Bytes(0, 1) /\ Len(<<>>) = 0 /\ listed[k] \in Nat
    BY <1>1, <1>2, FileNow DEF Bytes
  <2>3. ReadSoFar(NoRaw)
    BY <2>2 DEF ReadSoFar, NoRaw
  <2> QED BY <1>1, <2>1, <2>3, ReadGoesOn
<1>5. CASE ReadFails
  <2>1. at' = "stopped" /\ raw' = raw
    BY <1>5 DEF ReadFails
  <2>2. ~ Working' /\ ~ Reading'
    BY <2>1 DEF Working, Reading
  <2> QED BY <2>1, <2>2 DEF ReadIsExact
<1>6. CASE ReadSome
  <2>1. at = "to_end" /\ at' = "to_end"
    BY <1>6 DEF ReadSome, Worker
  <2>2. PICK n \in Readable(LenNow(k)) : raw' = Appended(n)
    BY <1>6 DEF ReadSome
  <2>3. ReadSoFar(raw) /\ ~ Maps(listed[k])
    BY <2>1, ReadOn DEF Reading
  <2>4. n \in Nat /\ raw.len + n <= LenNow(k)
    BY <1>1, <1>2, FileNow, ReadableFits
  <2>5. ReadSoFar(raw')
    BY <1>1, <1>2, <2>2, <2>3, <2>4, EndOfFile, AppendedSoFar
  <2> QED BY <1>1, <2>1, <2>3, <2>5, ReadGoesOn
<1>7. CASE ReadsEof
  <2>1. at = "to_end" /\ at' = "crc" /\ raw' = raw /\ raw.len >= LenNow(k)
    BY <1>7 DEF ReadsEof, Worker
  <2>2. ReadSoFar(raw) /\ ~ Maps(listed[k])
    BY <2>1, ReadOn DEF Reading
  <2>3. Untouched => raw.len = listed[k]
    BY <1>1, <1>2, <2>1, <2>2, EndOfFile, FileNow DEF ReadSoFar, Read
  <2> QED BY <1>1, <2>1, <2>2, <2>3, ReadGoesOn
<1>8. CASE GcdCalls
  <2> DEFINE end == Lesser(LenNow(k), listed[k])
  <2>1. at = "gcd"
    BY <1>8 DEF GcdCalls
  <2>2. ReadSoFar(raw) /\ ~ Maps(listed[k]) /\ raw.len \in Nat
    BY <1>2, <2>1, ReadOn DEF Reading, Read
  <2>3. end \in Nat
    BY <1>1, <1>2, FileNow DEF Lesser
  <2>4. ASSUME NEW n \in Nat, raw' = IF raw.len + n <= listed[k] THEN Appended(n) ELSE raw
        PROVE  ReadSoFar(raw')
    BY <1>1, <1>2, <2>2, <2>4, AppendedSoFar
  <2>5. CASE \E n \in Readable(end) : GcdHandler(n, FALSE, FALSE)
    <3>1. PICK n \in Readable(end) : GcdHandler(n, FALSE, FALSE)
      BY <2>5
    <3>2. n \in Nat
      BY <1>1, <1>2, <2>3, ReadableFits
    <3>3. at' = "gcd" /\ ReadSoFar(raw')
      BY <2>4, <3>1, <3>2 DEF GcdHandler, Worker
    <3> QED BY <1>1, <2>2, <3>3, ReadGoesOn
  <2>6. CASE \E n \in Readable(end) \cup {0} : GcdHandler(n, TRUE, TRUE)
    <3>1. PICK n \in Readable(end) \cup {0} : GcdHandler(n, TRUE, TRUE)
      BY <2>6
    <3>2. n \in Nat
      BY <1>1, <1>2, <2>3, ReadableFits
    <3>3. at' = "stopped" /\ ReadSoFar(raw')
      BY <2>4, <3>1, <3>2 DEF GcdHandler, Worker, AfterDone
    <3> QED BY <1>1, <2>2, <3>3, ReadGoesOn
  <2>7. CASE raw.len >= end /\ GcdHandler(0, TRUE, FALSE)
    <3>1. at' = "crc" /\ raw' = IF raw.len + 0 <= listed[k] THEN Appended(0) ELSE raw
      BY <2>7 DEF GcdHandler, Worker, AfterDone
    <3>2. ReadSoFar(raw')
      BY <2>4, <3>1
    <3>3. raw'.len = raw.len
      BY <2>2, <3>1 DEF Appended
    <3>4. Untouched => raw'.len = listed[k]
      <4>1. Untouched => raw.len <= listed[k]
        BY <2>2 DEF ReadSoFar
      <4>2. Untouched => end = listed[k]
        BY <1>1, <1>2, EndOfFile
      <4>3. listed[k] \in Nat /\ raw.len >= end
        BY <1>1, <1>2, <2>7, FileNow
      <4> HIDE DEF end
      <4> QED BY <2>2, <3>3, <4>1, <4>2, <4>3
    <3> QED BY <1>1, <2>2, <3>1, <3>2, <3>4, ReadGoesOn
  <2> QED BY <1>8, <2>5, <2>6, <2>7 DEF GcdCalls
<1> QED BY <1>3, <1>4, <1>5, <1>6, <1>7, <1>8 DEF ReadStep

LEMMA ReadStepStaysExact ==
  ASSUME EncodeIInv, ContentIInv, ReadStep PROVE ContentIInv'
<1>1. /\ at \in {"read", "to_end", "gcd"} /\ at' \in {"to_end", "gcd", "crc", "stopped"}
      /\ UNCHANGED <<vars, opts, disk, listed, k, crc, buf, scratch, parts, out, done>>
  BY ReadStepKind
<1>2. ListedFirst' /\ ReadIsExact'
  BY <1>1, StaysListed, ReadStaysExact DEF ContentIInv
<1>3. WrittenIsExact'
  BY <1>1, StaysWritten DEF ContentIInv, vars
<1>4. out = NoOut
  BY <1>1 DEF ContentIInv, PackIsExact
<1>5. PartsAreExact' /\ PackIsExact'
  BY <1>1, <1>4 DEF PartsAreExact, PackIsExact, Working
<1> QED BY <1>2, <1>3, <1>5 DEF ContentIInv

-----------------------------------------------------------------------------
(* The steps that pack a file in one go, and the two that end its reading.   *)

(* Steps between the read and the seal leave the file and its bytes alone.   *)
LEMMA InHand ==
  ASSUME UNCHANGED <<listed, disk, k, raw, opts>>
  PROVE  /\ Input' = Input /\ Untouched' = Untouched /\ Settled' = Settled
         /\ Chunks' = Chunks /\ SingleFileParallel' = SingleFileParallel
         /\ \A i : From(i)' = From(i) /\ UpTo(i)' = UpTo(i)
  BY DEF Input, Untouched, Settled, Chunks, SingleFileParallel, From, UpTo, ChunkLen

LEMMA StaysRead ==
  ASSUME ReadIsExact, Working, UNCHANGED <<listed, disk, k, raw, opts>>,
         at' \in {"pack", "deflate", "parts", "seal", "stopped"}
  PROVE  ReadIsExact'
<1>1. Input' = Input /\ Untouched' = Untouched
  BY InHand
<1>2. Maps(listed[k])' = Maps(listed[k]) /\ ~ Reading'
  BY DEF Maps, Reading
<1> QED BY <1>1, <1>2 DEF ReadIsExact

LEMMA KilledStaysExact == ASSUME EncodeIInv, ContentIInv, Killed PROVE ContentIInv'
<1>1. /\ at' = "stopped" /\ Working
      /\ UNCHANGED <<vars, opts, disk, listed, k, raw, crc, buf, scratch, parts, out, done>>
  BY DEF Killed, Working
<1>2. ListedFirst' /\ ReadIsExact' /\ WrittenIsExact'
  BY <1>1, StaysListed, StaysRead, StaysWritten DEF ContentIInv, vars
<1>3. PartsAreExact' /\ PackIsExact'
  BY <1>1 DEF PartsAreExact, PackIsExact, Working
<1> QED BY <1>2, <1>3 DEF ContentIInv

LEMMA TakeCrcStaysExact == ASSUME EncodeIInv, ContentIInv, TakeCrc PROVE ContentIInv'
<1>1. /\ at = "crc" /\ at' = "pack" /\ Working /\ crc' = Seen(1, raw.len)
      /\ UNCHANGED <<vars, opts, disk, listed, k, raw, buf, scratch, parts, out, done>>
  BY DEF TakeCrc, Worker, Working
<1>2. ListedFirst' /\ ReadIsExact' /\ WrittenIsExact'
  BY <1>1, StaysListed, StaysRead, StaysWritten DEF ContentIInv, vars
<1>3. Settled => crc' = Input
  BY <1>1, CrcIsInput DEF ContentIInv, EncodeIInv
<1>4. Input' = Input /\ Settled' = Settled
  BY <1>1, InHand
<1>5. PartsAreExact' /\ PackIsExact'
  BY <1>1, <1>3, <1>4 DEF ContentIInv, PartsAreExact, PackIsExact
<1> QED BY <1>2, <1>5 DEF ContentIInv

LEMMA MakeRoomStaysExact == ASSUME EncodeIInv, ContentIInv, MakeRoom PROVE ContentIInv'
<1>1. /\ at = "pack" /\ at' = "deflate" /\ Working /\ opts.method = "deflate"
      /\ UNCHANGED <<vars, opts, disk, listed, k, raw, crc, parts, out, done>>
  BY DEF MakeRoom, Worker, Working
<1>2. ListedFirst' /\ ReadIsExact' /\ WrittenIsExact'
  BY <1>1, StaysListed, StaysRead, StaysWritten DEF ContentIInv, vars
<1>3. Input' = Input /\ Settled' = Settled
  BY <1>1, InHand
<1>4. PartsAreExact' /\ PackIsExact'
  BY <1>1, <1>3 DEF ContentIInv, PartsAreExact, PackIsExact
<1> QED BY <1>2, <1>4 DEF ContentIInv

(* An output of one part has what was seen of the file.                      *)
LEMMA AloneIsWhole ==
  ASSUME NEW n, NEW s \in Seq(Nat), s = Seen(1, raw.len), out' = Alone(n),
         opts.method = "lzma" <=> out'.eos, UNCHANGED opts
  PROVE  Unpacks(out') /\ Content(out') = s
<1>1. PICK r : r = [of |-> Seen(1, raw.len), whole |-> TRUE, fits |-> TRUE, last |-> TRUE]
  OBVIOUS
<1>2. out'.parts = <<r>> /\ r.of = s /\ r.whole /\ r.last
  BY <1>1 DEF Alone
<1>3. DOMAIN out'.parts = 1..1 /\ Len(out'.parts) = 1 /\ out'.parts[1] = r
  BY <1>2
<1>4. [i \in DOMAIN out'.parts |-> out'.parts[i].of] = <<s>>
  <2>1. [i \in 1..1 |-> out'.parts[i].of] = [i \in 1..1 |-> s]
    BY <1>2, <1>3
  <2>2. [i \in 1..1 |-> s] = <<s>>
    OBVIOUS
  <2> QED BY <1>3, <2>1, <2>2
<1>5. Content(out') = s
  BY <1>4, OnePiece DEF Content
<1>6. Unpacks(out')
  BY <1>2, <1>3 DEF Unpacks
<1> QED BY <1>5, <1>6

LEMMA AloneStaysExact ==
  ASSUME EncodeIInv, ContentIInv, NEW n, out' = Alone(n), at \in {"pack", "deflate"}, at' = "seal",
         UNCHANGED <<vars, opts, disk, listed, k, raw, crc, done>>
  PROVE  ContentIInv'
<1>1. Working /\ Working' /\ at # "crc" /\ Inputs /\ Read /\ ListedFirst /\ ReadIsExact
  BY DEF Working, EncodeIInv, ContentIInv
<1>2. ListedFirst' /\ ReadIsExact' /\ WrittenIsExact'
  BY <1>1, StaysListed, StaysRead, StaysWritten DEF ContentIInv, vars
<1>3. Input' = Input /\ Settled' = Settled
  BY InHand
<1>4. ASSUME Settled PROVE Unpacks(out)' /\ Content(out)' = Input
  <2>1. Seen(1, raw.len) = Input /\ Input \in Seq(Nat)
    BY <1>1, <1>4, CrcIsInput, InputIsBytes
  <2>2. opts.method = "lzma" <=> out'.eos
    BY DEF Alone
  <2>3. Unpacks(out') /\ Content(out') = Input
    BY <2>1, <2>2, AloneIsWhole
  <2> QED BY <2>3 DEF Unpacks, Content
<1>5. crc' = crc /\ (Settled => crc = Input)
  BY <1>1 DEF ContentIInv, PackIsExact
<1>6. PartsAreExact' /\ PackIsExact'
  BY <1>3, <1>4, <1>5 DEF PartsAreExact, PackIsExact
<1> QED BY <1>2, <1>6 DEF ContentIInv

LEMMA PackStaysExact ==
  ASSUME EncodeIInv, ContentIInv, PackStore \/ PackDeflate \/ PackOther PROVE ContentIInv'
<1>1. \E n : out' = Alone(n)
  BY DEF PackStore, PackDeflate, PackOther
<1>2. /\ at \in {"pack", "deflate"} /\ at' = "seal"
      /\ UNCHANGED <<vars, opts, disk, listed, k, raw, crc, done>>
  BY DEF PackStore, PackDeflate, PackOther, Worker
<1> QED BY <1>1, <1>2, AloneStaysExact

(* Another program writes to a file: what is unsettled is of that file, and  *)
(* the entries written are of others.                                        *)
LEMMA FileChangesStaysExact ==
  ASSUME EncodeIInv, ContentIInv, NEW f \in DOMAIN listed, FileChanges(f) PROVE ContentIInv'
<1>1. PICK n \in FileLens : disk' = [disk EXCEPT ![f] = Append(@, n)]
  BY DEF FileChanges
<1>2. /\ UNCHANGED <<vars, opts, listed, k, raw, crc, buf, scratch, parts, out, done>>
      /\ UNCHANGED at /\ f \in k..Len(listed)
  BY DEF FileChanges
<1>3. /\ disk[f] \in Seq(Nat) /\ n \in Nat /\ disk[f] # <<>> /\ k \in Nat \ {0}
      /\ DOMAIN disk = DOMAIN listed
      /\ \A g \in DOMAIN listed : disk[g] \in Seq(Nat) /\ disk[g] # <<>>
  BY Facts DEF EncodeIInv, Inputs
<1>4. /\ Append(disk[f], n)[1] = disk[f][1]
      /\ Len(Append(disk[f], n)) = Len(disk[f]) + 1 /\ Len(disk[f]) \in Nat \ {0}
  BY <1>3
<1>5. \A g \in DOMAIN listed : disk'[g] = IF g = f THEN Append(disk[f], n) ELSE disk[g]
  BY <1>1, <1>3
<1>6. ListedFirst'
  BY <1>2, <1>4, <1>5 DEF ListedFirst, ContentIInv
<1>7. WrittenIsExact'
  <2>1. ASSUME NEW g \in 1..(k - 1) PROVE disk'[g] = disk[g]
    <3>1. g # f
      BY <1>2, <1>3
    <3> QED BY <1>1, <3>1
  <2> QED BY <1>2, <2>1, StaysWritten DEF ContentIInv, vars
<1>8. Untouched' => Untouched
  <2>1. CASE k = f
    <3>1. disk'[f] = Append(disk[f], n)
      BY <1>5
    <3>2. Len(disk'[f]) # 1
      BY <1>4, <3>1
    <3> QED BY <1>2, <2>1, <3>2 DEF Untouched
  <2>2. CASE k # f
    BY <1>1, <1>2, <2>2 DEF Untouched
  <2> QED BY <2>1, <2>2
<1>9. Input' = Input /\ (Settled' => Settled)
  BY <1>2, <1>8 DEF Input, Settled
<1>10. ReadIsExact'
  <2>1. Working' = Working /\ Reading' = Reading /\ Maps(listed[k])' = Maps(listed[k])
    BY <1>2 DEF Working, Reading, Maps
  <2> QED BY <1>2, <1>8, <1>9, <2>1 DEF ReadIsExact, ContentIInv
<1>11. PackIsExact'
  <2>1. Unpacks(out)' = Unpacks(out) /\ Content(out)' = Content(out) /\ Roomy(out)' = Roomy(out)
    BY <1>2 DEF Unpacks, Content, Roomy
  <2> QED BY <1>2, <1>9, <2>1 DEF PackIsExact, ContentIInv, Working
<1>12. PartsAreExact'
  <2>1. Chunks' = Chunks /\ SingleFileParallel' = SingleFileParallel
    BY <1>2 DEF Chunks, SingleFileParallel
  <2>2. \A i : PartIsExact(i) => PartIsExact(i)'
    BY <1>2, <1>9 DEF PartIsExact, From, UpTo, ChunkLen
  <2>3. \A i : Joined(i) => Joined(i)'
    BY <1>2, <2>1 DEF Joined
  <2> QED BY <1>2, <2>1, <2>2, <2>3 DEF PartsAreExact, ContentIInv
<1> QED BY <1>6, <1>7, <1>10, <1>11, <1>12 DEF ContentIInv

-----------------------------------------------------------------------------
(* Packing in parts: the chunks cover the file, one behind the other.        *)

LEMMA ChunkCount ==
  ASSUME NEW len \in Nat, NEW c \in Nat \ {0}, NEW n, n = (len + c - 1) \div c
  PROVE  /\ n \in Nat /\ n * c \in Nat /\ len <= n * c /\ n * c <= len + c - 1
         /\ len > 0 => n > 0
<1>1. PICK a \in Nat : a = len + c - 1
  OBVIOUS
<1>2. a \div c \in Nat /\ (a \div c) * c <= a /\ a < (a \div c) * c + c
  OBVIOUS
<1>3. n \in Nat /\ n * c <= a /\ a < n * c + c
  BY <1>1, <1>2
<1>4. n * c \in Nat
  BY <1>3
<1>5. PICK m \in Nat : m = n * c
  BY <1>4
<1>6. len <= m /\ m <= len + c - 1
  BY <1>1, <1>3, <1>5
<1>7. n = 0 => m = 0
  BY <1>5
<1> QED BY <1>3, <1>5, <1>6, <1>7

LEMMA ChunkPlaces ==
  ASSUME NEW len \in Nat, NEW c \in Nat \ {0}, NEW n \in Nat, n * c <= len + c - 1,
         NEW i \in 1..n
  PROVE  /\ i * c \in Nat /\ (i - 1) * c \in Nat /\ (i - 1) * c = i * c - c
         /\ (i - 1) * c <= len - 1
<1>1. i * c <= n * c
  OBVIOUS
<1>2. (i - 1) * c = i * c - c
  OBVIOUS
<1>3. i * c \in Nat /\ n * c \in Nat /\ (i - 1) * c \in Nat
  <2>1. i \in Nat /\ i - 1 \in Nat
    OBVIOUS
  <2>2. \A x \in Nat : x * c \in Nat
    OBVIOUS
  <2> QED BY <2>1, <2>2
<1>4. PICK x \in Nat : x = i * c
  BY <1>3
<1>5. PICK y \in Nat : y = n * c
  BY <1>3
<1>6. x - c <= len - 1
  BY <1>1, <1>4, <1>5
<1> QED BY <1>2, <1>3, <1>4, <1>6

(* Where chunk i ends.                                                       *)
CutAfter(i) == Lesser(i * Chunk, raw.len)

LEMMA ChunkRange ==
  ASSUME Read
  PROVE  /\ Chunks \in Nat /\ (raw.len > 0 => Chunks > 0)
         /\ raw.len > 0 => CutAfter(0) = 0 /\ CutAfter(Chunks) = raw.len
         /\ \A i \in 1..Chunks :
              /\ From(i) = CutAfter(i - 1) + 1 /\ UpTo(i) = CutAfter(i)
              /\ CutAfter(i - 1) \in Nat /\ CutAfter(i) \in Nat
              /\ CutAfter(i - 1) <= CutAfter(i) /\ CutAfter(i) <= raw.len
<1>1. PICK len \in Nat : len = raw.len
  BY DEF Read
<1>2. PICK n : n = Chunks
  OBVIOUS
<1>3. n = (len + Chunk - 1) \div Chunk /\ Chunk \in Nat \ {0}
  BY <1>1, <1>2, Facts DEF Chunks
<1>4. /\ n \in Nat /\ n * Chunk \in Nat /\ len <= n * Chunk /\ n * Chunk <= len + Chunk - 1
      /\ len > 0 => n > 0
  BY <1>3, ChunkCount
<1>5. CutAfter(n) = len
  BY <1>1, <1>4 DEF CutAfter, Lesser
<1>6. len > 0 => CutAfter(0) = 0
  <2>1. 0 * Chunk = 0
    BY <1>3
  <2> QED BY <1>1, <2>1 DEF CutAfter, Lesser
<1>7. ASSUME NEW i \in 1..n
      PROVE  /\ From(i) = CutAfter(i - 1) + 1 /\ UpTo(i) = CutAfter(i)
             /\ CutAfter(i - 1) \in Nat /\ CutAfter(i) \in Nat
             /\ CutAfter(i - 1) <= CutAfter(i) /\ CutAfter(i) <= len
  <2>1. /\ i * Chunk \in Nat /\ (i - 1) * Chunk \in Nat /\ (i - 1) * Chunk = i * Chunk - Chunk
        /\ (i - 1) * Chunk <= len - 1
    BY <1>3, <1>4, ChunkPlaces
  <2>2. PICK a \in Nat : a = (i - 1) * Chunk
    BY <2>1
  <2>3. PICK b \in Nat : b = i * Chunk
    BY <2>1
  <2>4. b = a + Chunk /\ a <= len - 1
    BY <1>3, <2>1, <2>2, <2>3
  <2>5. CutAfter(i - 1) = Lesser(a, len) /\ CutAfter(i) = Lesser(b, len)
    BY <1>1, <2>2, <2>3 DEF CutAfter
  <2>6. From(i) = a + 1 /\ UpTo(i) = a + Lesser(Chunk, len - a)
    BY <1>1, <2>2 DEF From, UpTo, ChunkLen
  <2>7. Lesser(a, len) = a
    BY <2>4 DEF Lesser
  <2>8. Lesser(b, len) = a + Lesser(Chunk, len - a) /\ Lesser(b, len) \in Nat
        /\ a <= Lesser(b, len) /\ Lesser(b, len) <= len
    BY <1>3, <2>4 DEF Lesser
  <2> QED BY <2>5, <2>6, <2>7, <2>8
<1> QED BY <1>1, <1>2, <1>4, <1>5, <1>6, <1>7

LEMMA ChunkSeen ==
  ASSUME Inputs, Read, ListedFirst, ReadIsExact, Working, Settled, NEW i \in 1..Chunks
  PROVE  Seen(From(i), UpTo(i)) = SubSeq(Input, From(i), UpTo(i))
<1>1. PICK a \in Nat : a = CutAfter(i - 1) /\ From(i) = a + 1
  BY ChunkRange
<1>2. PICK b \in Nat : b = CutAfter(i) /\ UpTo(i) = b
  BY ChunkRange
<1>3. a <= b /\ b <= raw.len
  BY <1>1, <1>2, ChunkRange
<1>4. a + 1 \in Nat \ {0} /\ a + 1 <= b + 1
  BY <1>3
<1> QED BY <1>1, <1>2, <1>3, <1>4, SeenIsInput

LEMMA StartPartsStaysExact == ASSUME EncodeIInv, ContentIInv, StartParts PROVE ContentIInv'
<1>1. /\ at = "pack" /\ at' = "parts" /\ Working /\ SingleFileParallel
      /\ UNCHANGED <<vars, opts, disk, listed, k, raw, crc, buf, scratch, out, done>>
  BY DEF StartParts, Worker, Working
<1>2. ListedFirst' /\ ReadIsExact' /\ WrittenIsExact'
  BY <1>1, StaysListed, StaysRead, StaysWritten DEF ContentIInv, vars
<1>3. Input' = Input /\ Settled' = Settled /\ Chunks' = Chunks
      /\ SingleFileParallel' = SingleFileParallel
  BY <1>1, InHand
<1>4. out = NoOut /\ (Settled => crc = Input)
  BY <1>1 DEF ContentIInv, PackIsExact
<1>5. PackIsExact'
  BY <1>1, <1>3, <1>4 DEF PackIsExact
<1>6. Read /\ Chunks \in Nat
  BY ChunkRange DEF EncodeIInv
<1>7. ASSUME NEW i \in 1..Chunks PROVE PartIsExact(i)'
  <2>1. PICK total \in PartTotals :
          parts' = [j \in 1..Chunks |->
                     [of |-> <<>>, bytes |-> 0, cap |-> FirstRoom(ChunkLen(j)),
                      total |-> total[j], fits |-> total[j] <= FirstRoom(ChunkLen(j)),
                      ended |-> FALSE, whole |-> FALSE]]
    BY DEF StartParts
  <2>2. PICK room, size : room = FirstRoom(ChunkLen(i)) /\ size = total[i]
    OBVIOUS
  <2>3. parts'[i] = [of |-> <<>>, bytes |-> 0, cap |-> room, total |-> size,
                     fits |-> size <= room, ended |-> FALSE, whole |-> FALSE]
    BY <2>1, <2>2
  <2>4. CASE size <= room
    <3>1. /\ ~ parts'[i].ended /\ parts'[i].bytes = 0
          /\ parts'[i].cap = room /\ parts'[i].total = size
      BY <2>3
    <3> QED BY <2>4, <3>1 DEF PartIsExact
  <2>5. CASE ~ (size <= room)
    <3>1. parts'[i].fits = (size <= room)
      BY <2>3
    <3> QED BY <2>5, <3>1 DEF PartIsExact
  <2> QED BY <2>4, <2>5
<1>8. out.parts = <<>> /\ out.eos = FALSE /\ Len(<<>>) = 0
  BY <1>4 DEF NoOut
<1>9. PartsAreExact'
  <2>1. out'.parts = <<>> /\ out'.eos = FALSE /\ Len(out'.parts) = 0
    BY <1>1, <1>8
  <2>2. \A i \in 1..Chunks' : PartIsExact(i)'
    BY <1>3, <1>7
  <2>3. 1..0 = {} /\ 0 <= Chunks'
    BY <1>3, <1>6
  <2> QED BY <1>1, <1>3, <2>1, <2>2, <2>3 DEF PartsAreExact
<1> QED BY <1>2, <1>5, <1>9 DEF ContentIInv

(* A round on a chunk that has the room ends it, with what was seen of it.   *)
LEMMA RoundIsExact ==
  ASSUME EncodeIInv, ContentIInv, NEW i \in 1..Chunks, PartRound(i)
  PROVE  PartIsExact(i)'
<1>1. /\ at = "parts" /\ at' = "parts" /\ Working /\ ~ parts[i].ended
      /\ UNCHANGED <<vars, opts, disk, listed, k, raw, crc, buf, scratch, out, done>>
  BY DEF PartRound, Worker, Working
<1>2. DOMAIN parts = 1..Chunks /\ Part(parts[i]) /\ Inputs /\ Read /\ ListedFirst /\ ReadIsExact
  BY <1>1 DEF EncodeIInv, Parts, ContentIInv
<1>3. Input' = Input /\ Settled' = Settled /\ From(i)' = From(i) /\ UpTo(i)' = UpTo(i)
  BY <1>1, InHand
<1> DEFINE p == parts[i]
           seen == IF p.bytes = 0 THEN Seen(From(i), UpTo(i)) ELSE p.of
<1>4. CASE p.fits
  <2>1. p.bytes = 0 /\ p.total <= p.cap /\ p.cap \in Nat /\ p.total \in Nat
    BY <1>1, <1>2, <1>4 DEF ContentIInv, PartsAreExact, PartIsExact, Part
  <2>2. p.total - p.bytes <= p.cap - p.bytes /\ ~ (p.total - p.bytes > p.cap - p.bytes)
    BY <2>1
  <2>3. parts' = [parts EXCEPT ![i] = PartNow(p, seen, p.total, p.cap, TRUE, TRUE)]
    <3> HIDE DEF p
    <3> QED BY <2>2 DEF PartRound, From, UpTo, p
  <2>4. parts'[i] = PartNow(p, seen, p.total, p.cap, TRUE, TRUE)
    BY <1>2, <2>3
  <2>5. parts'[i].ended /\ parts'[i].whole /\ parts'[i].of = Seen(From(i), UpTo(i))
    BY <2>1, <2>4 DEF PartNow
  <2>6. Settled => Seen(From(i), UpTo(i)) = SubSeq(Input, From(i), UpTo(i))
    BY <1>1, <1>2, ChunkSeen
  <2> QED BY <1>3, <2>5, <2>6 DEF PartIsExact
<1>5. CASE ~ p.fits
  <2>9. p.bytes \in Nat /\ p.cap \in Nat /\ p.total \in Nat
    BY <1>2 DEF Part
  <2>1. ASSUME p.total - p.bytes <= p.cap - p.bytes PROVE parts'[i].fits = p.fits
    <3>1. parts' = [parts EXCEPT ![i] = PartNow(p, seen, p.total, p.cap, TRUE, TRUE)]
      <4>1. ~ (p.total - p.bytes > p.cap - p.bytes)
        BY <2>1, <2>9
      <4> HIDE DEF p
      <4> QED BY <2>1, <4>1 DEF PartRound, From, UpTo, p
    <3>2. parts'[i] = PartNow(p, seen, p.total, p.cap, TRUE, TRUE)
      BY <1>2, <3>1
    <3> QED BY <3>2 DEF PartNow
  <2>2. ASSUME ~ (p.total - p.bytes <= p.cap - p.bytes) PROVE parts'[i].fits = p.fits
    <3> DEFINE grow == Greater(ChunkLen(i) \div 4, PartGrow)
               after(ended) == IF ended THEN p.cap ELSE Reserve(p.cap, p.cap, grow)
    <3>1. PICK consumed \in BOOLEAN :
            LET ended == consumed /\ ~ (i = Chunks) IN
            parts' = [parts EXCEPT ![i] = PartNow(p, seen, p.cap, after(ended), ended, FALSE)]
      BY <2>2 DEF PartRound, From, UpTo
    <3>2. PICK ended : ended = (consumed /\ ~ (i = Chunks))
      OBVIOUS
    <3>3. parts'[i] = PartNow(p, seen, p.cap, after(ended), ended, FALSE)
      <4> HIDE DEF seen, after, p
      <4>1. parts' = [parts EXCEPT ![i] = PartNow(p, seen, p.cap, after(ended), ended, FALSE)]
        BY <3>1, <3>2
      <4> QED BY <1>2, <4>1
    <3> HIDE DEF seen, after, p
    <3> QED BY <3>3 DEF PartNow
  <2>3. parts'[i].fits = p.fits
    BY <2>1, <2>2
  <2> QED BY <1>5, <2>3 DEF PartIsExact
<1> QED BY <1>4, <1>5

LEMMA PartRoundStaysExact ==
  ASSUME EncodeIInv, ContentIInv, NEW i \in 1..Chunks, PartRound(i) PROVE ContentIInv'
<1>1. /\ at = "parts" /\ at' = "parts" /\ Working /\ ~ parts[i].ended
      /\ UNCHANGED <<vars, opts, disk, listed, k, raw, crc, buf, scratch, out, done>>
  BY DEF PartRound, Worker, Working
<1>2. ListedFirst' /\ ReadIsExact' /\ WrittenIsExact'
  BY <1>1, StaysListed, StaysRead, StaysWritten DEF ContentIInv, vars
<1>3. /\ Input' = Input /\ Settled' = Settled /\ Chunks' = Chunks
      /\ SingleFileParallel' = SingleFileParallel
      /\ \A j : From(j)' = From(j) /\ UpTo(j)' = UpTo(j)
  BY <1>1, InHand
<1>4. PackIsExact'
  <2>1. Settled => crc = Input
    BY <1>1 DEF ContentIInv, PackIsExact
  <2> QED BY <1>1, <1>3, <2>1 DEF PackIsExact
<1>5. PartIsExact(i)'
  BY RoundIsExact
<1>6. ASSUME NEW j \in 1..Chunks, j # i PROVE PartIsExact(j)'
  <2>1. \E r : parts' = [parts EXCEPT ![i] = r]
    BY DEF PartRound
  <2>2. DOMAIN parts = 1..Chunks /\ PartIsExact(j)
    BY <1>1 DEF EncodeIInv, Parts, ContentIInv, PartsAreExact
  <2>3. parts'[j] = parts[j]
    BY <1>6, <2>1, <2>2
  <2> QED BY <1>3, <2>2, <2>3 DEF PartIsExact
<1>7. \A j \in 1..Chunks : PartIsExact(j)'
  BY <1>5, <1>6
<1>8. out.parts = <<>> /\ out.eos = FALSE /\ SingleFileParallel /\ Len(out.parts) <= Chunks
  BY <1>1 DEF ContentIInv, PartsAreExact
<1>9. PartsAreExact'
  <2>1. out'.parts = <<>> /\ out'.eos = FALSE /\ 1..Len(out'.parts) = {}
    BY <1>1, <1>8
  <2> QED BY <1>1, <1>3, <1>7, <1>8, <2>1 DEF PartsAreExact
<1> QED BY <1>2, <1>4, <1>9 DEF ContentIInv

(* All chunks packed whole, one behind the other, are the file.              *)
LEMMA PartsMakeTheFile ==
  ASSUME EncodeIInv, ContentIInv, at = "parts", Settled, Len(out.parts) = Chunks,
         \A i \in 1..Chunks : parts[i].ended, Roomy(out)
  PROVE  Unpacks(out) /\ Content(out) = Input
<1>1. Inputs /\ Read /\ ListedFirst /\ ReadIsExact /\ Working /\ IsSeq(out.parts)
  BY DEF EncodeIInv, ContentIInv, Working, Packed
<1>2. /\ SingleFileParallel /\ out.eos = FALSE
      /\ \A i \in 1..Chunks : PartIsExact(i)
      /\ \A i \in 1..Chunks : Joined(i)
  BY DEF ContentIInv, PartsAreExact
<1>3. PICK n : n = Chunks
  OBVIOUS
<1>4. DOMAIN out.parts = 1..n /\ Len(out.parts) = n
  BY <1>1, <1>3 DEF IsSeq
<1>5. raw.len > 0
  <2>1. k = 1 /\ listed[k] >= ParallelFrom /\ k <= Len(listed)
    BY <1>1, <1>2 DEF SingleFileParallel, ReadIsExact, Inputs
  <2>2. listed[k] \in Nat
    BY <1>1, <2>1, FileNow
  <2>3. listed[k] > 0 /\ Maps(listed[k])
    BY <2>1, <2>2, EncodeAssumption DEF Maps
  <2>4. Untouched
    BY <1>1, <2>3 DEF ReadIsExact, Settled
  <2> QED BY <1>1, <2>3, <2>4 DEF ReadIsExact
<1>6. n \in Nat \ {0}
  BY <1>1, <1>3, <1>5, ChunkRange
<1>7. ASSUME NEW i \in 1..n
      PROVE  /\ out.parts[i].whole /\ (out.parts[i].last <=> i = n)
             /\ out.parts[i].of = SubSeq(Input, From(i), UpTo(i))
  <2>1. Joined(i) /\ PartIsExact(i) /\ parts[i].ended
    BY <1>2, <1>3
  <2>2. out.parts[i].fits
    BY <1>4 DEF Roomy
  <2>3. parts[i].fits /\ out.parts[i].of = parts[i].of /\ out.parts[i].whole = parts[i].whole
    BY <2>1, <2>2 DEF Joined
  <2>4. out.parts[i].last = (i = n)
    <3>1. out.parts[i].last = (i = Chunks)
      <4>1. PICK b : b = (i = Chunks)
        OBVIOUS
      <4>2. out.parts[i].last = b
        BY <2>1, <4>1 DEF Joined
      <4> QED BY <4>1, <4>2
    <3> QED BY <1>3, <3>1
  <2> QED BY <2>1, <2>3, <2>4 DEF PartIsExact
<1>8. Unpacks(out)
  <2>1. out.parts # <<>>
    BY <1>4, <1>6
  <2>2. opts.method # "lzma"
    BY <1>2 DEF SingleFileParallel
  <2>3. \A i \in DOMAIN out.parts : out.parts[i].whole /\ (out.parts[i].last <=> i = Len(out.parts))
    BY <1>4, <1>7
  <2> QED BY <1>2, <2>1, <2>2, <2>3 DEF Unpacks
<1>9. PICK c : c = [i \in 0..n |-> CutAfter(i)]
  OBVIOUS
<1>10. /\ \A i \in 1..n : c[i] = CutAfter(i) /\ c[i - 1] = CutAfter(i - 1)
       /\ c[0] = CutAfter(0) /\ c[n] = CutAfter(n)
  <2>1. \A i \in 1..n : i \in 0..n /\ i - 1 \in 0..n
    BY <1>6
  <2>2. 0 \in 0..n /\ n \in 0..n
    BY <1>6
  <2> QED BY <1>9, <2>1, <2>2
<1>11. Input \in Seq(Nat) /\ Len(Input) = raw.len
  BY <1>1, InputIsBytes
<1>12. Cuts(c, n, Input)
  <2>1. CutAfter(0) = 0 /\ CutAfter(n) = raw.len
    BY <1>1, <1>3, <1>5, ChunkRange
  <2>2. \A i \in 1..n : /\ CutAfter(i) \in Nat /\ CutAfter(i - 1) \in Nat
                        /\ CutAfter(i - 1) <= CutAfter(i) /\ CutAfter(i) <= raw.len
    BY <1>1, <1>3, ChunkRange
  <2> QED BY <1>10, <1>11, <2>1, <2>2 DEF Cuts
<1>13. PICK pieces : pieces = [i \in DOMAIN out.parts |-> out.parts[i].of]
  OBVIOUS
<1>14. DOMAIN pieces = 1..n /\ \A i \in 1..n : pieces[i] = SubSeq(Input, From(i), UpTo(i))
  BY <1>4, <1>7, <1>13
<1>15. CutAt(Input, c, n, pieces)
  <2>1. ASSUME NEW i \in 1..n PROVE pieces[i] = SubSeq(Input, c[i - 1] + 1, c[i])
    <3>1. From(i) = CutAfter(i - 1) + 1 /\ UpTo(i) = CutAfter(i)
      BY <1>1, <1>3, ChunkRange
    <3>2. From(i) = c[i - 1] + 1 /\ UpTo(i) = c[i]
      BY <1>10, <3>1
    <3> QED BY <1>14, <3>2
  <2> QED BY <2>1 DEF CutAt
<1>16. Len(pieces) = n
  <2>1. n \in Nat /\ pieces = [i \in 1..n |-> pieces[i]]
    BY <1>4, <1>6, <1>13
  <2> QED BY <2>1
<1>17. FlattenSeq(pieces) = Input
  BY <1>6, <1>11, <1>12, <1>15, <1>16, PiecesTogether
<1> QED BY <1>8, <1>13, <1>17 DEF Content

LEMMA ConcatPartsStaysExact == ASSUME EncodeIInv, ContentIInv, ConcatParts PROVE ContentIInv'
<1> DEFINE i == Len(out.parts) + 1
<1>1. /\ at = "parts" /\ at' = (IF i > Chunks THEN "seal" ELSE "parts") /\ Working
      /\ \A j \in 1..Chunks : parts[j].ended
      /\ UNCHANGED <<vars, opts, disk, listed, k, raw, crc, buf, scratch, done>>
  BY DEF ConcatParts, Worker, Working
<1>2. ListedFirst' /\ ReadIsExact' /\ WrittenIsExact'
  BY <1>1, StaysListed, StaysRead, StaysWritten DEF ContentIInv, vars
<1>3. /\ Input' = Input /\ Settled' = Settled /\ Chunks' = Chunks
      /\ SingleFileParallel' = SingleFileParallel
      /\ \A j : From(j)' = From(j) /\ UpTo(j)' = UpTo(j)
  BY <1>1, InHand
<1>4. Settled => crc' = Input
  BY <1>1 DEF ContentIInv, PackIsExact
<1>5. /\ SingleFileParallel /\ Len(out.parts) <= Chunks /\ out.eos = FALSE
      /\ \A j \in 1..Chunks : PartIsExact(j)
      /\ \A j \in 1..Len(out.parts) : Joined(j)
  BY <1>1 DEF ContentIInv, PartsAreExact
<1>6. Chunks \in Nat /\ Len(out.parts) \in Nat /\ IsSeq(out.parts)
      /\ DOMAIN out.parts = 1..Len(out.parts)
  BY ChunkRange DEF EncodeIInv, Packed, IsSeq
<1>7. CASE i > Chunks
  <2>1. at' = "seal" /\ out' = out /\ Len(out.parts) = Chunks
    BY <1>1, <1>5, <1>6, <1>7 DEF ConcatParts
  <2>2. Settled /\ Roomy(out) => Unpacks(out) /\ Content(out) = Input
    BY <1>1, <2>1, PartsMakeTheFile
  <2>3. Unpacks(out)' = Unpacks(out) /\ Content(out)' = Content(out) /\ Roomy(out)' = Roomy(out)
    BY <1>1, <2>1 DEF Unpacks, Content, Roomy
  <2>4. PartsAreExact' /\ PackIsExact'
    BY <1>3, <1>4, <2>1, <2>2, <2>3 DEF PartsAreExact, PackIsExact
  <2> QED BY <1>2, <2>4 DEF ContentIInv
<1>8. CASE ~ (i > Chunks)
  <2> DEFINE r == [of |-> parts[i].of, whole |-> parts[i].whole,
                   fits |-> parts[i].fits, last |-> i = Chunks]
  <2>1. /\ at' = "parts" /\ parts' = parts
        /\ out'.parts = Append(out.parts, r) /\ out'.eos = out.eos
    BY <1>1, <1>8 DEF ConcatParts
  <2>2. PackIsExact'
    BY <1>3, <1>4, <2>1 DEF PackIsExact
  <2>3. \A j \in 1..Chunks : PartIsExact(j)'
    BY <1>3, <1>5, <2>1 DEF PartIsExact
  <2>4. PICK S : out.parts \in Seq(S)
    BY <1>6 DEF IsSeq
  <2>5. i \in 1..Chunks /\ Len(out'.parts) = i
        /\ out'.parts[i] = r /\ \A j \in 1..Len(out.parts) : out'.parts[j] = out.parts[j]
    <3> HIDE DEF r
    <3>1. out.parts \in Seq(S \cup {r})
      BY <2>4
    <3> QED BY <1>6, <1>8, <2>1, <3>1
  <2>6. ASSUME NEW j \in 1..i PROVE Joined(j)'
    <3>1. CASE j = i
      BY <1>3, <2>1, <2>5, <3>1 DEF Joined
    <3>2. CASE j # i
      <4>1. j \in 1..Len(out.parts)
        BY <1>6, <3>2
      <4>2. out'.parts[j] = out.parts[j] /\ Joined(j)
        BY <1>5, <2>5, <4>1
      <4> HIDE DEF i
      <4> QED BY <1>3, <2>1, <4>2 DEF Joined
    <3> QED BY <3>1, <3>2
  <2>7. PartsAreExact'
    <3>1. \A j \in 1..Chunks' : parts'[j].ended
      BY <1>1, <1>3, <2>1
    <3>2. Len(out'.parts) <= Chunks' /\ \A j \in 1..Len(out'.parts) : Joined(j)'
      <4> HIDE DEF i
      <4> QED BY <1>3, <1>6, <2>5, <2>6
    <3>3. \A j \in 1..Chunks' : PartIsExact(j)'
      BY <1>3, <2>3
    <3>4. SingleFileParallel' /\ out'.eos = FALSE
      BY <1>3, <1>5, <2>1
    <3> QED BY <3>1, <3>2, <3>3, <3>4 DEF PartsAreExact
  <2> QED BY <1>2, <2>2, <2>7 DEF ContentIInv
<1> QED BY <1>7, <1>8

-----------------------------------------------------------------------------
(* Sealing.                                                                  *)

(* The envelope opens, whatever its length.                                  *)
LEMMA FrameOpens == ASSUME EncodeIInv PROVE Unsealed(Frame)
<1>1. PICK n \in Nat : n = out.bytes
  BY DEF EncodeIInv, Packed
<1>2. Unsealed(Bare(n))
  BY DEF Bare, Unsealed
<1>3. Unsealed(Sealed(n))
  BY DEF Sealed, Unsealed, MacRange, AE2_OVERHEAD, SALT_LEN, VERIFY_LEN, MAC_LEN
<1> QED BY <1>1, <1>2, <1>3 DEF Frame

LEMMA WriteEncodedStaysExact == ASSUME EncodeIInv, ContentIInv, WriteEncoded PROVE ContentIInv'
<1>1. /\ at = "seal" /\ at' = "read" /\ k <= Len(listed) /\ Working
      /\ done' = Append(done, Encoded) /\ k' = k + 1 /\ out' = NoOut
      /\ UNCHANGED <<opts, disk, listed, buf, scratch, parts>>
  BY DEF WriteEncoded, Worker, Working
<1>2. PICK name \in NameLens : WriteEntry(Meta(name))
  BY DEF WriteEncoded
<1>3. entries' = Append(entries, [entry |-> Meta(name), offset |-> pos])
  BY <1>2 DEF WriteEntry
<1>4. /\ Inputs /\ Read /\ Packed /\ ReadIsExact /\ k \in Nat \ {0}
      /\ Len(listed) \in Nat
  BY DEF EncodeIInv, ContentIInv, Inputs
<1>5. /\ IsSeq(done) /\ IsSeq(entries) /\ Len(done) = k - 1 /\ Len(entries) = k - 1
      /\ \A f \in 1..(k - 1) : EntryAccepted(f) /\ EntryExact(f)
  BY DEF ContentIInv, WrittenIsExact
<1>6. /\ IsSeq(done') /\ Len(done') = k /\ done'[k] = Encoded
      /\ \A f \in 1..(k - 1) : done'[f] = done[f]
  <2>1. PICK S : done \in Seq(S)
    BY <1>5 DEF IsSeq
  <2>2. PICK e : e = Encoded
    OBVIOUS
  <2>3. done \in Seq(S \cup {e})
    BY <2>1
  <2>4. done' \in Seq(S \cup {e}) /\ Len(done') = k /\ done'[k] = e
        /\ \A f \in 1..(k - 1) : done'[f] = done[f]
    BY <1>1, <1>4, <1>5, <2>2, <2>3
  <2> QED BY <2>2, <2>4 DEF IsSeq
<1>7. /\ IsSeq(entries') /\ Len(entries') = k /\ entries'[k].entry = Meta(name)
      /\ \A f \in 1..(k - 1) : entries'[f] = entries[f]
  <2>1. PICK S : entries \in Seq(S)
    BY <1>5 DEF IsSeq
  <2>2. PICK e : e = [entry |-> Meta(name), offset |-> pos]
    OBVIOUS
  <2>3. entries \in Seq(S \cup {e})
    BY <2>1
  <2>4. entries' \in Seq(S \cup {e}) /\ Len(entries') = k /\ entries'[k] = e
        /\ \A f \in 1..(k - 1) : entries'[f] = entries[f]
    BY <1>3, <1>4, <1>5, <2>2, <2>3
  <2>5. e.entry = Meta(name)
    BY <2>2
  <2> QED BY <2>4, <2>5 DEF IsSeq
<1>8. ASSUME NEW f \in 1..(k - 1) PROVE EntryAccepted(f)' /\ EntryExact(f)'
  <2>1. EntryAccepted(f) /\ EntryExact(f) /\ done'[f] = done[f] /\ entries'[f] = entries[f]
    BY <1>5, <1>6, <1>7
  <2>2. ChangedWhileMapped(f)' = ChangedWhileMapped(f) /\ OutOfRoom(f)' = OutOfRoom(f)
    BY <1>1, <2>1 DEF ChangedWhileMapped, OutOfRoom
  <2>3. Accepts(f)' = Accepts(f) /\ Content(done'[f]) = Content(done[f])
    BY <1>1, <2>1 DEF Accepts, Unpacks
  <2> QED BY <1>1, <2>1, <2>2, <2>3 DEF EntryAccepted, EntryExact
<1>9. /\ Encoded.parts = out.parts /\ Encoded.eos = out.eos /\ Encoded.frame = Frame
      /\ (~ opts.password => Encoded.wireCrc = crc)
  BY DEF Encoded
<1>10. Content(Encoded) = Content(out) /\ (Unpacks(Encoded) <=> Unpacks(out))
  BY <1>9 DEF Content, Unpacks
<1>11. Settled /\ Roomy(out) => Unpacks(out) /\ Content(out) = Input /\ crc = Input
  BY <1>1 DEF ContentIInv, PackIsExact
<1>12. PICK m \in Nat : m = k
  BY <1>4
<1>13. EntryAccepted(m)' /\ EntryExact(m)'
  <2>1. /\ done'[m] = Encoded /\ entries'[m].entry.uncomp = raw.len
        /\ listed'[m] = listed[k] /\ disk'[m] = disk[k] /\ opts' = opts
    BY <1>1, <1>6, <1>7, <1>12 DEF Meta
  <2>2. OutOfRoom(m)' <=> ~ Roomy(out)
    BY <1>9, <2>1 DEF OutOfRoom, Roomy
  <2>3. ~ ChangedWhileMapped(m)' => Settled
    <3>1. Len(disk[k]) \in Nat \ {0}
      <4>1. k \in DOMAIN listed
        BY <1>1, <1>4 DEF Inputs
      <4>2. disk[k] \in Seq(Nat) /\ disk[k] # <<>>
        BY <1>4, <4>1 DEF Inputs
      <4> QED BY <4>2
    <3>2. raw.mapped => listed[k] >= MmapThreshold
      BY <1>1, <1>4 DEF ReadIsExact, Maps
    <3>3. ChangedWhileMapped(m)' <=> listed[k] >= MmapThreshold /\ Len(disk[k]) > 1
      BY <2>1 DEF ChangedWhileMapped
    <3>4. PICK v \in Nat \ {0} : v = Len(disk[k])
      BY <3>1
    <3>5. ~ (v > 1) => v = 1
      OBVIOUS
    <3>6. ~ ChangedWhileMapped(m)' /\ raw.mapped => Len(disk[k]) = 1
      BY <3>2, <3>3, <3>4, <3>5
    <3> QED BY <3>6 DEF Settled, Untouched
  <2>4. Len(Input) = raw.len
    BY <1>4, InputIsBytes
  <2>5. ASSUME Settled, Roomy(out) PROVE Accepts(m)'
    <3>1. Unpacks(Encoded) /\ Content(Encoded) = Input /\ crc = Input
      BY <1>10, <1>11, <2>5
    <3>2. PICK e : e = Encoded
      OBVIOUS
    <3>3. Unpacks(e)' /\ Content(e) = Input
      BY <2>1, <3>1, <3>2 DEF Unpacks
    <3>4. Unsealed(e.frame)
      BY <1>9, <3>2, FrameOpens
    <3>5. ~ opts'.password => Content(e) = e.wireCrc
      BY <1>9, <2>1, <3>1, <3>2
    <3>6. done'[m] = e
      BY <2>1, <3>2
    <3>7. Unpacks(done[m])'
      BY <3>3, <3>6 DEF Unpacks
    <3> QED BY <2>1, <2>4, <3>3, <3>4, <3>5, <3>6, <3>7 DEF Accepts
  <2>6. ASSUME Untouched, Roomy(out) PROVE Content(done'[m]) = Bytes(listed'[m], 1)
    <3>1. Settled
      BY <2>6 DEF Settled
    <3>2. raw.len = listed[k] /\ Input = Bytes(raw.len, 1)
      BY <1>1, <1>4, <2>6 DEF ReadIsExact
    <3> QED BY <1>10, <1>11, <2>1, <2>6, <3>1, <3>2
  <2>7. Len(disk'[m]) = 1 => Untouched
    BY <2>1 DEF Untouched
  <2> QED BY <2>2, <2>3, <2>5, <2>6, <2>7 DEF EntryAccepted, EntryExact
<1>14. WrittenIsExact'
  <2>1. k' - 1 = k /\ 1..k = 1..(k - 1) \cup {m}
    BY <1>1, <1>4, <1>12
  <2>2. \A f \in 1..k : EntryAccepted(f)' /\ EntryExact(f)'
    BY <1>8, <1>13, <2>1
  <2> QED BY <1>1, <1>6, <1>7, <2>1, <2>2 DEF WrittenIsExact
<1>15. ListedFirst' /\ ReadIsExact' /\ PartsAreExact' /\ PackIsExact'
  <2>1. ~ Working' /\ ~ Reading' /\ raw' = NoRaw /\ Len(<<>>) = 0
    BY <1>1 DEF Working, Reading, WriteEncoded
  <2>2. ReadIsExact'
    BY <2>1 DEF ReadIsExact, NoRaw
  <2>3. PartsAreExact' /\ PackIsExact'
    BY <1>1, <2>1 DEF PartsAreExact, PackIsExact
  <2> QED BY <1>1, <2>2, <2>3, StaysListed DEF ContentIInv
<1> QED BY <1>14, <1>15 DEF ContentIInv

LEMMA FinishStaysExact == ASSUME EncodeIInv, ContentIInv, FinishArchive PROVE ContentIInv'
<1>1. UNCHANGED encodeVars /\ UNCHANGED entries
  BY DEF FinishArchive, Finish, WriteCdr, WriteEnd
<1>2. WrittenIsExact'
  BY <1>1, StaysWritten DEF ContentIInv, encodeVars
<1> QED BY <1>1, <1>2 DEF encodeVars, ContentIInv, ListedFirst, ReadIsExact, Working, Reading,
       Input, Untouched, Maps, PartsAreExact, PartIsExact, Joined, Settled, Chunks, From, UpTo,
       ChunkLen, SingleFileParallel, PackIsExact, Unpacks, Content, Roomy

LEMMA IdleStaysExact == ASSUME EncodeIInv, ContentIInv, UNCHANGED allVars PROVE ContentIInv'
<1>1. UNCHANGED encodeVars /\ UNCHANGED entries
  BY DEF allVars, vars
<1>2. WrittenIsExact'
  BY <1>1, StaysWritten DEF ContentIInv, encodeVars
<1> QED BY <1>1, <1>2 DEF encodeVars, ContentIInv, ListedFirst, ReadIsExact, Working, Reading,
       Input, Untouched, Maps, PartsAreExact, PartIsExact, Joined, Settled, Chunks, From, UpTo,
       ChunkLen, SingleFileParallel, PackIsExact, Unpacks, Content, Roomy

LEMMA ContentStarts == EncodeInit => ContentIInv
<1> SUFFICES ASSUME EncodeInit PROVE ContentIInv
  OBVIOUS
<1>1. /\ at = "read" /\ raw = NoRaw /\ out = NoOut /\ k = 1 /\ done = <<>> /\ entries = <<>>
      /\ disk = [f \in DOMAIN listed |-> <<listed[f]>>]
  BY DEF EncodeInit, Init
<1>2. Inputs
  BY InitEncodeIInv DEF EncodeIInv
<1>3. ListedFirst
  BY <1>1 DEF ListedFirst
<1>4. ~ Working /\ ~ Reading
  BY <1>1 DEF Working, Reading
<1>5. ReadIsExact
  BY <1>1, <1>4 DEF ReadIsExact, NoRaw
<1>6. PartsAreExact /\ PackIsExact
  BY <1>1, <1>4 DEF PartsAreExact, PackIsExact
<1>7. WrittenIsExact
  <2>1. <<>> \in Seq({}) /\ Len(<<>>) = 0 /\ k - 1 = 0 /\ 1..0 = {}
    BY <1>1
  <2>2. Len(listed) \in Nat
    BY <1>2 DEF Inputs
  <2> QED BY <1>1, <2>1, <2>2 DEF WrittenIsExact, IsSeq
<1> QED BY <1>3, <1>5, <1>6, <1>7 DEF ContentIInv

LEMMA ContentNextKeeps == EncodeIInv /\ ContentIInv /\ [EncodeNext]_allVars => ContentIInv'
<1> SUFFICES ASSUME EncodeIInv, ContentIInv, [EncodeNext]_allVars PROVE ContentIInv'
  OBVIOUS
<1>1. CASE \E f \in DOMAIN listed : FileChanges(f)
  BY <1>1, FileChangesStaysExact
<1>2. CASE ReadStep
  BY <1>2, ReadStepStaysExact
<1>3. CASE Killed \/ TakeCrc \/ PackStore \/ MakeRoom \/ PackDeflate \/ PackOther
  BY <1>3, KilledStaysExact, TakeCrcStaysExact, MakeRoomStaysExact, PackStaysExact
<1>4. CASE StartParts \/ (\E i \in 1..Chunks : PartRound(i)) \/ ConcatParts
  BY <1>4, StartPartsStaysExact, PartRoundStaysExact, ConcatPartsStaysExact
<1>5. CASE WriteEncoded
  BY <1>5, WriteEncodedStaysExact
<1>6. CASE FinishArchive
  BY <1>6, FinishStaysExact
<1>7. CASE UNCHANGED allVars
  BY <1>7, IdleStaysExact
<1>8. (Done /\ UNCHANGED encodeVars) \/ Stopped => UNCHANGED allVars
  BY DEF Done, Stopped, allVars
<1> QED BY <1>1, <1>2, <1>3, <1>4, <1>5, <1>6, <1>7, <1>8 DEF EncodeNext, ReadStep

(* The file's bytes are what is hashed and what is packed, at every step     *)
(* from the read to the entry: the inductive invariant of the two theorems   *)
(* below.                                                                    *)
THEOREM ContentInvariant == EncodeSpec => []ContentIInv
  BY ContentStarts, ContentNextKeeps, EncodeInvariant, PTL DEF EncodeSpec

(* A reader of the format accepts every entry, whatever others do to the     *)
(* files between walk, read, CRC and packing (ReaderAccepts says for which). *)
THEOREM EncodedIsAccepted == EncodeSpec => []ReaderAccepts
<1>1. ContentIInv => ReaderAccepts
  BY DEF ContentIInv, WrittenIsExact, EntryAccepted, ReaderAccepts
<1> QED BY <1>1, ContentInvariant, PTL

(* A file nobody wrote to comes out of the archive byte for byte.            *)
THEOREM UnchangedComesBack == EncodeSpec => []UnchangedIsExact
<1>1. ContentIInv => UnchangedIsExact
  BY DEF ContentIInv, WrittenIsExact, EntryExact, UnchangedIsExact
<1> QED BY <1>1, ContentInvariant, PTL
=============================================================================
