-------------------------------- MODULE Encode --------------------------------
(* The way of a file from the disk into the archive: platform.rs and         *)
(* dispatch_io.rs read it, encode_one of pipeline.rs takes its CRC,          *)
(* compress.rs packs it, crypto.rs seals it and ZipWriter writes it.  One    *)
(* worker, one file after another; meanwhile other programs write to the     *)
(* files.                                                                    *)
(*                                                                           *)
(* A byte of content is the version of the file it was read from.  A packed  *)
(* stream is what it was packed from and its length, a sealed body where     *)
(* each part of it lies.  The codecs, the cipher and the hash are external:  *)
(* what they give is undone by their inverse, and any length their interface *)
(* promises may be among those a constant has them give.                     *)
EXTENDS ZipWriter, SequencesExt

CONSTANTS
  FileLens,       \* lengths of files
  MmapThreshold,  \* MMAP_THRESHOLD
  ParallelFrom,   \* PARALLEL_DEFLATE_THRESHOLD
  Chunk,          \* CHUNK of compress_parallel_deflate
  PartSlack,      \* its 128
  PartGrow,       \* its 4096
  DeflateSlack,   \* what deflate_compress_bound adds
  ReadLens(_, _), \* bytes a read may return, of what is left and the room for them
  DeflateLens(_), \* lengths libdeflate may fill a buffer of a length to
  OtherLens(_),   \* lengths the other codecs may make of a length
  PartLens(_),    \* lengths a chunk of a length may pack to
  MaxChanges      \* bound on writes by others

ASSUME EncodeAssumption ==
  /\ FileLens \subseteq Nat
  /\ MmapThreshold \in Nat /\ ParallelFrom \in Nat \ {0} /\ MmapThreshold <= ParallelFrom
  /\ Chunk \in Nat \ {0} /\ PartGrow \in Nat \ {0}
  /\ PartSlack \in Nat /\ DeflateSlack \in Nat \ {0, 1}
  /\ MaxChanges \in Nat

SALT_LEN == 16
VERIFY_LEN == 2
MAC_LEN == 10
AE2_OVERHEAD == SALT_LEN + VERIFY_LEN + MAC_LEN

(* "zstd" stands for the three codecs that pack a buffer in one call.        *)
Methods == {"store", "deflate", "lzma", "zstd"}

(* A byte beyond the end of a file, in the last page of its mapping.         *)
Zero == 0

VARIABLES
  opts,     \* method, password given, dispatch_io, --sort
  disk,     \* per file: its length at each version
  listed,   \* WorkItem.size
  k,        \* the file the worker is at
  at,       \* what it does next; "stopped" after an error or a signal
  raw,      \* ReadBuf
  crc,      \* what the CRC was taken of
  buf,      \* `buf` in compress: length and capacity
  scratch,  \* capacity of scratch.out
  parts,    \* per chunk: its output so far
  out,      \* CompressOut
  done      \* EncodedEntry of each entry written

encodeVars == <<opts, disk, listed, k, at, raw, crc, buf, scratch, parts, out, done>>
allVars == <<vars, encodeVars>>

Bytes(n, ver) == [i \in 1..n |-> ver]
NoRaw == [mapped |-> FALSE, len |-> 0, bytes |-> <<>>]
NoOut == [parts |-> <<>>, bytes |-> 0, eos |-> FALSE]
NoBuf == [len |-> 0, cap |-> 0]

EncodeInit ==
  /\ Init
  /\ opts \in [method : Methods, password : BOOLEAN, dispatch : BOOLEAN, sort : BOOLEAN]
  /\ \E n \in 0..MaxEntries : listed \in [1..n -> FileLens]
  /\ disk = [f \in DOMAIN listed |-> <<listed[f]>>]
  /\ k = 1 /\ at = "read"
  /\ raw = NoRaw /\ crc = <<>> /\ buf = NoBuf /\ scratch = 0
  /\ parts = <<>> /\ out = NoOut /\ done = <<>>

LenNow(f) == Last(disk[f])
VersionNow(f) == Len(disk[f])

(* Another program writes to a file: all of it is of a new version then.     *)
FileChanges(f) ==
  /\ phase = "entries" /\ at # "stopped"
  /\ k <= Len(listed) /\ f \in k..Len(listed)
  /\ Len(disk[f]) <= MaxChanges
  /\ \E n \in FileLens : disk' = [disk EXCEPT ![f] = Append(@, n)]
  /\ UNCHANGED <<vars, opts, listed, k, at, raw, crc, buf, scratch, parts, out, done>>

-----------------------------------------------------------------------------
(* Defects for the pairs in PROJECT.json.                                    *)

MapsAll(size) == TRUE
EndsInAnyCase(failed) == "crc"
ScratchKept(cap) == cap

-----------------------------------------------------------------------------
(* Reading.                                                                  *)

Worker(from, to) == at = from /\ at' = to /\ k <= Len(listed)

Maps(size) == size >= MmapThreshold

(* The mapping has the length the file has now, and no content of its own.   *)
ReadMapped ==
  /\ Worker("read", "crc")
  /\ Maps(listed[k])
  /\ raw' = [mapped |-> TRUE, len |-> LenNow(k), bytes |-> <<>>]
  /\ UNCHANGED <<vars, opts, disk, listed, k, crc, buf, scratch, parts, out, done>>

StartRead ==
  /\ Worker("read", IF opts.dispatch THEN "gcd" ELSE "to_end")
  /\ ~ Maps(listed[k])
  /\ raw' = NoRaw
  /\ UNCHANGED <<vars, opts, disk, listed, k, crc, buf, scratch, parts, out, done>>

Appended(n) ==
  [mapped |-> raw.mapped, len |-> raw.len + n,
   bytes |-> raw.bytes \o Bytes(n, VersionNow(k))]

(* What one read may return of what is left before `end`.                    *)
Readable(end) ==
  LET rest == end - raw.len IN ReadLens(rest, listed[k] - raw.len) \cap 1..rest

(* read_to_end, which reads on to whatever the end of the file is by then.   *)
ReadSome ==
  /\ Worker("to_end", "to_end")
  /\ \E n \in Readable(LenNow(k)) : raw' = Appended(n)
  /\ UNCHANGED <<vars, opts, disk, listed, k, crc, buf, scratch, parts, out, done>>

ReadsEof ==
  /\ Worker("to_end", "crc")
  /\ raw.len >= LenNow(k)
  /\ UNCHANGED <<vars, opts, disk, listed, k, raw, crc, buf, scratch, parts, out, done>>

(* What the reader returns once the handler has seen `done`.                 *)
AfterDone(failed) == IF failed THEN "stopped" ELSE "crc"

(* The handler of dispatch_io_read, called with a piece of data, with an     *)
(* error or with `done`; it is asked for the size the walk has seen.         *)
GcdHandler(n, finished, failed) ==
  /\ Worker("gcd", IF finished THEN AfterDone(failed) ELSE "gcd")
  /\ raw' = IF raw.len + n <= listed[k] THEN Appended(n) ELSE raw
  /\ UNCHANGED <<vars, opts, disk, listed, k, crc, buf, scratch, parts, out, done>>

Lesser(a, b) == IF a < b THEN a ELSE b

(* The system calls it: with `done` at the end of the range or of the file,  *)
(* or when it has failed.  A length of zero is answered without it.          *)
GcdCalls ==
  LET end == Lesser(LenNow(k), listed[k]) IN
  /\ at = "gcd" /\ k <= Len(listed)
  /\ \/ \E n \in Readable(end) : GcdHandler(n, FALSE, FALSE)
     \/ \E n \in Readable(end) \cup {0} : listed[k] > 0 /\ GcdHandler(n, TRUE, TRUE)
     \/ raw.len >= end /\ GcdHandler(0, TRUE, FALSE)

ReadFails ==
  /\ at \in {"read", "to_end"} /\ k <= Len(listed)
  /\ at' = "stopped"
  /\ UNCHANGED <<vars, opts, disk, listed, k, raw, crc, buf, scratch, parts, out, done>>

-----------------------------------------------------------------------------
(* What a mapping or a buffer shows now of its bytes from..to.               *)
Seen(from, to) ==
  IF raw.mapped
    THEN [i \in 1..(to - from + 1) |->
            IF from + i - 1 <= LenNow(k) THEN VersionNow(k) ELSE Zero]
    ELSE SubSeq(raw.bytes, from, to)

(* SIGBUS: a page of the mapping is no longer in the file.                   *)
Killed ==
  /\ at \in {"crc", "pack", "parts"}
  /\ raw.mapped /\ LenNow(k) < raw.len
  /\ at' = "stopped"
  /\ UNCHANGED <<vars, opts, disk, listed, k, raw, crc, buf, scratch, parts, out, done>>

-----------------------------------------------------------------------------
(* Packing.                                                                  *)

(* encode_one: hasher.update(&raw.bytes).                                    *)
TakeCrc ==
  /\ Worker("crc", "pack")
  /\ crc' = Seen(1, raw.len)
  /\ UNCHANGED <<vars, opts, disk, listed, k, raw, buf, scratch, parts, out, done>>

(* Vec::reserve on a vector of `len` bytes.                                  *)
Greater(a, b) == IF a < b THEN b ELSE a
Reserve(cap, len, more) == IF more <= cap - len THEN cap ELSE Greater(2 * cap, len + more)

(* Files of 8 MiB and more, alone in a --sort run: in a streaming run the    *)
(* totals are not known when the workers start.                              *)
SingleFileParallel ==
  opts.method = "deflate" /\ opts.sort /\ Len(listed) = 1 /\ listed[1] >= ParallelFrom

Alone(bytes) ==
  [parts |-> << [of |-> Seen(1, raw.len), whole |-> TRUE, fits |-> TRUE, last |-> TRUE] >>,
   bytes |-> bytes, eos |-> opts.method = "lzma"]

(* mem::take leaves nothing behind, and nothing is put back later.           *)
ScratchAfter(cap) == 0

PackStore ==
  /\ Worker("pack", "seal")
  /\ opts.method = "store"
  /\ scratch' = ScratchAfter(Reserve(scratch, 0, raw.len))
  /\ out' = Alone(raw.len)
  /\ UNCHANGED <<vars, opts, disk, listed, k, raw, crc, buf, parts, done>>

(* deflate_compress_bound, reserve and set_len.                              *)
DeflateBound(n) == n + DeflateSlack

MakeRoom ==
  /\ Worker("pack", "deflate")
  /\ opts.method = "deflate" /\ ~ SingleFileParallel
  /\ LET bound == DeflateBound(raw.len)
         cap == IF scratch < bound THEN Reserve(scratch, 0, bound - scratch) ELSE scratch
     IN  /\ buf' = [len |-> bound, cap |-> cap]
         /\ scratch' = ScratchAfter(cap)
  /\ UNCHANGED <<vars, opts, disk, listed, k, raw, crc, parts, out, done>>

(* libdeflate fills no more than it was given.                               *)
PackDeflate ==
  /\ Worker("deflate", "seal")
  /\ \E n \in DeflateLens(buf.len) \cap 0..buf.len : out' = Alone(n)
  /\ buf' = NoBuf
  /\ UNCHANGED <<vars, opts, disk, listed, k, raw, crc, scratch, parts, done>>

(* An LZMA_ALONE stream has a header of 13 bytes, 5 of which are kept behind *)
(* 4 new ones.                                                               *)
PackOther ==
  /\ Worker("pack", "seal")
  /\ opts.method \in {"lzma", "zstd"}
  /\ \E n \in OtherLens(raw.len) \cap Nat :
       out' = Alone(IF opts.method = "lzma" THEN 4 + 5 + (13 + n - 13) ELSE n)
  /\ UNCHANGED <<vars, opts, disk, listed, k, raw, crc, buf, scratch, parts, done>>

(* compress_parallel_deflate: input.chunks(CHUNK).                           *)
Chunks == (raw.len + Chunk - 1) \div Chunk
ChunkLen(i) == Lesser(Chunk, raw.len - (i - 1) * Chunk)
FirstRoom(n) == n + n \div 100 + PartSlack

(* What each chunk will pack to.                                             *)
PartTotals ==
  {t \in [1..Chunks -> (UNION {PartLens(ChunkLen(i)) : i \in 1..Chunks}) \cap Nat] :
     \A i \in 1..Chunks : t[i] \in PartLens(ChunkLen(i))}

StartParts ==
  /\ Worker("pack", "parts")
  /\ SingleFileParallel
  /\ \E total \in PartTotals :
       parts' = [i \in 1..Chunks |->
                   [of |-> <<>>, bytes |-> 0, cap |-> FirstRoom(ChunkLen(i)),
                    total |-> total[i], fits |-> total[i] <= FirstRoom(ChunkLen(i)),
                    ended |-> FALSE, whole |-> FALSE]]
  /\ UNCHANGED <<vars, opts, disk, listed, k, raw, crc, buf, scratch, out, done>>

PartNow(p, of, bytes, cap, ended, whole) ==
  [of |-> of, bytes |-> bytes, cap |-> cap, total |-> p.total, fits |-> p.fits,
   ended |-> ended, whole |-> whole]

(* One round of the loop over a chunk.  A compressor with room for all it    *)
(* has to say ends its stream or its block; without, it fills the room and   *)
(* may or may not have taken all of its input, which ends the loop too.      *)
PartRound(i) ==
  LET p == parts[i]
      room == p.cap - p.bytes
      more == p.total - p.bytes
      isLast == i = Chunks
      seen == IF p.bytes = 0 THEN Seen((i - 1) * Chunk + 1, (i - 1) * Chunk + ChunkLen(i))
              ELSE p.of
  IN
  /\ Worker("parts", "parts")
  /\ i \in 1..Chunks /\ ~ p.ended
  /\ \/ /\ more <= room
        /\ parts' = [parts EXCEPT ![i] = PartNow(p, seen, p.total, p.cap, TRUE, TRUE)]
     \/ /\ more > room
        /\ \E consumed \in BOOLEAN :
             LET ended == consumed /\ ~ isLast
                 grow == Greater(ChunkLen(i) \div 4, PartGrow)
                 cap == IF ended THEN p.cap ELSE Reserve(p.cap, p.cap, grow)
             IN parts' = [parts EXCEPT ![i] = PartNow(p, seen, p.cap, cap, ended, FALSE)]
  /\ UNCHANGED <<vars, opts, disk, listed, k, raw, crc, buf, scratch, out, done>>

(* concat.extend_from_slice, part after part in the order of the chunks.     *)
ConcatParts ==
  LET i == Len(out.parts) + 1 IN
  /\ Worker("parts", IF i > Chunks THEN "seal" ELSE "parts")
  /\ \A j \in 1..Chunks : parts[j].ended
  /\ out' = IF i > Chunks THEN out
            ELSE [parts |-> Append(out.parts,
                                   [of |-> parts[i].of, whole |-> parts[i].whole,
                                    fits |-> parts[i].fits, last |-> i = Chunks]),
                  bytes |-> out.bytes + parts[i].bytes, eos |-> out.eos]
  /\ parts' = IF i > Chunks THEN <<>> ELSE parts
  /\ UNCHANGED <<vars, opts, disk, listed, k, raw, crc, buf, scratch, done>>

-----------------------------------------------------------------------------
(* Sealing and writing.                                                      *)

Bare(n) == [bytes |-> n, salt |-> <<0, 0>>, verify |-> <<0, 0>>, data |-> <<0, n>>,
            mac |-> <<n, n>>, macOf |-> <<0, n>>]

(* resize by AE2_OVERHEAD, copy_within to behind salt and verifier, cipher   *)
(* in place, and the MAC of the ciphertext at the end.                       *)
MacRange(n) == <<SALT_LEN + VERIFY_LEN, SALT_LEN + VERIFY_LEN + n>>

Sealed(n) ==
  LET start == SALT_LEN + VERIFY_LEN IN
  [bytes |-> n + AE2_OVERHEAD,
   salt |-> <<0, SALT_LEN>>, verify |-> <<SALT_LEN, start>>,
   data |-> <<start, start + n>>,
   mac |-> <<start + n, start + n + MAC_LEN>>, macOf |-> MacRange(n)]

Frame == IF opts.password THEN Sealed(out.bytes) ELSE Bare(out.bytes)

Meta(name) == [name |-> name, body |-> Frame.bytes, uncomp |-> raw.len,
               encrypted |-> opts.password]

Encoded ==
  [frame |-> Frame, parts |-> out.parts, eos |-> out.eos,
   wireCrc |-> IF opts.password THEN <<>> ELSE crc]

WriteEncoded ==
  /\ Worker("seal", "read")
  /\ \E name \in NameLens : WriteEntry(Meta(name))
  /\ done' = Append(done, Encoded)
  /\ k' = k + 1
  /\ raw' = NoRaw /\ crc' = <<>> /\ out' = NoOut
  /\ UNCHANGED <<opts, disk, listed, buf, scratch, parts>>

(* The writer's finish, once every file has arrived.                         *)
FinishArchive ==
  /\ at = "read" /\ k > Len(listed)
  /\ Finish \/ WriteCdr \/ WriteEnd
  /\ UNCHANGED encodeVars

Stopped == at = "stopped" /\ UNCHANGED allVars

EncodeNext ==
  \/ \E f \in DOMAIN listed : FileChanges(f)
  \/ ReadMapped \/ StartRead \/ ReadSome \/ ReadsEof \/ GcdCalls \/ ReadFails \/ Killed
  \/ TakeCrc
  \/ PackStore \/ MakeRoom \/ PackDeflate \/ PackOther
  \/ StartParts \/ (\E i \in 1..Chunks : PartRound(i)) \/ ConcatParts
  \/ WriteEncoded \/ FinishArchive
  \/ (Done /\ UNCHANGED encodeVars) \/ Stopped

EncodeSpec == EncodeInit /\ [][EncodeNext]_allVars

-----------------------------------------------------------------------------
(* A reader of the format, at work on one entry.                             *)

(* The envelope: salt, verifier, data and MAC one behind the other, nothing  *)
(* else in the body, and a MAC of what was deciphered.                       *)
Unsealed(f) ==
  /\ f.salt[1] = 0 /\ f.verify[1] = f.salt[2] /\ f.data[1] = f.verify[2]
  /\ f.mac[1] = f.data[2] /\ f.mac[2] = f.bytes
  /\ f.macOf = f.data

Content(e) == FlattenSeq([i \in DOMAIN e.parts |-> e.parts[i].of])

(* A packed stream ends where it says it does; an LZMA one needs its flag.   *)
Unpacks(e) ==
  /\ e.parts # <<>>
  /\ \A i \in DOMAIN e.parts :
       e.parts[i].whole /\ (e.parts[i].last <=> i = Len(e.parts))
  /\ e.eos <=> opts.method = "lzma"

Accepts(f) ==
  LET e == done[f] IN
  /\ Unsealed(e.frame)
  /\ Unpacks(e)
  /\ Len(Content(e)) = entries[f].entry.uncomp
  /\ ~ opts.password => Content(e) = e.wireCrc

(* Content an entry cannot be held to: read through a mapping while it       *)
(* changed; the empty stream compress_parallel_deflate makes of a file       *)
(* emptied after the walk; a chunk that packs to more than its first room.   *)
ChangedWhileMapped(f) == listed[f] >= MmapThreshold /\ Len(disk[f]) > 1
OutOfRoom(f) == \E i \in DOMAIN done[f].parts : ~ done[f].parts[i].fits
-----------------------------------------------------------------------------
(* Properties.                                                               *)

(* A reader of the format accepts every entry: its envelope opens, its       *)
(* stream ends, and what comes out has the size and the CRC in its headers,  *)
(* whatever other programs did to the file between the walk, the read, the   *)
(* CRC and the packing.  encode_one looks at its input twice.                *)
ReaderAccepts ==
  \A f \in 1..Len(entries) :
    ~ ChangedWhileMapped(f) /\ ~ OutOfRoom(f) => Accepts(f)

(* A file nobody wrote to is archived byte for byte, however its reads were  *)
(* split and whichever of the readers and packers took it.                   *)
UnchangedIsExact ==
  \A f \in 1..Len(entries) :
    Len(disk[f]) = 1 /\ ~ OutOfRoom(f) => Content(done[f]) = Bytes(listed[f], 1)

(* The length compress() gives its buffer without filling it never goes      *)
(* beyond what was allocated, over any sequence of files.                    *)
SetLenWithinCapacity == buf.len <= buf.cap
===============================================================================
