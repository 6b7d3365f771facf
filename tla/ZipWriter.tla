------------------------------ MODULE ZipWriter ------------------------------
(* zipwriter.rs: local headers with their bodies, then the central           *)
(* directory, then its end records, with the ZIP64 forms of each.            *)
(*                                                                           *)
(* A record is kept as its fields and the number of bytes it takes; a name   *)
(* is its length.  Fields have the width they are written with, so a value   *)
(* that does not fit loses its upper bits.  The sentinels are constants:     *)
(* what is proved holds for 2^32 - 1 and 2^16 - 1, and TLC can reach small   *)
(* ones.                                                                     *)
EXTENDS Integers, Sequences, Functions

CONSTANTS
  Max32,       \* 0xFFFF_FFFF: a 32-bit field that says "see the ZIP64 record"
  MaxCount,    \* 0xFFFF for the number of entries
  Max16,       \* 0xFFFF for the length of a name or an extra field
  NameLens,    \* lengths of names
  BodyLens,    \* lengths of bodies
  Sizes,       \* sizes before compression
  MaxEntries   \* bound on entries for TLC

ASSUME ZipAssumption ==
  /\ Max32 \in Nat \ {0} /\ MaxCount \in Nat \ {0}
  /\ Max16 \in Nat /\ Max16 >= 39
  /\ NameLens \subseteq 0..Max16
  /\ BodyLens \subseteq Nat /\ Sizes \subseteq Nat
  /\ MaxEntries \in Nat

U16(x) == x % (Max16 + 1)
U32(x) == x % (Max32 + 1)
OrSentinel(x, max) == IF x < max THEN x ELSE max

Entry == [name : NameLens, body : BodyLens, uncomp : Sizes, encrypted : BOOLEAN]

VARIABLES
  pos,       \* self.pos
  written,   \* bytes `inner` has received
  file,      \* the records it has received
  entries,   \* self.entries: [entry, offset]
  phase,     \* "entries", "directory", "end", "done"
  cdOffset,  \* cd_offset
  nextCdr    \* entry whose directory record is next

vars == <<pos, written, file, entries, phase, cdOffset, nextCdr>>

Init ==
  /\ pos = 0 /\ written = 0 /\ file = <<>>
  /\ entries = <<>>
  /\ phase = "entries"
  /\ cdOffset = 0 /\ nextCdr = 1

-----------------------------------------------------------------------------
(* Defects for the pairs in PROJECT.json.                                    *)

OffsetFieldAfterSentinel(o) == o > Max32
ExtraLenWithoutAes(e, zip64) == IF zip64 THEN 4 + 16 ELSE 0

-----------------------------------------------------------------------------
(* The sizes' and the offset's need for a ZIP64 record.                      *)
NeedsZip64Size(e) == e.body >= Max32 \/ e.uncomp >= Max32
NeedsZip64Offset(o) == o >= Max32

AesLen(e) == IF e.encrypted THEN 4 + 7 ELSE 0

LfhExtraLen(e, zip64) == (IF zip64 THEN 4 + 16 ELSE 0) + AesLen(e)

(* The local file header of e and the body behind it, written at `at`.       *)
Lfh(e, at) ==
  LET zip64 == NeedsZip64Size(e) IN
  [kind     |-> "lfh",
   at       |-> at,
   bytes    |-> 30 + e.name + (IF zip64 THEN 20 ELSE 0) + AesLen(e) + e.body,
   comp     |-> IF zip64 THEN Max32 ELSE U32(e.body),
   uncomp   |-> IF zip64 THEN Max32 ELSE U32(e.uncomp),
   name     |-> U16(e.name),
   extra    |-> U16(LfhExtraLen(e, zip64)),
   zip64    |-> IF zip64 THEN <<e.uncomp, e.body>> ELSE <<>>,
   encrypted |-> e.encrypted]

(* A record of the central directory.                                        *)
Cdr(c, at) ==
  LET e == c.entry
      zip64 == (IF NeedsZip64Size(e) THEN <<e.uncomp, e.body>> ELSE <<>>)
               \o (IF NeedsZip64Offset(c.offset) THEN <<c.offset>> ELSE <<>>)
      zip64Len == IF zip64 = <<>> THEN 0 ELSE 4 + 8 * Len(zip64)
  IN
  [kind     |-> "cdr",
   at       |-> at,
   bytes    |-> 46 + e.name + zip64Len + AesLen(e),
   comp     |-> IF NeedsZip64Size(e) THEN Max32 ELSE U32(e.body),
   uncomp   |-> IF NeedsZip64Size(e) THEN Max32 ELSE U32(e.uncomp),
   offset   |-> IF NeedsZip64Offset(c.offset) THEN Max32 ELSE U32(c.offset),
   name     |-> U16(e.name),
   extra    |-> U16(zip64Len + AesLen(e)),
   zip64    |-> zip64,
   encrypted |-> e.encrypted]

NeedsZip64End(n, offset, size) == n >= MaxCount \/ offset >= Max32 \/ size >= Max32

Eocd64(n, offset, size, at) ==
  [kind |-> "eocd64", at |-> at, bytes |-> 56,
   count |-> n, offset |-> offset, size |-> size]

Locator(offset, at) ==
  [kind |-> "locator", at |-> at, bytes |-> 20, offset |-> offset]

Eocd(n, offset, size, at) ==
  [kind |-> "eocd", at |-> at, bytes |-> 22,
   count |-> OrSentinel(n, MaxCount),
   size |-> OrSentinel(size, Max32),
   offset |-> OrSentinel(offset, Max32)]

-----------------------------------------------------------------------------
WriteEntry(e) ==
  /\ phase = "entries"
  /\ Len(entries) < MaxEntries
  /\ entries' = Append(entries, [entry |-> e, offset |-> pos])
  /\ file' = Append(file, Lfh(e, written))
  /\ written' = written + Lfh(e, written).bytes
  /\ pos' = pos + Lfh(e, written).bytes
  /\ UNCHANGED <<phase, cdOffset, nextCdr>>

Finish ==
  /\ phase = "entries"
  /\ cdOffset' = pos
  /\ phase' = IF entries = <<>> THEN "end" ELSE "directory"
  /\ UNCHANGED <<pos, written, file, entries, nextCdr>>

WriteCdr ==
  /\ phase = "directory"
  /\ LET r == Cdr(entries[nextCdr], written) IN
       /\ file' = Append(file, r)
       /\ written' = written + r.bytes
       /\ pos' = pos + r.bytes
  /\ nextCdr' = nextCdr + 1
  /\ phase' = IF nextCdr = Len(entries) THEN "end" ELSE "directory"
  /\ UNCHANGED <<entries, cdOffset>>

WriteEnd ==
  LET n == Len(entries)
      size == pos - cdOffset
      end64 == NeedsZip64End(n, cdOffset, size)
      ends == IF end64
                THEN <<Eocd64(n, cdOffset, size, written), Locator(pos, written + 56),
                       Eocd(n, cdOffset, size, written + 76)>>
                ELSE <<Eocd(n, cdOffset, size, written)>>
      bytes == (IF end64 THEN 76 ELSE 0) + 22
  IN
  /\ phase = "end"
  /\ file' = file \o ends
  /\ written' = written + bytes
  /\ pos' = pos + bytes
  /\ phase' = "done"
  /\ UNCHANGED <<entries, cdOffset, nextCdr>>

Done == phase = "done" /\ UNCHANGED vars

Next == (\E e \in Entry : WriteEntry(e)) \/ Finish \/ WriteCdr \/ WriteEnd \/ Done

Spec == Init /\ [][Next]_vars

-----------------------------------------------------------------------------
(* A reader of the format: what it makes of a record's fields.               *)

Count(b) == IF b THEN 1 ELSE 0

(* Value i of the ZIP64 record; -1 if it is not there.                       *)
Zip64Value(r, i) == IF i <= Len(r.zip64) THEN r.zip64[i] ELSE -1

ReadUncomp(r) == IF r.uncomp = Max32 THEN Zip64Value(r, 1) ELSE r.uncomp
ReadComp(r) ==
  IF r.comp = Max32 THEN Zip64Value(r, 1 + Count(r.uncomp = Max32)) ELSE r.comp
ReadOffset(r) ==
  IF r.offset = Max32
    THEN Zip64Value(r, 1 + Count(r.uncomp = Max32) + Count(r.comp = Max32))
    ELSE r.offset

Reads(r, e) ==
  /\ r.name = e.name
  /\ ReadUncomp(r) = e.uncomp
  /\ ReadComp(r) = e.body
  /\ r.encrypted = e.encrypted

(* The record found at an offset.                                            *)
IsAt(r, kind, offset) == r \in Range(file) /\ r.kind = kind /\ r.at = offset

(* Where a reader expects what follows a record.                             *)
AfterLfh(r) == r.at + 30 + r.name + r.extra + ReadComp(r)
AfterCdr(r) == r.at + 46 + r.name + r.extra

(* What the end of the file tells: number of entries and start of the        *)
(* directory, from the ZIP64 record if any field of the last one says so.    *)
EndSays(n, offset, size) ==
  \E last \in Range(file) :
    /\ IsAt(last, "eocd", written - 22)
    /\ IF last.count = MaxCount \/ last.offset = Max32 \/ last.size = Max32
         THEN \E loc, end64 \in Range(file) :
                /\ IsAt(loc, "locator", last.at - 20)
                /\ IsAt(end64, "eocd64", loc.offset)
                /\ end64.count = n /\ end64.offset = offset /\ end64.size = size
         ELSE last.count = n /\ last.offset = offset /\ last.size = size

-----------------------------------------------------------------------------
(* Properties.                                                               *)

(* A reader that starts at the end of a finished archive finds the directory,*)
(* and in it, one record after another, every entry that was written; the    *)
(* offset in each leads to the local header of the same entry.  write_entry  *)
(* and finish decide on the ZIP64 form of a field in four places.            *)
ReadsBack ==
  phase = "done" =>
    LET n == Len(entries)
        start(k) == file[n + k].at
    IN  /\ EndSays(n, start(1), start(n + 1) - start(1))
        /\ \A k \in 1..n :
             /\ IsAt(file[n + k], "cdr", start(k))
             /\ Reads(file[n + k], entries[k].entry)
             /\ AfterCdr(file[n + k]) = start(k + 1)
             /\ \E l \in Range(file) :
                  /\ IsAt(l, "lfh", ReadOffset(file[n + k]))
                  /\ Reads(l, entries[k].entry)

(* A reader that starts at the front goes from local header to local header  *)
(* and ends at the directory.                                                *)
LocalHeadersChain ==
  \A k \in 1..Len(entries) :
    /\ file[k].kind = "lfh"
    /\ Reads(file[k], entries[k].entry)
    /\ AfterLfh(file[k]) =
         IF k < Len(entries) THEN file[k + 1].at
         ELSE IF phase = "entries" THEN written ELSE cdOffset
=============================================================================
