--------------------------- MODULE ZipWriterProofs ---------------------------
(* For every value of the sentinels, names, bodies and sizes: what ZipWriter *)
(* writes is read back, from the end and from the front.                     *)
EXTENDS ZipWriter, SequenceTheorems, TLAPS

Listed == [entry : Entry, offset : Nat]

Records ==
  {Lfh(e, at) : e \in Entry, at \in Nat}
  \cup {Cdr(c, at) : c \in Listed, at \in Nat}
  \cup {Eocd64(n, o, s, at) : n \in Nat, o \in Nat, s \in Nat, at \in Nat}
  \cup {Locator(o, at) : o \in Nat, at \in Nat}
  \cup {Eocd(n, o, s, at) : n \in Nat, o \in Nat, s \in Nat, at \in Nat}

TypeOK ==
  /\ written \in Nat /\ pos = written
  /\ file \in Seq(Records)
  /\ entries \in Seq(Listed)
  /\ phase \in {"entries", "directory", "end", "done"}
  /\ cdOffset \in Nat
  /\ nextCdr \in Nat \ {0}

(* Each record begins where the one before it ends.                          *)
Contiguous ==
  /\ \A k \in 1..(Len(file) - 1) : file[k + 1].at = file[k].at + file[k].bytes
  /\ Len(file) > 0 => file[Len(file)].at + file[Len(file)].bytes = written

(* The local headers are those of the entries, at the offsets kept for them. *)
Headers ==
  /\ Len(entries) <= Len(file)
  /\ \A k \in 1..Len(entries) : file[k] = Lfh(entries[k].entry, entries[k].offset)

(* How far the directory is written.                                         *)
Progress ==
  /\ phase = "entries" => nextCdr = 1 /\ Len(file) = Len(entries)
  /\ phase = "directory" => nextCdr <= Len(entries) /\ Len(file) = Len(entries) + nextCdr - 1
  /\ phase = "end" => nextCdr = Len(entries) + 1 /\ Len(file) = 2 * Len(entries)
  /\ phase = "done" => nextCdr = Len(entries) + 1 /\ Len(file) > 2 * Len(entries)

Directory ==
  /\ \A k \in 1..(nextCdr - 1) :
       file[Len(entries) + k] = Cdr(entries[k], file[Len(entries) + k].at)
  /\ phase # "entries" =>
       cdOffset = IF Len(file) = Len(entries) THEN written ELSE file[Len(entries) + 1].at

End ==
  phase = "done" =>
    LET n == Len(entries)
        at == file[2 * n + 1].at
        size == at - cdOffset
    IN  /\ at \in Nat /\ at >= cdOffset
        /\ IF NeedsZip64End(n, cdOffset, size)
          THEN /\ Len(file) = 2 * n + 3
               /\ file[2 * n + 1] = Eocd64(n, cdOffset, size, at)
               /\ file[2 * n + 2] = Locator(at, at + 56)
               /\ file[2 * n + 3] = Eocd(n, cdOffset, size, at + 76)
          ELSE /\ Len(file) = 2 * n + 1
               /\ file[2 * n + 1] = Eocd(n, cdOffset, size, at)

IInv ==
  /\ TypeOK /\ Contiguous /\ Headers /\ Progress /\ Directory /\ End
  /\ written >= cdOffset

-----------------------------------------------------------------------------
(* The fields of single records.                                             *)

LEMMA ModSmall ==
  ASSUME NEW x \in Nat, NEW m \in Nat, x <= m
  PROVE  x % (m + 1) = x
  OBVIOUS

(* Names and extra fields fit their 16-bit lengths; values below the         *)
(* sentinel fit their 32-bit fields.                                         *)
LEMMA Widths ==
  /\ \A x \in 0..39 : U16(x) = x
  /\ \A x \in NameLens : x \in Nat /\ U16(x) = x
  /\ \A x \in Nat : x < Max32 => U32(x) = x
<1>1. \A x \in 0..Max16 : U16(x) = x
  BY ModSmall, ZipAssumption DEF U16
<1>2. \A x \in Nat : x < Max32 => U32(x) = x
  BY ModSmall, ZipAssumption DEF U32
<1> QED BY <1>1, <1>2, ZipAssumption

(* A local header tells its entry and where the next one begins.             *)
LEMMA LfhTells ==
  ASSUME NEW e \in Entry, NEW at \in Nat
  PROVE  /\ Reads(Lfh(e, at), e)
         /\ AfterLfh(Lfh(e, at)) = at + Lfh(e, at).bytes
         /\ Lfh(e, at).bytes \in Nat
         /\ Lfh(e, at).kind = "lfh" /\ Lfh(e, at).at = at
<1> DEFINE r == Lfh(e, at)
<1>1. e.name \in NameLens /\ e.body \in Nat /\ e.uncomp \in Nat /\ e.encrypted \in BOOLEAN
  BY ZipAssumption DEF Entry
<1>2. AesLen(e) \in {0, 11}
  BY DEF AesLen
<1>3. U16(e.name) = e.name /\ e.name \in Nat
  BY <1>1, Widths
<1>4. LfhExtraLen(e, NeedsZip64Size(e)) \in 0..39
  BY <1>2 DEF LfhExtraLen
<1>5. U16(LfhExtraLen(e, NeedsZip64Size(e))) = LfhExtraLen(e, NeedsZip64Size(e))
  BY <1>4, Widths
<1>6. /\ r.kind = "lfh" /\ r.at = at /\ r.encrypted = e.encrypted
      /\ r.name = e.name /\ r.extra = LfhExtraLen(e, NeedsZip64Size(e))
      /\ r.bytes = 30 + e.name + LfhExtraLen(e, NeedsZip64Size(e)) + e.body
  BY <1>1, <1>2, <1>3, <1>5 DEF Lfh, LfhExtraLen
<1>7. ReadUncomp(r) = e.uncomp /\ ReadComp(r) = e.body
  <2>1. CASE NeedsZip64Size(e)
    <3>1. r.comp = Max32 /\ r.uncomp = Max32 /\ r.zip64 = <<e.uncomp, e.body>>
      BY <2>1 DEF Lfh
    <3> QED BY <3>1 DEF ReadUncomp, ReadComp, Zip64Value, Count
  <2>2. CASE ~NeedsZip64Size(e)
    <3>1. e.body < Max32 /\ e.uncomp < Max32
      BY <2>2, <1>1, ZipAssumption DEF NeedsZip64Size
    <3>2. r.comp = e.body /\ r.uncomp = e.uncomp
      BY <2>2, <1>1, <3>1, Widths DEF Lfh
    <3> QED BY <3>1, <3>2, <1>1, ZipAssumption DEF ReadUncomp, ReadComp
  <2> QED BY <2>1, <2>2
<1> HIDE DEF r
<1>8. AfterLfh(r) = at + r.bytes /\ r.bytes \in Nat
  BY <1>1, <1>3, <1>4, <1>6, <1>7 DEF AfterLfh
<1>9. Reads(r, e)
  BY <1>6, <1>7 DEF Reads
<1> QED BY <1>6, <1>8, <1>9 DEF r

(* A directory record tells its entry, its local header's offset and where   *)
(* the next record begins.                                                   *)
LEMMA CdrTells ==
  ASSUME NEW c \in Listed, NEW at \in Nat
  PROVE  /\ Reads(Cdr(c, at), c.entry)
         /\ ReadOffset(Cdr(c, at)) = c.offset
         /\ AfterCdr(Cdr(c, at)) = at + Cdr(c, at).bytes
         /\ Cdr(c, at).bytes \in Nat
         /\ Cdr(c, at).kind = "cdr" /\ Cdr(c, at).at = at
<1> DEFINE r == Cdr(c, at)
           e == c.entry
           zs == NeedsZip64Size(e)
           zo == NeedsZip64Offset(c.offset)
           z  == (IF zs THEN <<e.uncomp, e.body>> ELSE <<>>)
                 \o (IF zo THEN <<c.offset>> ELSE <<>>)
           zl == IF z = <<>> THEN 0 ELSE 4 + 8 * Len(z)
<1>1. e \in Entry /\ c.offset \in Nat
  BY DEF Listed
<1>2. e.name \in NameLens /\ e.body \in Nat /\ e.uncomp \in Nat /\ e.encrypted \in BOOLEAN
  BY <1>1, ZipAssumption DEF Entry
<1>3. AesLen(e) \in {0, 11}
  BY DEF AesLen
<1>4. U16(e.name) = e.name /\ e.name \in Nat
  BY <1>2, Widths
<1>5. /\ r.kind = "cdr" /\ r.at = at /\ r.encrypted = e.encrypted
      /\ r.name = U16(e.name) /\ r.zip64 = z
      /\ r.extra = U16(zl + AesLen(e)) /\ r.bytes = 46 + e.name + zl + AesLen(e)
      /\ r.comp = IF zs THEN Max32 ELSE U32(e.body)
      /\ r.uncomp = IF zs THEN Max32 ELSE U32(e.uncomp)
      /\ r.offset = IF zo THEN Max32 ELSE U32(c.offset)
  BY DEF Cdr
<1>6. /\ ~zs => e.body < Max32 /\ e.uncomp < Max32
      /\ ~zo => c.offset < Max32
  BY <1>1, <1>2, ZipAssumption DEF NeedsZip64Size, NeedsZip64Offset
<1>7. /\ ~zs => r.comp = e.body /\ r.comp # Max32 /\ r.uncomp = e.uncomp /\ r.uncomp # Max32
      /\ ~zo => r.offset = c.offset /\ r.offset # Max32
      /\ zs => r.comp = Max32 /\ r.uncomp = Max32
      /\ zo => r.offset = Max32
  <2> HIDE DEF zs, zo, r
  <2>1. ~zs => r.comp = e.body /\ r.comp # Max32 /\ r.uncomp = e.uncomp /\ r.uncomp # Max32
    <3> SUFFICES ASSUME ~zs PROVE r.comp = e.body /\ r.comp # Max32 /\ r.uncomp = e.uncomp /\ r.uncomp # Max32
      OBVIOUS
    <3>1. r.comp = U32(e.body) /\ r.uncomp = U32(e.uncomp)
      BY <1>5
    <3>2. U32(e.body) = e.body /\ U32(e.uncomp) = e.uncomp
      BY <1>6, <1>2, Widths
    <3> QED BY <3>1, <3>2, <1>6, <1>2, ZipAssumption
  <2>2. ~zo => r.offset = c.offset /\ r.offset # Max32
    <3> SUFFICES ASSUME ~zo PROVE r.offset = c.offset /\ r.offset # Max32
      OBVIOUS
    <3>1. r.offset = U32(c.offset)
      BY <1>5
    <3>2. U32(c.offset) = c.offset
      BY <1>6, <1>1, Widths
    <3> QED BY <3>1, <3>2, <1>6, <1>1, ZipAssumption
  <2> QED BY <2>1, <2>2, <1>5
<1>8. /\ zs => Len(z) >= 2 /\ z[1] = e.uncomp /\ z[2] = e.body
      /\ zs /\ zo => z[3] = c.offset
      /\ ~zs /\ zo => z[1] = c.offset
      /\ Len(z) = (IF zs THEN 2 ELSE 0) + (IF zo THEN 1 ELSE 0)
      /\ z \in Seq(Nat)
  <2> DEFINE p == IF zs THEN <<e.uncomp, e.body>> ELSE <<>>
             q == IF zo THEN <<c.offset>> ELSE <<>>
  <2>1. p \in Seq(Nat) /\ q \in Seq(Nat)
    BY <1>1, <1>2
  <2>2. /\ Len(p) = IF zs THEN 2 ELSE 0
        /\ Len(q) = IF zo THEN 1 ELSE 0
        /\ zs => p[1] = e.uncomp /\ p[2] = e.body
        /\ zo => q[1] = c.offset
    OBVIOUS
  <2> HIDE DEF p, q, zs, zo
  <2>3. /\ p \o q \in Seq(Nat) /\ Len(p \o q) = Len(p) + Len(q)
        /\ \A i \in 1..(Len(p) + Len(q)) :
             (p \o q)[i] = IF i <= Len(p) THEN p[i] ELSE q[i - Len(p)]
    BY <2>1, ConcatProperties
  <2>4. z = p \o q
    BY DEF z, p, q
  <2> HIDE DEF z
  <2> QED BY <2>2, <2>3, <2>4
<1>9. zl \in 0..28
  <2> HIDE DEF z, zs, zo
  <2>1. Len(z) \in 0..3
    BY <1>8
  <2>2. \A n \in 0..3 : 4 + 8 * n \in 0..28
    OBVIOUS
  <2>3. zl = 0 \/ zl = 4 + 8 * Len(z)
    OBVIOUS
  <2>4. 4 + 8 * Len(z) \in 0..28
    BY <2>1, <2>2
  <2> HIDE DEF zl
  <2> QED BY <2>3, <2>4
<1>10. r.extra = zl + AesLen(e)
  <2> HIDE DEF zl
  <2>1. zl + AesLen(e) \in 0..39
    BY <1>9, <1>3
  <2> QED BY <2>1, <1>5, Widths
<1> HIDE DEF z, zl, r, zs, zo, e
<1>11. ReadUncomp(r) = e.uncomp /\ ReadComp(r) = e.body
  <2>1. CASE zs
    <3>1. z[1] = e.uncomp /\ z[2] = e.body /\ Len(z) >= 2
      BY <2>1, <1>8
    <3> QED BY <2>1, <3>1, <1>5, <1>7, <1>8 DEF ReadUncomp, ReadComp, Zip64Value, Count
  <2>2. CASE ~zs
    BY <2>2, <1>7 DEF ReadUncomp, ReadComp
  <2> QED BY <2>1, <2>2
<1>12. ReadOffset(r) = c.offset
  <2>0. \A i \in 1..3 : i <= Len(z) => Zip64Value(r, i) = z[i]
    BY <1>5, <1>8 DEF Zip64Value
  <2>1. CASE zs /\ zo
    <3>1. z[3] = c.offset /\ Len(z) = 3
      BY <2>1, <1>8
    <3>2. Count(r.uncomp = Max32) = 1 /\ Count(r.comp = Max32) = 1 /\ r.offset = Max32
      BY <2>1, <1>7 DEF Count
    <3>3. ReadOffset(r) = Zip64Value(r, 3)
      BY <3>2 DEF ReadOffset
    <3>4. Zip64Value(r, 3) = z[3]
      BY <3>1, <2>0
    <3> QED BY <3>1, <3>3, <3>4
  <2>2. CASE ~zs /\ zo
    <3>1. z[1] = c.offset /\ Len(z) = 1
      BY <2>2, <1>8
    <3>2. Count(r.uncomp = Max32) = 0 /\ Count(r.comp = Max32) = 0 /\ r.offset = Max32
      BY <2>2, <1>7 DEF Count
    <3>3. ReadOffset(r) = Zip64Value(r, 1)
      BY <3>2 DEF ReadOffset
    <3>4. Zip64Value(r, 1) = z[1]
      BY <3>1, <2>0
    <3> QED BY <3>1, <3>3, <3>4
  <2>3. CASE ~zo
    BY <2>3, <1>7 DEF ReadOffset
  <2> QED BY <2>1, <2>2, <2>3
<1>13. AfterCdr(r) = at + r.bytes /\ r.bytes \in Nat
  BY <1>3, <1>4, <1>5, <1>9, <1>10 DEF AfterCdr
<1>14. Reads(r, e)
  BY <1>11, <1>5, <1>4 DEF Reads
<1> QED BY <1>12, <1>13, <1>14, <1>5 DEF r, e

-----------------------------------------------------------------------------
(* The inductive invariant.                                                  *)

(* One more record, written where the file ends.                             *)
LEMMA AppendRecord ==
  ASSUME TypeOK, Contiguous, NEW r \in Records,
         r.at = written, r.bytes \in Nat,
         file' = Append(file, r), written' = written + r.bytes
  PROVE  /\ file' \in Seq(Records) /\ Len(file') = Len(file) + 1
         /\ \A k \in 1..Len(file) : file'[k] = file[k]
         /\ file'[Len(file) + 1] = r
         /\ written' \in Nat
         /\ Contiguous'
<1>1. file \in Seq(Records) /\ written \in Nat /\ Len(file) \in Nat
  BY DEF TypeOK
<1>2. /\ file' \in Seq(Records) /\ Len(file') = Len(file) + 1
      /\ \A k \in 1..Len(file) : file'[k] = file[k]
      /\ file'[Len(file) + 1] = r
  BY <1>1
<1>3. file'[Len(file')].at + file'[Len(file')].bytes = written'
  BY <1>1, <1>2
<1>4. ASSUME NEW k \in 1..(Len(file') - 1)
      PROVE  file'[k + 1].at = file'[k].at + file'[k].bytes
  <2>1. CASE k < Len(file)
    BY <2>1, <1>1, <1>2 DEF Contiguous
  <2>2. CASE k = Len(file)
    BY <2>2, <1>1, <1>2 DEF Contiguous
  <2> QED BY <2>1, <2>2, <1>1, <1>2
<1> QED BY <1>1, <1>2, <1>3, <1>4 DEF Contiguous

LEMMA AppendThree ==
  ASSUME NEW S, NEW s \in Seq(S), NEW a \in S, NEW b \in S, NEW c \in S,
         NEW f, f = s \o <<a, b, c>>
  PROVE  /\ f \in Seq(S) /\ Len(f) = Len(s) + 3
         /\ \A k \in 1..Len(s) : f[k] = s[k]
         /\ f[Len(s) + 1] = a /\ f[Len(s) + 2] = b /\ f[Len(s) + 3] = c
<1> DEFINE q == <<a, b, c>>
           t == s \o q
           m == Len(s)
<1>1. q \in Seq(S) /\ Len(q) = 3 /\ q[1] = a /\ q[2] = b /\ q[3] = c
  OBVIOUS
<1>2. m \in Nat
  OBVIOUS
<1> HIDE DEF q, m
<1>3. /\ t \in Seq(S) /\ Len(t) = m + 3
      /\ \A k \in 1..(m + 3) : t[k] = IF k <= m THEN s[k] ELSE q[k - m]
  <2>1. /\ t \in Seq(S) /\ Len(t) = Len(s) + Len(q)
        /\ \A k \in 1..(Len(s) + Len(q)) : t[k] = IF k <= Len(s) THEN s[k] ELSE q[k - Len(s)]
    BY <1>1, ConcatProperties
  <2>2. Len(s) = m
    BY DEF m
  <2> HIDE DEF t
  <2> QED BY <2>1, <2>2, <1>1
<1> HIDE DEF t
<1>4. \A k \in 1..m : t[k] = s[k]
  BY <1>2, <1>3
<1>5. t[m + 1] = q[1] /\ t[m + 2] = q[2] /\ t[m + 3] = q[3]
  BY <1>2, <1>3
<1> QED BY <1>1, <1>3, <1>4, <1>5 DEF t, q, m

LEMMA InitIInv == Init => IInv
<1> SUFFICES ASSUME Init PROVE IInv
  OBVIOUS
<1>1. file = <<>> /\ entries = <<>> /\ pos = 0 /\ written = 0 /\ phase = "entries"
      /\ cdOffset = 0 /\ nextCdr = 1
  BY DEF Init
<1>2. TypeOK
  BY <1>1 DEF TypeOK
<1> QED BY <1>1, <1>2 DEF IInv, Contiguous, Headers, Progress, Directory, End

LEMMA WriteEntryKeeps ==
  ASSUME IInv, NEW e \in Entry, WriteEntry(e)
  PROVE  IInv'
<1> USE DEF IInv
<1>1. /\ TypeOK /\ Contiguous /\ Headers /\ Progress /\ phase = "entries"
      /\ nextCdr = 1 /\ Len(file) = Len(entries)
      /\ file \in Seq(Records) /\ entries \in Seq(Listed) /\ written \in Nat /\ pos = written
      /\ cdOffset \in Nat
  BY DEF WriteEntry, Progress, TypeOK
<1>2. /\ Lfh(e, written) \in Records /\ Lfh(e, written).at = written
      /\ Lfh(e, written).bytes \in Nat
  BY <1>1, LfhTells DEF Records
<1>3. /\ file' = Append(file, Lfh(e, written)) /\ written' = written + Lfh(e, written).bytes
      /\ pos' = pos + Lfh(e, written).bytes
      /\ entries' = Append(entries, [entry |-> e, offset |-> pos])
      /\ phase' = phase /\ cdOffset' = cdOffset /\ nextCdr' = nextCdr
  BY DEF WriteEntry
<1>4. /\ file' \in Seq(Records) /\ Len(file') = Len(file) + 1
      /\ \A k \in 1..Len(file) : file'[k] = file[k]
      /\ file'[Len(file) + 1] = Lfh(e, written)
      /\ written' \in Nat
      /\ Contiguous'
  BY <1>1, <1>2, <1>3, AppendRecord
<1>5. /\ entries' \in Seq(Listed) /\ Len(entries') = Len(entries) + 1
      /\ \A k \in 1..Len(entries) : entries'[k] = entries[k]
      /\ entries'[Len(entries) + 1] = [entry |-> e, offset |-> written]
  <2>1. [entry |-> e, offset |-> pos] \in Listed
    BY <1>1 DEF Listed
  <2> QED BY <2>1, <1>1, <1>3
<1>6. TypeOK'
  BY <1>1, <1>2, <1>3, <1>4, <1>5 DEF TypeOK
<1>7. Headers'
  <2>1. ASSUME NEW k \in 1..Len(entries')
        PROVE  file'[k] = Lfh(entries'[k].entry, entries'[k].offset)
    <3>1. CASE k \in 1..Len(entries)
      BY <3>1, <1>1, <1>4, <1>5 DEF Headers
    <3>2. CASE k = Len(entries) + 1
      BY <3>2, <1>1, <1>4, <1>5
    <3> QED BY <3>1, <3>2, <1>1, <1>5
  <2> QED BY <2>1, <1>1, <1>4, <1>5 DEF Headers
<1>8. Progress' /\ Directory' /\ End'
  BY <1>1, <1>3, <1>4, <1>5 DEF Progress, Directory, End
<1>9. (written >= cdOffset)'
  BY <1>1, <1>2, <1>3
<1> QED BY <1>4, <1>6, <1>7, <1>8, <1>9

LEMMA FinishKeeps ==
  ASSUME IInv, Finish
  PROVE  IInv'
<1> USE DEF IInv
<1>1. /\ nextCdr = 1 /\ Len(file) = Len(entries) /\ entries \in Seq(Listed)
      /\ pos = written /\ written \in Nat
  BY DEF Finish, Progress, TypeOK
<1>2. /\ file' = file /\ entries' = entries /\ pos' = pos /\ written' = written
      /\ nextCdr' = nextCdr /\ cdOffset' = written
      /\ phase' = IF entries = <<>> THEN "end" ELSE "directory"
  BY <1>1 DEF Finish
<1>3. TypeOK' /\ Contiguous' /\ Headers'
  BY <1>1, <1>2 DEF TypeOK, Contiguous, Headers
<1>4. entries = <<>> <=> Len(entries) = 0
  BY <1>1
<1>5. Progress'
  BY <1>1, <1>2, <1>4 DEF Progress
<1>6. Directory' /\ End'
  BY <1>1, <1>2 DEF Directory, End
<1> QED BY <1>1, <1>2, <1>3, <1>5, <1>6

LEMMA WriteCdrKeeps ==
  ASSUME IInv, WriteCdr
  PROVE  IInv'
<1> USE DEF IInv
<1> DEFINE n == Len(entries)
           r == Cdr(entries[nextCdr], written)
<1>1. /\ TypeOK /\ Contiguous /\ Headers /\ Progress /\ Directory /\ phase = "directory"
      /\ file \in Seq(Records) /\ entries \in Seq(Listed) /\ written \in Nat /\ pos = written
      /\ nextCdr \in 1..n /\ Len(file) = n + nextCdr - 1 /\ n \in Nat
      /\ cdOffset \in Nat /\ written >= cdOffset
  BY DEF WriteCdr, Progress, TypeOK
<1>2. /\ file' = Append(file, r) /\ written' = written + r.bytes /\ pos' = pos + r.bytes
      /\ nextCdr' = nextCdr + 1 /\ entries' = entries /\ cdOffset' = cdOffset
      /\ phase' = IF nextCdr = n THEN "end" ELSE "directory"
  BY DEF WriteCdr
<1>3. r \in Records /\ r.at = written /\ r.bytes \in Nat
  <2>1. entries[nextCdr] \in Listed
    BY <1>1
  <2> QED BY <2>1, <1>1, CdrTells DEF Records
<1> HIDE DEF r
<1>4. /\ file' \in Seq(Records) /\ Len(file') = Len(file) + 1
      /\ \A k \in 1..Len(file) : file'[k] = file[k]
      /\ file'[Len(file) + 1] = r
      /\ written' \in Nat
      /\ Contiguous'
  BY <1>1, <1>2, <1>3, AppendRecord
<1>5. TypeOK'
  BY <1>1, <1>2, <1>3, <1>4 DEF TypeOK
<1>6. Headers'
  BY <1>1, <1>2, <1>4 DEF Headers
<1>7. Progress'
  <2>1. Len(file') = n + nextCdr' - 1 /\ nextCdr' \in 2..(n + 1)
    BY <1>1, <1>2, <1>4
  <2>2. CASE nextCdr = n
    <3>1. phase' = "end" /\ nextCdr' = n + 1
      BY <2>2, <1>2
    <3>2. Len(file') = 2 * n
      BY <2>1, <3>1, <1>1
    <3> QED BY <3>1, <3>2, <1>2 DEF Progress
  <2>3. CASE nextCdr # n
    <3>1. phase' = "directory"
      BY <2>3, <1>2
    <3>2. nextCdr' <= n
      BY <2>3, <1>1, <1>2
    <3> QED BY <2>1, <3>1, <3>2, <1>2 DEF Progress
  <2> QED BY <2>2, <2>3
<1>8. Directory'
  <2>1. ASSUME NEW k \in 1..(nextCdr' - 1)
        PROVE  file'[n + k] = Cdr(entries[k], file'[n + k].at)
    <3>1. CASE k < nextCdr
      <4>1. k \in 1..(nextCdr - 1) /\ n + k \in 1..Len(file)
        <5>1. k \in Nat /\ k >= 1 /\ n \in Nat /\ nextCdr \in Nat /\ Len(file) = n + nextCdr - 1
          BY <1>1, <1>2
        <5> QED BY <5>1, <3>1
      <4>2. file'[n + k] = file[n + k]
        BY <4>1, <1>4
      <4> QED BY <4>1, <4>2, <1>1 DEF Directory
    <3>2. CASE k = nextCdr
      <4>1. file'[n + k] = r
        BY <3>2, <1>1, <1>4
      <4> QED BY <4>1, <3>2, <1>3 DEF r
    <3>3. k \in 1..nextCdr /\ nextCdr \in Nat
      BY <1>1, <1>2
    <3>4. k < nextCdr \/ k = nextCdr
      BY <3>3
    <3> QED BY <3>1, <3>2, <3>4
  <2>2. cdOffset' = IF Len(file') = n THEN written' ELSE file'[n + 1].at
    <3>1. Len(file') # n
      BY <1>1, <1>4
    <3>2. CASE Len(file) = n
      <4>1. file'[n + 1] = r /\ cdOffset = written
        BY <3>2, <1>1, <1>4 DEF Directory
      <4> QED BY <4>1, <3>1, <1>2, <1>3
    <3>3. CASE Len(file) # n
      <4>1. cdOffset = file[n + 1].at
        BY <3>3, <1>1 DEF Directory
      <4>2. n + 1 \in 1..Len(file)
        BY <3>3, <1>1
      <4>3. file'[n + 1] = file[n + 1]
        BY <4>2, <1>4
      <4> QED BY <4>1, <4>3, <3>1, <1>2
    <3> QED BY <3>2, <3>3
  <2> QED BY <2>1, <2>2, <1>2 DEF Directory
<1>9. End' /\ (written >= cdOffset)'
  BY <1>1, <1>2, <1>3 DEF End
<1> QED BY <1>4, <1>5, <1>6, <1>7, <1>8, <1>9

LEMMA WriteEndKeeps ==
  ASSUME IInv, WriteEnd
  PROVE  IInv'
<1> USE DEF IInv
<1> DEFINE n == Len(entries)
           size == pos - cdOffset
           end64 == NeedsZip64End(n, cdOffset, size)
           r1 == Eocd64(n, cdOffset, size, written)
           r2 == Locator(pos, written + 56)
           r3 == Eocd(n, cdOffset, size, written + 76)
           r == Eocd(n, cdOffset, size, written)
<1>1. /\ TypeOK /\ Contiguous /\ Headers /\ Progress /\ Directory /\ phase = "end"
      /\ file \in Seq(Records) /\ entries \in Seq(Listed) /\ written \in Nat /\ pos = written
      /\ nextCdr = n + 1 /\ Len(file) = 2 * n /\ n \in Nat
      /\ cdOffset \in Nat /\ written >= cdOffset
  BY DEF WriteEnd, Progress, TypeOK
<1>2. /\ entries' = entries /\ cdOffset' = cdOffset /\ nextCdr' = nextCdr /\ phase' = "done"
      /\ pos' = pos + (IF end64 THEN 76 ELSE 0) + 22
      /\ written' = written + (IF end64 THEN 76 ELSE 0) + 22
  BY <1>1 DEF WriteEnd
<1>3. pos' = written' /\ written' \in Nat /\ written' >= cdOffset
  <2> HIDE DEF end64
  <2>1. CASE end64
    BY <2>1, <1>1, <1>2
  <2>2. CASE ~end64
    BY <2>2, <1>1, <1>2
  <2> QED BY <2>1, <2>2
<1>4. size \in Nat
  BY <1>1
<1>5. /\ r1 \in Records /\ r2 \in Records /\ r3 \in Records /\ r \in Records
      /\ r1.at = written /\ r2.at = written + 56 /\ r3.at = written + 76 /\ r.at = written
      /\ r1.bytes = 56 /\ r2.bytes = 20 /\ r3.bytes = 22 /\ r.bytes = 22
  <2> HIDE DEF n, size
  <2>1. r1 \in Records /\ r.at = written /\ r.bytes = 22 /\ r1.at = written /\ r1.bytes = 56
    <3>1. r1 \in Records
      BY <1>1, <1>4 DEF Records
    <3> QED BY <3>1 DEF Eocd64, Eocd
  <2>2. r2 \in Records /\ r2.at = written + 56 /\ r2.bytes = 20
    <3>1. written + 56 \in Nat
      BY <1>1
    <3>2. r2 \in Records
      BY <3>1, <1>1 DEF Records
    <3> QED BY <3>2 DEF Locator
  <2>3. r3 \in Records /\ r \in Records
    <3>1. written + 76 \in Nat
      BY <1>1
    <3> QED BY <3>1, <1>1, <1>4 DEF Records
  <2>4. r3.at = written + 76 /\ r3.bytes = 22
    BY DEF Eocd
  <2> QED BY <2>1, <2>2, <2>3, <2>4
<1> HIDE DEF r1, r2, r3, r
<1>6. CASE end64
  <2>1. file' = file \o <<r1, r2, r3>> /\ written' = written + 98
    <3>1. file' = file \o <<r1, r2, r3>>
      BY <1>6 DEF WriteEnd, r1, r2, r3
    <3>2. written' = written + 76 + 22
      BY <1>2, <1>6
    <3> QED BY <3>1, <3>2, <1>1
  <2>2. /\ file' \in Seq(Records) /\ Len(file') = 2 * n + 3
        /\ \A k \in 1..(2 * n) : file'[k] = file[k]
        /\ file'[2 * n + 1] = r1 /\ file'[2 * n + 2] = r2 /\ file'[2 * n + 3] = r3
    <3>1. file \in Seq(Records) /\ r1 \in Records /\ r2 \in Records /\ r3 \in Records
      BY <1>1, <1>5
    <3>2. /\ file' \in Seq(Records) /\ Len(file') = Len(file) + 3
          /\ \A k \in 1..Len(file) : file'[k] = file[k]
          /\ file'[Len(file) + 1] = r1 /\ file'[Len(file) + 2] = r2 /\ file'[Len(file) + 3] = r3
      BY <3>1, <2>1, AppendThree
    <3> QED BY <3>2, <1>1
  <2> HIDE DEF end64
  <2>3. Contiguous'
    <3>1. ASSUME NEW k \in 1..(Len(file') - 1)
          PROVE  file'[k + 1].at = file'[k].at + file'[k].bytes
      <4>1. CASE k < 2 * n
        <5>1. k \in 1..(Len(file) - 1) /\ k \in 1..(2 * n) /\ k + 1 \in 1..(2 * n)
          BY <4>1, <1>1
        <5>2. file'[k] = file[k] /\ file'[k + 1] = file[k + 1]
          BY <5>1, <2>2
        <5> QED BY <5>1, <5>2, <1>1 DEF Contiguous
      <4>2. CASE k = 2 * n
        <5>1. k \in 1..(2 * n) /\ k = Len(file) /\ k > 0
          BY <4>2, <1>1, <2>2
        <5>2. file'[k] = file[Len(file)] /\ file'[k + 1] = r1
          BY <5>1, <4>2, <2>2
        <5> QED BY <5>1, <5>2, <1>1, <1>5 DEF Contiguous
      <4>3. CASE k = 2 * n + 1
        <5>1. k + 1 = 2 * n + 2
          BY <4>3, <1>1
        <5>2. file'[k] = r1 /\ file'[k + 1] = r2
          BY <5>1, <4>3, <2>2
        <5> QED BY <5>2, <1>5, <1>1
      <4>4. CASE k = 2 * n + 2
        <5>1. k + 1 = 2 * n + 3
          BY <4>4, <1>1
        <5>2. file'[k] = r2 /\ file'[k + 1] = r3
          BY <5>1, <4>4, <2>2
        <5> QED BY <5>2, <1>5, <1>1
      <4>5. k \in 1..(2 * n + 2)
        BY <1>1, <2>2
      <4>6. k < 2 * n \/ k = 2 * n \/ k = 2 * n + 1 \/ k = 2 * n + 2
        BY <1>1, <4>5
      <4> QED BY <4>1, <4>2, <4>3, <4>4, <4>6
    <3>2. r3.at + r3.bytes = written'
      BY <1>1, <1>5, <2>1
    <3>3. file'[Len(file')].at + file'[Len(file')].bytes = written'
      BY <3>2, <2>2
    <3> QED BY <3>1, <3>3 DEF Contiguous
  <2>4. Headers'
    BY <1>1, <1>2, <2>2 DEF Headers
  <2>5. Progress'
    BY <1>1, <1>2, <2>2 DEF Progress
  <2>6. Directory'
    <3>1. \A k \in 1..n : n + k \in 1..(2 * n)
      BY <1>1
    <3>2. \A k \in 1..n : file'[n + k] = Cdr(entries[k], file'[n + k].at)
      BY <3>1, <1>1, <2>2 DEF Directory
    <3>3. cdOffset = file'[n + 1].at
      <4>1. CASE n = 0
        BY <4>1, <1>1, <1>5, <2>2 DEF Directory
      <4>2. CASE n > 0
        BY <4>2, <1>1, <2>2 DEF Directory
      <4> QED BY <4>1, <4>2, <1>1
    <3>4. Len(file') # n
      BY <1>1, <2>2
    <3> QED BY <3>2, <3>3, <3>4, <1>1, <1>2 DEF Directory
  <2>7. End'
    <3>1. r1.at - cdOffset = size
      BY <1>1, <1>5
    <3>2. r2 = Locator(r1.at, r1.at + 56) /\ r3 = Eocd(n, cdOffset, size, r1.at + 76)
          /\ r1 = Eocd64(n, cdOffset, size, r1.at)
      BY <1>1, <1>5 DEF r1, r2, r3
    <3>3. NeedsZip64End(n, cdOffset, size)
      BY <1>6 DEF end64
    <3> HIDE DEF size
    <3> QED BY <3>1, <3>2, <3>3, <1>1, <1>2, <1>5, <2>2 DEF End
  <2>8. TypeOK'
    BY <1>1, <1>2, <1>3, <2>2 DEF TypeOK
  <2> QED BY <1>2, <1>3, <2>3, <2>4, <2>5, <2>6, <2>7, <2>8
<1>7. CASE ~end64
  <2>1. file' = Append(file, r) /\ written' = written + 22
    BY <1>1, <1>7 DEF WriteEnd, r
  <2>2. /\ file' \in Seq(Records) /\ Len(file') = 2 * n + 1
        /\ \A k \in 1..(2 * n) : file'[k] = file[k]
        /\ file'[2 * n + 1] = r
        /\ Contiguous'
    <3>1. /\ TypeOK /\ Contiguous
          /\ r \in Records /\ r.at = written /\ r.bytes \in Nat
          /\ file' = Append(file, r) /\ written' = written + r.bytes
      BY <1>1, <1>5, <2>1
    <3>2. /\ file' \in Seq(Records) /\ Len(file') = Len(file) + 1
          /\ \A k \in 1..Len(file) : file'[k] = file[k]
          /\ file'[Len(file) + 1] = r
          /\ Contiguous'
      BY <3>1, AppendRecord
    <3> QED BY <3>2, <1>1
  <2> HIDE DEF end64
  <2>3. Headers'
    BY <1>1, <1>2, <2>2 DEF Headers
  <2>4. Progress'
    BY <1>1, <1>2, <2>2 DEF Progress
  <2>5. Directory'
    <3>1. \A k \in 1..n : n + k \in 1..(2 * n)
      BY <1>1
    <3>2. \A k \in 1..n : file'[n + k] = Cdr(entries[k], file'[n + k].at)
      BY <3>1, <1>1, <2>2 DEF Directory
    <3>3. cdOffset = file'[n + 1].at
      <4>1. CASE n = 0
        BY <4>1, <1>1, <1>5, <2>2 DEF Directory
      <4>2. CASE n > 0
        BY <4>2, <1>1, <2>2 DEF Directory
      <4> QED BY <4>1, <4>2, <1>1
    <3>4. Len(file') # n
      BY <1>1, <2>2
    <3> QED BY <3>2, <3>3, <3>4, <1>1, <1>2 DEF Directory
  <2>6. End'
    <3>1. r.at - cdOffset = size /\ r = Eocd(n, cdOffset, size, r.at)
      BY <1>1, <1>5 DEF r
    <3>2. ~NeedsZip64End(n, cdOffset, size)
      BY <1>7 DEF end64
    <3> HIDE DEF size
    <3> QED BY <3>1, <3>2, <1>1, <1>2, <1>5, <2>2 DEF End
  <2>7. TypeOK'
    BY <1>1, <1>2, <1>3, <2>2 DEF TypeOK
  <2> QED BY <1>2, <1>3, <2>2, <2>3, <2>4, <2>5, <2>6, <2>7
<1> QED BY <1>6, <1>7

(* The strengthening is an invariant: the records lie end to end, those of   *)
(* the entries and of the directory correspond one to one, and the kept      *)
(* offsets are where the headers are.                                        *)
THEOREM ZipInvariant == Spec => []IInv
<1>1. Init => IInv
  BY InitIInv
<1>2. IInv /\ [Next]_vars => IInv'
  <2> SUFFICES ASSUME IInv, [Next]_vars PROVE IInv'
    OBVIOUS
  <2>1. CASE \E e \in Entry : WriteEntry(e)
    BY <2>1, WriteEntryKeeps
  <2>2. CASE Finish
    BY <2>2, FinishKeeps
  <2>3. CASE WriteCdr
    BY <2>3, WriteCdrKeeps
  <2>4. CASE WriteEnd
    BY <2>4, WriteEndKeeps
  <2>5. CASE UNCHANGED vars
    BY <2>5 DEF vars, IInv, TypeOK, Contiguous, Headers, Progress, Directory, End
  <2> QED BY <2>1, <2>2, <2>3, <2>4, <2>5 DEF Next, Done
<1> QED BY <1>1, <1>2, PTL DEF Spec

-----------------------------------------------------------------------------
(* What the readers find.                                                    *)

(* The two halves of ReadsBack, from the invariant.                          *)
LEMMA EndIsFound ==
  ASSUME IInv, phase = "done"
  PROVE  EndSays(Len(entries), cdOffset, file[2 * Len(entries) + 1].at - cdOffset)
<1> DEFINE n == Len(entries)
           at == file[2 * n + 1].at
           size == at - cdOffset
<1>1. /\ TypeOK /\ Contiguous /\ Progress /\ End /\ n \in Nat
      /\ file \in Seq(Records) /\ cdOffset \in Nat /\ written \in Nat
      /\ Len(file) > 2 * n /\ at \in Nat /\ size \in Nat
  <2>1. TypeOK /\ Contiguous /\ Progress /\ End
    BY DEF IInv
  <2>2. file \in Seq(Records) /\ cdOffset \in Nat /\ written \in Nat /\ n \in Nat
    BY <2>1 DEF TypeOK
  <2>3. Len(file) > 2 * n
    BY <2>1 DEF Progress
  <2>4. at \in Nat /\ at >= cdOffset
    BY <2>1 DEF End
  <2> QED BY <2>1, <2>2, <2>3, <2>4
<1>2. \A k \in 1..Len(file) : file[k] \in Range(file)
  BY <1>1 DEF Range
<1>3. file[Len(file)].at + file[Len(file)].bytes = written
  BY <1>1 DEF Contiguous
<1>4. CASE NeedsZip64End(n, cdOffset, size)
  <2> DEFINE last == Eocd(n, cdOffset, size, at + 76)
             loc == Locator(at, at + 56)
             end64 == Eocd64(n, cdOffset, size, at)
  <2>1. /\ Len(file) = 2 * n + 3 /\ file[2 * n + 1] = end64
        /\ file[2 * n + 2] = loc /\ file[2 * n + 3] = last
    BY <1>1, <1>4 DEF End
  <2>2. last \in Range(file) /\ loc \in Range(file) /\ end64 \in Range(file)
    BY <1>1, <1>2, <2>1
  <2>3. /\ last.kind = "eocd" /\ last.at = at + 76 /\ last.bytes = 22
        /\ last.count = OrSentinel(n, MaxCount) /\ last.size = OrSentinel(size, Max32)
        /\ last.offset = OrSentinel(cdOffset, Max32)
        /\ loc.kind = "locator" /\ loc.at = at + 56 /\ loc.offset = at
        /\ end64.kind = "eocd64" /\ end64.at = at /\ end64.count = n
        /\ end64.offset = cdOffset /\ end64.size = size
    BY DEF Eocd, Locator, Eocd64
  <2> HIDE DEF last, loc, end64
  <2>4. last.at = written - 22 /\ loc.at = last.at - 20
    <3>1. last.at + 22 = written
      BY <1>3, <2>1, <2>3
    <3> HIDE DEF at
    <3> QED BY <3>1, <1>1, <2>3
  <2>5. last.count = MaxCount \/ last.offset = Max32 \/ last.size = Max32
    <3> HIDE DEF n, size
    <3> QED BY <1>1, <1>4, <2>3, ZipAssumption DEF OrSentinel, NeedsZip64End
  <2> HIDE DEF n, at, size
  <2>6. IsAt(last, "eocd", written - 22)
    BY <2>2, <2>3, <2>4 DEF IsAt
  <2>7. IsAt(loc, "locator", last.at - 20) /\ IsAt(end64, "eocd64", loc.offset)
    BY <2>2, <2>3, <2>4 DEF IsAt
  <2>8. EndSays(n, cdOffset, size)
    BY <2>2, <2>3, <2>5, <2>6, <2>7 DEF EndSays
  <2> QED BY <2>8 DEF n, at, size
<1>5. CASE ~NeedsZip64End(n, cdOffset, size)
  <2> DEFINE last == Eocd(n, cdOffset, size, at)
  <2>1. Len(file) = 2 * n + 1 /\ file[2 * n + 1] = last
    BY <1>1, <1>5 DEF End
  <2>2. last \in Range(file)
    BY <1>1, <1>2, <2>1
  <2>3. /\ last.kind = "eocd" /\ last.at = at /\ last.bytes = 22
        /\ last.count = OrSentinel(n, MaxCount) /\ last.size = OrSentinel(size, Max32)
        /\ last.offset = OrSentinel(cdOffset, Max32)
    BY DEF Eocd
  <2> HIDE DEF last
  <2>4. last.at = written - 22
    BY <1>1, <1>3, <2>1, <2>3
  <2>5. /\ last.count = n /\ last.offset = cdOffset /\ last.size = size
        /\ n # MaxCount /\ cdOffset # Max32 /\ size # Max32
    <3> HIDE DEF n, size
    <3> QED BY <1>1, <1>5, <2>3, ZipAssumption DEF OrSentinel, NeedsZip64End
  <2> HIDE DEF n, at, size
  <2>6. IsAt(last, "eocd", written - 22)
    BY <2>2, <2>3, <2>4 DEF IsAt
  <2>7. EndSays(n, cdOffset, size)
    BY <2>2, <2>5, <2>6 DEF EndSays
  <2> QED BY <2>7 DEF n, at, size
<1> QED BY <1>4, <1>5

LEMMA RecordAt == \A r \in Records : r.at \in Nat
<1>1. \A e \in Entry, at \in Nat : Lfh(e, at).at \in Nat
  BY DEF Lfh
<1>2. \A c \in Listed, at \in Nat : Cdr(c, at).at \in Nat
  BY DEF Cdr
<1>3. \A n \in Nat, o \in Nat, s \in Nat, at \in Nat :
        Eocd64(n, o, s, at).at \in Nat /\ Eocd(n, o, s, at).at \in Nat
  BY DEF Eocd64, Eocd
<1>4. \A o \in Nat, at \in Nat : Locator(o, at).at \in Nat
  BY DEF Locator
<1> TAKE r \in Records
<1>5. CASE \E e \in Entry, at \in Nat : r = Lfh(e, at)
  BY <1>1, <1>5
<1>6. CASE \E c \in Listed, at \in Nat : r = Cdr(c, at)
  BY <1>2, <1>6
<1>7. CASE \E n \in Nat, o \in Nat, s \in Nat, at \in Nat :
             r = Eocd64(n, o, s, at) \/ r = Eocd(n, o, s, at)
  BY <1>3, <1>7
<1>8. CASE \E o \in Nat, at \in Nat : r = Locator(o, at)
  BY <1>4, <1>8
<1> QED BY <1>5, <1>6, <1>7, <1>8 DEF Records

LEMMA IInvReadsBack == IInv => ReadsBack
<1> SUFFICES ASSUME IInv, phase = "done" PROVE ReadsBack
  BY DEF ReadsBack
<1> DEFINE n == Len(entries)
<1>1. /\ TypeOK /\ Contiguous /\ Headers /\ Progress /\ Directory /\ n \in Nat
      /\ file \in Seq(Records) /\ entries \in Seq(Listed)
      /\ nextCdr = n + 1 /\ Len(file) > 2 * n /\ Len(file) \in Nat
  BY DEF IInv, Progress, TypeOK
<1>2. file[n + 1].at = cdOffset
  BY <1>1 DEF Directory
<1>3. EndSays(n, file[n + 1].at, file[n + n + 1].at - file[n + 1].at)
  <2>1. n + n + 1 = 2 * n + 1
    BY <1>1
  <2> QED BY <2>1, <1>2, EndIsFound
<1>4. ASSUME NEW k \in 1..n
      PROVE  /\ IsAt(file[n + k], "cdr", file[n + k].at)
             /\ Reads(file[n + k], entries[k].entry)
             /\ AfterCdr(file[n + k]) = file[n + (k + 1)].at
             /\ \E l \in Range(file) :
                  /\ IsAt(l, "lfh", ReadOffset(file[n + k]))
                  /\ Reads(l, entries[k].entry)
  <2>1. /\ n + k \in 1..(Len(file) - 1) /\ n + k \in 1..Len(file) /\ k \in 1..Len(file)
        /\ n + k + 1 = n + (k + 1)
    BY <1>1
  <2>2. entries[k] \in Listed /\ entries[k].entry \in Entry /\ entries[k].offset \in Nat
    <3>1. entries[k] \in Listed
      BY <1>1
    <3> QED BY <3>1 DEF Listed
  <2>3. file[n + k].at \in Nat /\ file[n + k] = Cdr(entries[k], file[n + k].at)
    BY <1>1, <2>1, RecordAt DEF Directory
  <2>4. /\ Reads(file[n + k], entries[k].entry)
        /\ ReadOffset(file[n + k]) = entries[k].offset
        /\ AfterCdr(file[n + k]) = file[n + k].at + file[n + k].bytes
        /\ file[n + k].kind = "cdr"
    BY <2>2, <2>3, CdrTells
  <2>5. /\ Reads(file[k], entries[k].entry)
        /\ file[k].kind = "lfh" /\ file[k].at = entries[k].offset
    BY <1>1, <2>2, LfhTells DEF Headers
  <2>6. file[n + k] \in Range(file) /\ file[k] \in Range(file)
    BY <1>1, <2>1 DEF Range
  <2>7. file[n + (k + 1)].at = file[n + k].at + file[n + k].bytes
    BY <1>1, <2>1 DEF Contiguous
  <2> QED BY <2>4, <2>5, <2>6, <2>7 DEF IsAt
<1> QED BY <1>3, <1>4 DEF ReadsBack

LEMMA IInvLocalHeadersChain == IInv => LocalHeadersChain
<1> SUFFICES ASSUME IInv, NEW k \in 1..Len(entries)
             PROVE  /\ file[k].kind = "lfh"
                    /\ Reads(file[k], entries[k].entry)
                    /\ AfterLfh(file[k]) =
                         IF k < Len(entries) THEN file[k + 1].at
                         ELSE IF phase = "entries" THEN written ELSE cdOffset
  BY DEF LocalHeadersChain
<1> DEFINE n == Len(entries)
<1>1. /\ Contiguous /\ Headers /\ Progress /\ Directory /\ n \in Nat
      /\ entries \in Seq(Listed) /\ file \in Seq(Records) /\ Len(file) \in Nat
      /\ n <= Len(file)
      /\ phase = "entries" => Len(file) = n
  BY DEF IInv, TypeOK, Headers, Progress
<1>2. entries[k].entry \in Entry /\ entries[k].offset \in Nat
  <2>1. entries[k] \in Listed
    BY <1>1
  <2> QED BY <2>1 DEF Listed
<1>3. /\ file[k].kind = "lfh" /\ Reads(file[k], entries[k].entry)
      /\ AfterLfh(file[k]) = file[k].at + file[k].bytes
  BY <1>1, <1>2, LfhTells DEF Headers
<1>4. k < Len(file) => file[k].at + file[k].bytes = file[k + 1].at
  BY <1>1 DEF Contiguous
<1>5. k = Len(file) => file[k].at + file[k].bytes = written
  BY <1>1 DEF Contiguous
<1>6. phase # "entries" =>
        cdOffset = IF Len(file) = n THEN written ELSE file[n + 1].at
  BY <1>1 DEF Directory
<1>7. AfterLfh(file[k]) =
        IF k < n THEN file[k + 1].at
        ELSE IF phase = "entries" THEN written ELSE cdOffset
  <2>1. k \in 1..n
    OBVIOUS
  <2> HIDE DEF n
  <2>2. CASE k < n
    <3>1. k < Len(file)
      BY <2>1, <2>2, <1>1
    <3> QED BY <3>1, <2>2, <1>3, <1>4
  <2>3. CASE k = n /\ Len(file) = n
    BY <2>3, <1>1, <1>3, <1>5, <1>6
  <2>4. CASE k = n /\ Len(file) # n
    <3>1. k < Len(file)
      BY <2>4, <1>1
    <3> QED BY <3>1, <2>4, <1>1, <1>3, <1>4, <1>6
  <2> QED BY <2>1, <2>2, <2>3, <2>4, <1>1
<1> QED BY <1>3, <1>7

(* For every archive, whatever the values at the sentinels: a reader that    *)
(* starts at the end finds each entry.                                       *)
THEOREM ArchiveReadsBack == Spec => []ReadsBack
  BY ZipInvariant, IInvReadsBack, PTL

(* And one that starts at the front does.                                    *)
THEOREM ArchiveStreamsBack == Spec => []LocalHeadersChain
  BY ZipInvariant, IInvLocalHeadersChain, PTL
=============================================================================
