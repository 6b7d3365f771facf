------------------------------ MODULE BulkProofs ------------------------------
(* For any number of files, readers and volumes: chunks, windows and the     *)
(* writer lose and repeat nothing but what the code drops, every volume is   *)
(* accounted for, and what Ok means in bulk mode.                            *)
EXTENDS BulkPipeline, FiniteSetTheorems, SequenceTheorems, TLAPS

ReaderStates == {"recv", "pool", "read", "send", "done", "failed"}

BTyped ==
  /\ sort \in BOOLEAN /\ opened \in Nat /\ total \in Nat
  /\ splitter \in {"drain", "cut", "done"}
  /\ cuts \in 0..ReadJobs
  /\ chunks \in Seq(Seq(Nat))
  /\ reader \in [Readers -> ReaderStates]
  /\ todo \in [Readers -> Seq(Nat)]
  /\ window \in [Readers -> SUBSET Nat]
  /\ item \in [Readers -> Nat]
  /\ pool \in Nat
  /\ dropped \subseteq Nat /\ pending \subseteq Nat
  /\ raw \in Seq(Nat) /\ archive \in Seq(Nat)
  /\ consumer \in {"recv", "done", "failed"}
  /\ main \in {"write", "join"}
  /\ joined \in 0..ReadJobs
  /\ exit \in {"running", "ok", "error"}

(* The places an index can be, after those of the splitter's chunks.         *)
InChunks == UNION {Range(chunks[k]) : k \in DOMAIN chunks}
Held(r) == Range(todo[r]) \cup window[r] \cup ({item[r]} \ {0})
AllHeld == UNION {Held(r) : r \in Readers}
Everywhere ==
  InChunks \cup AllHeld \cup dropped \cup Range(raw) \cup pending \cup Range(archive)

(* Indices the splitter has handed out: those below the next cut.            *)
Cut == IF cuts * Per < total THEN cuts * Per ELSE total

(* Nothing is twice in one place ...                                         *)
ChunksOnce ==
  /\ \A k \in DOMAIN chunks : IsInjective(chunks[k])
  /\ \A j, k \in DOMAIN chunks : j # k => Range(chunks[j]) \cap Range(chunks[k]) = {}
HeldOnce(r) ==
  /\ IsInjective(todo[r])
  /\ Range(todo[r]) \cap window[r] = {}
  /\ item[r] \notin Range(todo[r]) \cup window[r]
Once ==
  ChunksOnce /\ (\A r \in Readers : HeldOnce(r)) /\ IsInjective(raw) /\ IsInjective(archive)

(* ... nor in two of them.                                                   *)
HeldApart ==
  /\ \A r, s \in Readers : r # s => Held(r) \cap Held(s) = {}
  /\ \A r \in Readers :
       /\ Held(r) \cap InChunks = {} /\ Held(r) \cap dropped = {}
       /\ Held(r) \cap Range(raw) = {} /\ Held(r) \cap pending = {}
       /\ Held(r) \cap Range(archive) = {}
RestApart ==
  /\ InChunks \cap dropped = {} /\ InChunks \cap Range(raw) = {}
  /\ InChunks \cap pending = {} /\ InChunks \cap Range(archive) = {}
  /\ dropped \cap Range(raw) = {} /\ dropped \cap pending = {}
  /\ dropped \cap Range(archive) = {} /\ Range(raw) \cap pending = {}
  /\ Range(raw) \cap Range(archive) = {} /\ pending \cap Range(archive) = {}

(* Until a worker fails, everything handed out is somewhere.                 *)
Inside == Everywhere \subseteq 1..Cut
Covered == consumer # "failed" => 1..Cut \subseteq Everywhere

(* What each thread's state goes with.                                       *)
ReaderHolds(r) ==
  /\ reader[r] \in {"recv", "done"} => todo[r] = <<>> /\ window[r] = {}
  /\ reader[r] = "pool" => window[r] = {}
  /\ reader[r] = "send" <=> item[r] # 0
  /\ reader[r] = "done" => splitter = "done" /\ chunks = <<>>

Flow ==
  /\ \A r \in Readers : ReaderHolds(r)
  /\ splitter = "drain" => cuts = 0
  /\ splitter = "done" =>
       cuts = ReadJobs \/ cuts * Per >= total \/ \A r \in Readers : reader[r] = "failed"
  /\ consumer = "done" => ReadersGone /\ raw = <<>>
  /\ main = "join" => consumer \in Ended /\ NextIdx \notin pending
  /\ \A r \in 1..joined : reader[r] = "done"
  /\ exit = "ok" => joined = ReadJobs /\ consumer = "done" /\ main = "join"
  /\ ~sort => pending = {}
  /\ sort => \A k \in DOMAIN archive : archive[k] = k

BulkIInv ==
  BTyped /\ Once /\ HeldApart /\ RestApart /\ Inside /\ Covered /\ Flow /\ VolumesAccounted

-----------------------------------------------------------------------------
(* Sequences without repetition.                                             *)

LEMMA InjAppend ==
  ASSUME NEW S, NEW s \in Seq(S), NEW x \in S, IsInjective(s), x \notin Range(s)
  PROVE  /\ Append(s, x) \in Seq(S) /\ IsInjective(Append(s, x))
         /\ Range(Append(s, x)) = Range(s) \cup {x}
<1> DEFINE t == Append(s, x)
<1>1. /\ t \in Seq(S) /\ DOMAIN t = 1..(Len(s) + 1) /\ DOMAIN s = 1..Len(s)
      /\ \A k \in 1..Len(s) : t[k] = s[k]
      /\ t[Len(s) + 1] = x /\ Len(s) \in Nat
  OBVIOUS
<1> HIDE DEF t
<1>2. \A k \in DOMAIN t : k \in DOMAIN s \/ k = Len(s) + 1
  BY <1>1
<1>3. IsInjective(t)
  BY <1>1, <1>2 DEF IsInjective, Range
<1>4. Range(t) = Range(s) \cup {x}
  BY <1>1, <1>2 DEF Range
<1> QED BY <1>1, <1>3, <1>4 DEF t

LEMMA InjTail ==
  ASSUME NEW S, NEW s \in Seq(S), s # <<>>, IsInjective(s)
  PROVE  /\ Tail(s) \in Seq(S) /\ IsInjective(Tail(s)) /\ Head(s) \in S
         /\ Head(s) \in Range(s) /\ Range(Tail(s)) = Range(s) \ {Head(s)}
<1> DEFINE t == Tail(s)
<1>1. /\ t \in Seq(S) /\ DOMAIN t = 1..(Len(s) - 1) /\ DOMAIN s = 1..Len(s)
      /\ \A k \in 1..(Len(s) - 1) : t[k] = s[k + 1]
      /\ Head(s) = s[1] /\ Len(s) \in Nat \ {0} /\ Head(s) \in S
  OBVIOUS
<1> HIDE DEF t
<1>2. 1 \in DOMAIN s /\ \A k \in DOMAIN t : k + 1 \in DOMAIN s /\ t[k] = s[k + 1] /\ k + 1 # 1
  BY <1>1
<1>3. \A k \in DOMAIN s : k = 1 \/ (k - 1 \in DOMAIN t /\ t[k - 1] = s[k])
  BY <1>1
<1>4. \A j, k \in DOMAIN t : j + 1 = k + 1 => j = k
  BY <1>1
<1>5. IsInjective(t)
  BY <1>2, <1>4 DEF IsInjective
<1>6. \A k \in DOMAIN t : t[k] # Head(s)
  BY <1>1, <1>2 DEF IsInjective
<1>7. Range(t) = Range(s) \ {Head(s)}
  BY <1>1, <1>2, <1>3, <1>6 DEF Range
<1>8. Head(s) \in Range(s)
  BY <1>1, <1>2 DEF Range
<1> QED BY <1>1, <1>5, <1>7, <1>8 DEF t

LEMMA RestLength ==
  ASSUME NEW m \in Nat, NEW n \in Nat, n <= m
  PROVE  /\ (IF n + 1 <= m THEN m - (n + 1) + 1 ELSE 0) = m - n
         /\ m - (n + 1) + 1 = m - n
         /\ \A i \in 1..(m - n) : (n + 1) + i - 1 = n + i
OBVIOUS

LEMMA InjRest ==
  ASSUME NEW S, NEW s \in Seq(S), IsInjective(s), NEW n \in 0..Len(s)
  PROVE  /\ SubSeq(s, n + 1, Len(s)) \in Seq(S) /\ IsInjective(SubSeq(s, n + 1, Len(s)))
         /\ {s[k] : k \in 1..n} \subseteq Range(s)
         /\ Range(SubSeq(s, n + 1, Len(s))) = Range(s) \ {s[k] : k \in 1..n}
<1> DEFINE t == SubSeq(s, n + 1, Len(s))
           front == {s[k] : k \in 1..n}
<1>1. /\ Len(s) \in Nat /\ DOMAIN s = 1..Len(s) /\ \A k \in 1..Len(s) : s[k] \in S
      /\ n \in Nat /\ n <= Len(s)
  OBVIOUS
<1>2. t \in Seq(S) /\ Len(t) = Len(s) - n /\ \A i \in 1..(Len(s) - n) : t[i] = s[n + i]
  <2>1. \A i \in (n + 1)..Len(s) : s[i] \in S
    BY <1>1
  <2>2. /\ t \in Seq(S) /\ Len(t) = IF n + 1 <= Len(s) THEN Len(s) - (n + 1) + 1 ELSE 0
        /\ \A i \in 1..(Len(s) - (n + 1) + 1) : t[i] = s[(n + 1) + i - 1]
    BY <1>1, <2>1, SubSeqProperties
  <2> HIDE DEF t, front
  <2>3. /\ (IF n + 1 <= Len(s) THEN Len(s) - (n + 1) + 1 ELSE 0) = Len(s) - n
        /\ Len(s) - (n + 1) + 1 = Len(s) - n
        /\ \A i \in 1..(Len(s) - n) : (n + 1) + i - 1 = n + i
    BY <1>1, RestLength
  <2>4. Len(t) = Len(s) - n
    BY <2>2, <2>3
  <2> QED BY <2>2, <2>3, <2>4
<1>3. DOMAIN t = 1..(Len(s) - n)
  BY <1>2
<1> HIDE DEF t
<1>4. \A i \in DOMAIN t : n + i \in DOMAIN s /\ t[i] = s[n + i] /\ n + i \notin 1..n
  BY <1>1, <1>2, <1>3
<1>5. \A k \in DOMAIN s : k \in 1..n \/ (k - n \in DOMAIN t /\ t[k - n] = s[k])
  BY <1>1, <1>2, <1>3
<1>6. \A k \in 1..n : k \in DOMAIN s
  BY <1>1
<1>7. \A i, j \in DOMAIN t : n + i = n + j => i = j
  BY <1>1, <1>3
<1>8. IsInjective(t)
  BY <1>4, <1>7 DEF IsInjective
<1>9. front \subseteq Range(s)
  BY <1>6 DEF Range
<1>10. \A i \in DOMAIN t : t[i] \notin front
  BY <1>4, <1>6 DEF IsInjective
<1>11. Range(t) = Range(s) \ front
  BY <1>4, <1>5, <1>10 DEF Range
<1> QED BY <1>2, <1>8, <1>9, <1>11 DEF t

(* The splitter's arithmetic: ceil(total / readers) is enough.               *)
LEMMA PerIsEnough ==
  ASSUME NEW t \in Nat, NEW n \in Nat \ {0}
  PROVE  LET p == (t + n - 1) \div n IN p \in Nat /\ n * p >= t /\ (t > 0 => p > 0)
<1> DEFINE a == t + n - 1
<1>1. a \in Nat /\ a = t + n - 1
  OBVIOUS
<1> HIDE DEF a
<1>2. PICK p \in Int : p = a \div n
  BY <1>1
<1>3. PICK m \in Int : m = a % n
  BY <1>1
<1>4. a = n * p + m /\ m >= 0 /\ m < n
  BY <1>1, <1>2, <1>3
<1>5. p >= 0
  BY <1>1, <1>2
<1>6. n * p \in Int
  OBVIOUS
<1>7. n * p >= t
  BY <1>1, <1>4, <1>6
<1>8. ASSUME t > 0
      PROVE  p > 0
  <2>1. p = 0 => n * p = 0
    OBVIOUS
  <2> QED BY <1>5, <1>7, <1>8, <2>1
<1> QED BY <1>2, <1>5, <1>7, <1>8 DEF a
-----------------------------------------------------------------------------
LEMMA Sizes ==
  ASSUME BTyped
  PROVE  /\ ReadJobs \in Nat \ {0} /\ Per \in Nat /\ ReadJobs * Per >= total
         /\ total > 0 => Per > 0
         /\ cuts \in Nat /\ cuts <= ReadJobs /\ total \in Nat
         /\ cuts * Per \in Nat /\ Cut \in Nat /\ Cut <= total
<1>1. ReadJobs \in Nat \ {0} /\ total \in Nat /\ cuts \in Nat /\ cuts <= ReadJobs
  BY BulkAssumption DEF BTyped
<1>2. Per \in Nat /\ ReadJobs * Per >= total /\ (total > 0 => Per > 0)
  BY <1>1, PerIsEnough DEF Per
<1>3. \A p \in Nat : cuts * p \in Nat
  BY <1>1
<1>4. cuts * Per \in Nat
  BY <1>2, <1>3
<1> QED BY <1>1, <1>2, <1>4 DEF Cut

LEMMA CutStays ==
  ASSUME UNCHANGED <<total, cuts>>
  PROVE  Per' = Per /\ Cut' = Cut
BY DEF Per, Cut

(* Steps that move no index.                                                 *)
LEMMA NothingMoves ==
  ASSUME BulkIInv, UNCHANGED <<chunks, todo, window, item, dropped, raw, pending, archive>>,
         Cut' = Cut, consumer' # "failed" => consumer # "failed"
  PROVE  Once' /\ HeldApart' /\ RestApart' /\ Inside' /\ Covered'
<1>1. InChunks' = InChunks /\ AllHeld' = AllHeld /\ \A r \in Readers : Held(r)' = Held(r)
  BY DEF InChunks, AllHeld, Held
<1>2. Everywhere' = Everywhere
  BY <1>1 DEF Everywhere
<1>3. Once'
  BY DEF BulkIInv, Once, ChunksOnce, HeldOnce
<1>4. HeldApart' /\ RestApart'
  BY <1>1 DEF BulkIInv, HeldApart, RestApart
<1> QED BY <1>2, <1>3, <1>4 DEF BulkIInv, Inside, Covered

LEMMA VolumesStay ==
  ASSUME VolumesAccounted, UNCHANGED <<reader, pool, opened>>
  PROVE  VolumesAccounted'
BY DEF VolumesAccounted

-----------------------------------------------------------------------------
(* The splitter.                                                             *)

LEMMA ReceivesKeeps ==
  ASSUME BulkIInv, SplitterReceives
  PROVE  BulkIInv'
<1> USE DEF BulkIInv
<1>1. /\ total' = total + 1 /\ splitter = "drain" /\ splitter' = splitter /\ cuts' = cuts
      /\ UNCHANGED <<chunks, todo, window, item, dropped, raw, pending, archive>>
      /\ UNCHANGED <<reader, pool, opened>> /\ UNCHANGED <<options, mainVars>>
      /\ cuts = 0 /\ consumer' = consumer
  BY DEF SplitterReceives, options, readVars, mainVars, Flow
<1>2. BTyped'
  BY <1>1 DEF BTyped, options, mainVars
<1>3. \A p \in Nat : 0 * p = 0
  OBVIOUS
<1>4. Cut = 0 /\ Cut' = 0
  <2>1. Per \in Nat /\ Per' \in Nat
    <3>1. total + 1 \in Nat
      BY DEF BTyped
    <3> QED BY <1>1, <3>1, PerIsEnough, Sizes, BulkAssumption DEF Per
  <2>2. cuts * Per = 0 /\ cuts' * Per' = 0
    BY <1>1, <1>3, <2>1
  <2>3. total \in Nat /\ total' \in Nat
    BY <1>2 DEF BTyped
  <2>4. ~(0 < total) => total = 0
    BY <2>3
  <2>5. ~(0 < total') => total' = 0
    BY <2>3
  <2> QED BY <2>2, <2>4, <2>5 DEF Cut
<1>5. Once' /\ HeldApart' /\ RestApart' /\ Inside' /\ Covered'
  BY <1>1, <1>4, NothingMoves
<1>6. Flow'
  BY <1>1 DEF Flow, ReaderHolds, ReadersGone, NextIdx, options, mainVars
<1>7. VolumesAccounted'
  BY <1>1, VolumesStay
<1> QED BY <1>2, <1>5, <1>6, <1>7

LEMMA FeedClosedKeeps ==
  ASSUME BulkIInv, SplitterSeesFeedClosed \/ SplitterEnds
  PROVE  BulkIInv'
<1> USE DEF BulkIInv
<1>1. /\ total' = total /\ cuts' = cuts /\ UNCHANGED <<total, cuts>>
      /\ UNCHANGED <<chunks, todo, window, item, dropped, raw, pending, archive>>
      /\ UNCHANGED <<reader, pool, opened>> /\ UNCHANGED <<options, mainVars>>
      /\ consumer' = consumer /\ splitter' \in {"cut", "done"}
  BY DEF SplitterSeesFeedClosed, SplitterEnds, options, readVars, mainVars
<1>2. BTyped'
  BY <1>1 DEF BTyped, options, mainVars
<1>3. Once' /\ HeldApart' /\ RestApart' /\ Inside' /\ Covered'
  BY <1>1, CutStays, NothingMoves
<1>4. \A r \in Readers : reader[r] # "done"
  BY DEF Flow, ReaderHolds, SplitterSeesFeedClosed, SplitterEnds
<1>5. splitter' = "done" => cuts = ReadJobs \/ cuts * Per >= total \/ \A r \in Readers : reader[r] = "failed"
  BY <1>4 DEF SplitterSeesFeedClosed, SplitterEnds, ReadersGone, Ended
<1>6. Flow'
  <2>1. \A r \in Readers : ReaderHolds(r)'
    BY <1>1, <1>4 DEF Flow, ReaderHolds
  <2>2. cuts' * Per' = cuts * Per
    BY <1>1, CutStays
  <2> QED BY <1>1, <1>5, <2>1, <2>2 DEF Flow, ReadersGone, NextIdx, options, mainVars
<1>7. VolumesAccounted'
  BY <1>1, VolumesStay
<1> QED BY <1>2, <1>3, <1>6, <1>7

(* The next chunk goes on where the last one ended.                          *)
LEMMA NextChunk ==
  ASSUME BTyped, cuts < ReadJobs, cuts * Per < total, cuts' = cuts + 1, total' = total
  PROVE  /\ Chunk(cuts) \in Seq(Nat) /\ IsInjective(Chunk(cuts))
         /\ Cut \in Nat /\ Cut' \in Nat /\ Cut <= Cut' /\ Range(Chunk(cuts)) = (Cut + 1)..Cut'
<1>1. PICK a \in Nat : a = cuts * Per /\ a < total
  BY Sizes
<1>2. PICK e \in Nat : e = IF (cuts + 1) * Per < total THEN (cuts + 1) * Per ELSE total
  <2>1. \A p \in Nat : (cuts + 1) * p \in Nat
    BY Sizes
  <2> QED BY <2>1, Sizes
<1>3. a <= e
  <2>1. \A p \in Nat : (cuts + 1) * p = cuts * p + p
    BY Sizes
  <2>2. (cuts + 1) * Per = a + Per
    BY <1>1, <2>1, Sizes
  <2> QED BY <1>1, <1>2, <2>2, Sizes
<1>4. Chunk(cuts) = [k \in 1..(e - a) |-> a + k]
  BY <1>1, <1>2 DEF Chunk
<1>5. Cut = a /\ Cut' = e
  BY <1>1, <1>2 DEF Cut, Per
<1> DEFINE c == [k \in 1..(e - a) |-> a + k]
<1>6. c \in Seq(Nat)
  <2>1. e - a \in Nat /\ \A k \in 1..(e - a) : a + k \in Nat
    BY <1>3
  <2> QED BY <2>1
<1>7. IsInjective(c)
  BY DEF IsInjective
<1>8. Range(c) = (a + 1)..e
  <2>1. \A k \in 1..(e - a) : a + k \in (a + 1)..e
    BY <1>3
  <2>2. \A x \in (a + 1)..e : x - a \in 1..(e - a) /\ a + (x - a) = x
    BY <1>3
  <2>3. DOMAIN c = 1..(e - a) /\ \A k \in 1..(e - a) : c[k] = a + k
    OBVIOUS
  <2> HIDE DEF c
  <2>4. \A x \in (a + 1)..e : x \in Range(c)
    <3> SUFFICES ASSUME NEW x \in (a + 1)..e
                 PROVE  \E k \in DOMAIN c : c[k] = x
      BY DEF Range
    <3>1. x - a \in DOMAIN c /\ c[x - a] = a + (x - a)
      BY <2>2, <2>3
    <3> QED BY <2>2, <3>1
  <2>5. \A x \in Range(c) : x \in (a + 1)..e
    BY <2>1, <2>3 DEF Range
  <2> QED BY <2>4, <2>5
<1> QED BY <1>3, <1>4, <1>5, <1>6, <1>7, <1>8

LEMMA ChunkAppended ==
  ASSUME BTyped, ChunksOnce, NEW c \in Seq(Nat), IsInjective(c), Range(c) \cap InChunks = {},
         chunks' = Append(chunks, c)
  PROVE  chunks' \in Seq(Seq(Nat)) /\ ChunksOnce' /\ InChunks' = InChunks \cup Range(c)
<1>1. /\ chunks' \in Seq(Seq(Nat)) /\ DOMAIN chunks' = 1..(Len(chunks) + 1)
      /\ DOMAIN chunks = 1..Len(chunks) /\ Len(chunks) \in Nat
      /\ \A k \in 1..Len(chunks) : chunks'[k] = chunks[k]
      /\ chunks'[Len(chunks) + 1] = c
  BY DEF BTyped
<1>2. \A k \in DOMAIN chunks' : k \in DOMAIN chunks \/ k = Len(chunks) + 1
  BY <1>1
<1>3. InChunks' = InChunks \cup Range(c)
  <2>1. \A x \in InChunks : x \in InChunks'
    <3> SUFFICES ASSUME NEW k \in DOMAIN chunks
                 PROVE  Range(chunks[k]) \subseteq InChunks'
      BY DEF InChunks
    <3>1. k \in DOMAIN chunks' /\ chunks'[k] = chunks[k]
      BY <1>1
    <3> QED BY <3>1 DEF InChunks
  <2>2. Range(c) \subseteq InChunks'
    <3>1. Len(chunks) + 1 \in DOMAIN chunks'
      BY <1>1
    <3> QED BY <1>1, <3>1 DEF InChunks
  <2>3. \A x \in InChunks' : x \in InChunks \/ x \in Range(c)
    <3> SUFFICES ASSUME NEW k \in DOMAIN chunks'
                 PROVE  Range(chunks'[k]) \subseteq InChunks \cup Range(c)
      BY DEF InChunks
    <3>1. (k \in DOMAIN chunks /\ chunks'[k] = chunks[k]) \/ chunks'[k] = c
      BY <1>1, <1>2
    <3> QED BY <3>1 DEF InChunks
  <2> QED BY <2>1, <2>2, <2>3
<1>4. \A k \in DOMAIN chunks : Range(chunks[k]) \cap Range(c) = {}
  BY DEF InChunks
<1>5. ChunksOnce'
  BY <1>1, <1>2, <1>4 DEF ChunksOnce
<1> QED BY <1>1, <1>3, <1>5

LEMMA SendsChunkKeeps ==
  ASSUME BulkIInv, SplitterSendsChunk
  PROVE  BulkIInv'
<1> USE DEF BulkIInv
<1>1. /\ chunks' = Append(chunks, Chunk(cuts)) /\ cuts' = cuts + 1 /\ splitter' = splitter
      /\ splitter = "cut" /\ cuts < ReadJobs /\ cuts * Per < total /\ total' = total
      /\ UNCHANGED <<todo, window, item, dropped, raw, pending, archive>>
      /\ UNCHANGED <<reader, pool, opened>> /\ UNCHANGED <<options, mainVars>>
      /\ consumer' = consumer
  BY DEF SplitterSendsChunk, options, readVars, mainVars
<1>2. PICK c \in Seq(Nat) : c = Chunk(cuts) /\ IsInjective(c) /\ Range(c) = (Cut + 1)..Cut'
  BY <1>1, NextChunk
<1>3. Cut \in Nat /\ Cut' \in Nat /\ Cut <= Cut'
  BY <1>1, NextChunk
<1>4. Range(c) \cap Everywhere = {}
  BY <1>2, <1>3 DEF Inside
<1>5. chunks' \in Seq(Seq(Nat)) /\ ChunksOnce' /\ InChunks' = InChunks \cup Range(c)
  BY <1>1, <1>2, <1>4, ChunkAppended DEF Once, Everywhere
<1>6. AllHeld' = AllHeld /\ \A r \in Readers : Held(r)' = Held(r)
  BY <1>1 DEF AllHeld, Held
<1>7. Everywhere' = Everywhere \cup Range(c)
  BY <1>1, <1>5, <1>6 DEF Everywhere
<1>8. BTyped'
  <2>1. cuts' \in 0..ReadJobs
    BY <1>1, Sizes
  <2> QED BY <1>1, <1>5, <2>1 DEF BTyped, options, mainVars
<1>9. Once'
  BY <1>1, <1>5 DEF Once, HeldOnce
<1>10. HeldApart'
  <2>1. \A r \in Readers : Held(r) \subseteq Everywhere
    BY DEF Everywhere, AllHeld
  <2> QED BY <1>1, <1>4, <1>5, <1>6, <2>1 DEF HeldApart
<1>11. RestApart'
  BY <1>1, <1>4, <1>5 DEF RestApart, Everywhere
<1>12. Inside'
  BY <1>2, <1>3, <1>7 DEF Inside
<1>13. Covered'
  <2>1. \A x \in 1..Cut' : x \in 1..Cut \/ x \in (Cut + 1)..Cut'
    BY <1>3
  <2> QED BY <1>1, <1>2, <1>7, <2>1 DEF Covered
<1>14. Flow'
  <2>1. \A r \in Readers : reader[r] # "done"
    BY <1>1 DEF Flow, ReaderHolds
  <2>2. \A r \in Readers : ReaderHolds(r)'
    BY <1>1, <2>1 DEF Flow, ReaderHolds
  <2> QED BY <1>1, <2>2 DEF Flow, ReadersGone, NextIdx, options, mainVars
<1>15. VolumesAccounted'
  BY <1>1, VolumesStay
<1> QED BY <1>8, <1>9, <1>10, <1>11, <1>12, <1>13, <1>14, <1>15

-----------------------------------------------------------------------------
(* The readers.                                                              *)

LEMMA OthersHold ==
  ASSUME NEW r \in Readers,
         \A s \in Readers \ {r} :
           todo'[s] = todo[s] /\ window'[s] = window[s] /\ item'[s] = item[s]
  PROVE  \A s \in Readers \ {r} : Held(s)' = Held(s) /\ (HeldOnce(s) => HeldOnce(s)')
BY DEF Held, HeldOnce

(* A step that moves indices between a reader, the chunks, the dropped ones  *)
(* and the raw channel.                                                      *)
LEMMA ReaderMoves ==
  ASSUME BulkIInv, NEW r \in Readers,
         \A s \in Readers \ {r} :
           todo'[s] = todo[s] /\ window'[s] = window[s] /\ item'[s] = item[s],
         UNCHANGED <<total, cuts, consumer, pending, archive>>,
         HeldOnce(r)', ChunksOnce', IsInjective(raw'),
         InChunks' \cap Held(r)' = {}, InChunks' \cap dropped' = {},
         InChunks' \cap Range(raw') = {}, Held(r)' \cap dropped' = {},
         Held(r)' \cap Range(raw') = {}, dropped' \cap Range(raw') = {},
         InChunks' \cup Held(r)' \cup dropped' \cup Range(raw')
           \subseteq InChunks \cup Held(r) \cup dropped \cup Range(raw),
         consumer # "failed" =>
           InChunks \cup Held(r) \cup dropped \cup Range(raw)
             \subseteq InChunks' \cup Held(r)' \cup dropped' \cup Range(raw')
  PROVE  Once' /\ HeldApart' /\ RestApart' /\ Inside' /\ Covered'
<1> USE DEF BulkIInv
<1>1. PICK rest : rest = UNION {Held(s) : s \in Readers \ {r}}
  OBVIOUS
<1>2. \A s \in Readers \ {r} : Held(s)' = Held(s) /\ HeldOnce(s)'
  BY OthersHold DEF Once
<1>3. AllHeld = Held(r) \cup rest /\ AllHeld' = Held(r)' \cup rest
  BY <1>1, <1>2 DEF AllHeld
<1>4. Cut' = Cut
  BY CutStays
<1>5. Everywhere' \subseteq Everywhere
  BY <1>3 DEF Everywhere
<1>6. consumer # "failed" => Everywhere \subseteq Everywhere'
  BY <1>3 DEF Everywhere
<1>7. Once'
  BY <1>2 DEF Once
<1>8. RestApart'
  BY DEF RestApart, HeldApart
<1>9. \A s \in Readers \ {r} :
        /\ Held(s) \cap (InChunks \cup Held(r) \cup dropped \cup Range(raw)) = {}
        /\ Held(s) \cap pending = {} /\ Held(s) \cap Range(archive) = {}
  BY DEF HeldApart
<1>10. Held(r)' \cap pending' = {} /\ Held(r)' \cap Range(archive') = {}
  BY DEF HeldApart, RestApart
<1>11. \A s \in Readers :
         /\ Held(s)' \cap InChunks' = {} /\ Held(s)' \cap dropped' = {}
         /\ Held(s)' \cap Range(raw') = {} /\ Held(s)' \cap pending' = {}
         /\ Held(s)' \cap Range(archive') = {}
  <2> SUFFICES ASSUME NEW s \in Readers
               PROVE  /\ Held(s)' \cap InChunks' = {} /\ Held(s)' \cap dropped' = {}
                      /\ Held(s)' \cap Range(raw') = {} /\ Held(s)' \cap pending' = {}
                      /\ Held(s)' \cap Range(archive') = {}
    OBVIOUS
  <2>1. CASE s = r
    BY <2>1, <1>10
  <2>2. CASE s # r
    BY <2>2, <1>2, <1>9
  <2> QED BY <2>1, <2>2
<1>12. \A s, q \in Readers : s # q => Held(s)' \cap Held(q)' = {}
  <2> SUFFICES ASSUME NEW s \in Readers, NEW q \in Readers, s # q
               PROVE  Held(s)' \cap Held(q)' = {}
    OBVIOUS
  <2>1. CASE s = r
    BY <2>1, <1>2, <1>9
  <2>2. CASE q = r
    BY <2>2, <1>2, <1>9
  <2>3. CASE s # r /\ q # r
    BY <2>3, <1>2 DEF HeldApart
  <2> QED BY <2>1, <2>2, <2>3
<1>13. HeldApart'
  BY <1>11, <1>12 DEF HeldApart
<1>14. Inside' /\ Covered'
  BY <1>4, <1>5, <1>6 DEF Inside, Covered
<1> QED BY <1>7, <1>8, <1>13, <1>14

(* While a reader is at work, nobody behind it can have seen it gone.        *)
LEMMA ReaderOn ==
  ASSUME BulkIInv, NEW r \in Readers, reader[r] \notin Ended, NEW st,
         reader' = [reader EXCEPT ![r] = st],
         UNCHANGED <<options, total, splitter, cuts, mainVars>>,
         \A s \in Readers \ {r} :
           todo'[s] = todo[s] /\ window'[s] = window[s] /\ item'[s] = item[s],
         ReaderHolds(r)', chunks' = chunks \/ chunks # <<>>
  PROVE  Flow'
<1> USE DEF BulkIInv
<1>1. reader'[r] = st /\ \A s \in Readers \ {r} : reader'[s] = reader[s]
  BY DEF BTyped
<1>2. \A s \in Readers : ReaderHolds(s)'
  <2> SUFFICES ASSUME NEW s \in Readers, s # r
               PROVE  ReaderHolds(s)'
    OBVIOUS
  <2>1. ReaderHolds(s)
    BY DEF Flow
  <2>2. reader[s] = "done" => chunks' = chunks
    BY <2>1 DEF ReaderHolds
  <2> QED BY <1>1, <2>1, <2>2 DEF ReaderHolds
<1>3. reader[r] # "failed" /\ reader[r] # "done" /\ consumer # "done"
  BY DEF Ended, Flow, ReadersGone
<1>4. splitter' = "done" => cuts' = ReadJobs \/ cuts' * Per' >= total'
  BY <1>3, CutStays DEF Flow
<1>5. joined' = joined /\ \A s \in 1..joined : s \in Readers \ {r} /\ reader'[s] = reader[s]
  <2>1. \A s \in 1..joined : s \in Readers
    BY BulkAssumption DEF BTyped, Readers
  <2> QED BY <1>1, <1>3, <2>1 DEF Flow, mainVars
<1>6. UNCHANGED <<sort, consumer, pending, archive, main, joined, exit>> /\ NextIdx' = NextIdx
  BY DEF options, mainVars, NextIdx
<1> QED BY <1>2, <1>3, <1>4, <1>5, <1>6 DEF Flow

(* The readers that took a volume out of the pool.                           *)
Holders == {r \in Readers : reader[r] \in {"read", "send", "failed"}}

LEMMA HoldersMove ==
  ASSUME BTyped, VolumesAccounted, NEW r \in Readers, NEW st \in ReaderStates,
         reader' = [reader EXCEPT ![r] = st], opened' = opened,
         pool' = pool + (IF r \in Holders THEN 1 ELSE 0)
                      - (IF st \in {"read", "send", "failed"} THEN 1 ELSE 0)
  PROVE  VolumesAccounted'
<1>1. Readers \in SUBSET Int /\ IsFiniteSet(Readers)
  BY FS_Interval, BulkAssumption DEF Readers
<1>2. IsFiniteSet(Holders) /\ Cardinality(Holders) \in Nat
  BY <1>1, FS_Subset, FS_CardinalityType DEF Holders
<1>3. pool + Cardinality(Holders) = opened
  BY DEF VolumesAccounted, Holders
<1>4. reader'[r] = st /\ \A s \in Readers \ {r} : reader'[s] = reader[s]
  BY DEF BTyped
<1>5. Holders' = IF st \in {"read", "send", "failed"} THEN Holders \cup {r} ELSE Holders \ {r}
  BY <1>4 DEF Holders
<1>6. Cardinality(Holders \cup {r}) = 
        IF r \in Holders THEN Cardinality(Holders) ELSE Cardinality(Holders) + 1
  BY <1>2, FS_AddElement
<1>7. Cardinality(Holders \ {r}) = 
        IF r \in Holders THEN Cardinality(Holders) - 1 ELSE Cardinality(Holders)
  BY <1>2, FS_RemoveElement
<1>8. PICK n \in Nat : n = Cardinality(Holders)
  BY <1>2
<1>9. pool' + Cardinality(Holders') = opened
  <2>1. pool \in Nat
    BY DEF BTyped
  <2>2. CASE st \in {"read", "send", "failed"}
    BY <1>3, <1>5, <1>6, <1>8, <2>1, <2>2
  <2>3. CASE st \notin {"read", "send", "failed"}
    BY <1>3, <1>5, <1>7, <1>8, <2>1, <2>3
  <2> QED BY <2>2, <2>3
<1> QED BY <1>9 DEF VolumesAccounted, Holders

LEMMA TakesChunkKeeps ==
  ASSUME BulkIInv, NEW r \in Readers, ReaderTakesChunk(r)
  PROVE  BulkIInv'
<1> USE DEF BulkIInv
<1>1. /\ reader[r] = "recv" /\ chunks # <<>> /\ chunks' = Tail(chunks)
      /\ todo' = [todo EXCEPT ![r] = Head(chunks)] /\ reader' = [reader EXCEPT ![r] = "pool"]
      /\ UNCHANGED <<total, splitter, cuts, window, item, pool, dropped, raw>>
      /\ UNCHANGED <<options, mainVars>> /\ UNCHANGED <<consumer, pending, archive>>
      /\ opened' = opened
  BY DEF ReaderTakesChunk, options, mainVars
<1>2. todo[r] = <<>> /\ window[r] = {} /\ item[r] = 0 /\ item[r] \in Nat
  BY <1>1 DEF Flow, ReaderHolds, BTyped
<1>3. PICK c \in Seq(Nat) : c = Head(chunks)
  BY <1>1 DEF BTyped
<1>4. /\ DOMAIN chunks = 1..Len(chunks) /\ Len(chunks) \in Nat \ {0} /\ chunks[1] = c
      /\ chunks' \in Seq(Seq(Nat)) /\ DOMAIN chunks' = 1..(Len(chunks) - 1)
      /\ \A k \in 1..(Len(chunks) - 1) : chunks'[k] = chunks[k + 1]
  BY <1>1, <1>3 DEF BTyped
<1>5. /\ 1 \in DOMAIN chunks
      /\ \A k \in DOMAIN chunks' : k + 1 \in DOMAIN chunks /\ k + 1 # 1 /\ chunks'[k] = chunks[k + 1]
      /\ \A k \in DOMAIN chunks : k = 1 \/ (k - 1 \in DOMAIN chunks' /\ chunks'[k - 1] = chunks[k])
      /\ \A j, k \in DOMAIN chunks' : j + 1 = k + 1 => j = k
  BY <1>4
<1>6. IsInjective(c) /\ ChunksOnce'
  BY <1>4, <1>5 DEF Once, ChunksOnce
<1>7. \A k \in DOMAIN chunks' : Range(chunks'[k]) \cap Range(c) = {}
  <2> SUFFICES ASSUME NEW k \in DOMAIN chunks'
               PROVE  Range(chunks'[k]) \cap Range(c) = {}
    OBVIOUS
  <2>1. PICK j \in DOMAIN chunks : j = k + 1 /\ j # 1 /\ chunks'[k] = chunks[j]
    BY <1>5
  <2>2. Range(chunks[j]) \cap Range(chunks[1]) = {}
    BY <1>5, <2>1 DEF Once, ChunksOnce
  <2> QED BY <1>4, <2>1, <2>2
<1>8. Range(c) \cap InChunks' = {}
  BY <1>7 DEF InChunks
<1>9. \A k \in DOMAIN chunks' : Range(chunks'[k]) \subseteq InChunks
  BY <1>5 DEF InChunks
<1>10. \A k \in DOMAIN chunks : Range(chunks[k]) \subseteq InChunks' \cup Range(c)
  BY <1>4, <1>5 DEF InChunks
<1>11. Range(c) \subseteq InChunks
  BY <1>4, <1>5 DEF InChunks
<1>12. InChunks = InChunks' \cup Range(c)
  BY <1>9, <1>10, <1>11 DEF InChunks
<1>13. /\ todo'[r] = c /\ window'[r] = {} /\ item'[r] = 0
       /\ \A s \in Readers \ {r} :
            todo'[s] = todo[s] /\ window'[s] = window[s] /\ item'[s] = item[s]
  BY <1>1, <1>2, <1>3 DEF BTyped
<1>14. Held(r)' = Range(c) /\ Held(r) = {}
  BY <1>2, <1>13 DEF Held, Range
<1>15. 0 \notin Range(c)
  BY <1>11 DEF Inside, Everywhere
<1>16. HeldOnce(r)'
  BY <1>6, <1>13, <1>15 DEF HeldOnce
<1>17. Once' /\ HeldApart' /\ RestApart' /\ Inside' /\ Covered'
  BY <1>1, <1>6, <1>8, <1>12, <1>13, <1>14, <1>16, ReaderMoves DEF RestApart, Once
<1>18. BTyped'
  BY <1>1, <1>3, <1>4 DEF BTyped, options, mainVars, ReaderStates
<1>19. ReaderHolds(r)' /\ Flow'
  <2>1. reader'[r] = "pool"
    BY <1>1 DEF BTyped
  <2>2. ReaderHolds(r)'
    BY <1>13, <2>1 DEF ReaderHolds
  <2>3. reader[r] \notin Ended
    BY <1>1 DEF Ended
  <2> QED BY <1>1, <1>13, <2>2, <2>3, ReaderOn
<1>20. VolumesAccounted'
  <2>1. r \notin Holders /\ pool \in Nat
    BY <1>1 DEF Holders, BTyped
  <2>2. pool' = pool + (IF r \in Holders THEN 1 ELSE 0)
                      - (IF "pool" \in {"read", "send", "failed"} THEN 1 ELSE 0)
    BY <1>1, <2>1
  <2> QED BY <1>1, <2>2, HoldersMove DEF ReaderStates
<1> QED BY <1>17, <1>18, <1>19, <1>20

(* Steps of a reader that move no index.                                     *)
LEMMA ReaderTurns ==
  ASSUME BulkIInv, NEW r \in Readers, NEW st \in ReaderStates, reader[r] \notin Ended,
         reader' = [reader EXCEPT ![r] = st], UNCHANGED <<options, splitVars>>,
         UNCHANGED <<todo, window, item, dropped, raw>>, UNCHANGED mainVars, pool' \in Nat,
         ReaderHolds(r)',
         pool' = pool + (IF r \in Holders THEN 1 ELSE 0)
                      - (IF st \in {"read", "send", "failed"} THEN 1 ELSE 0)
  PROVE  BulkIInv'
<1> USE DEF BulkIInv
<1>1. /\ UNCHANGED <<total, cuts>> /\ opened' = opened /\ consumer' = consumer
      /\ UNCHANGED <<options, total, splitter, cuts, mainVars>> /\ chunks' = chunks
      /\ UNCHANGED <<chunks, todo, window, item, dropped, raw, pending, archive>>
  BY DEF splitVars, options, mainVars
<1>2. Once' /\ HeldApart' /\ RestApart' /\ Inside' /\ Covered'
  BY <1>1, CutStays, NothingMoves
<1>3. BTyped'
  BY <1>1 DEF BTyped, options, splitVars, mainVars
<1>4. Flow'
  BY <1>1, ReaderOn
<1>5. VolumesAccounted'
  BY <1>1, HoldersMove
<1> QED BY <1>2, <1>3, <1>4, <1>5

LEMMA TakesVolumeKeeps ==
  ASSUME BulkIInv, NEW r \in Readers, ReaderTakesVolume(r)
  PROVE  BulkIInv'
<1>1. /\ reader[r] = "pool" /\ pool > 0 /\ pool' = pool - 1
      /\ reader' = [reader EXCEPT ![r] = "read"] /\ UNCHANGED <<options, splitVars>>
      /\ UNCHANGED <<todo, window, item, dropped, raw>> /\ UNCHANGED mainVars
      /\ reader[r] \notin Ended /\ r \notin Holders
  BY DEF ReaderTakesVolume, Ended, Holders
<1>2. pool \in Nat /\ pool' \in Nat /\ reader'[r] = "read"
  BY <1>1 DEF BulkIInv, BTyped
<1>3. ReaderHolds(r)'
  BY <1>1, <1>2 DEF BulkIInv, Flow, ReaderHolds
<1>4. pool' = pool + (IF r \in Holders THEN 1 ELSE 0)
                   - (IF "read" \in {"read", "send", "failed"} THEN 1 ELSE 0)
  BY <1>1, <1>2
<1> QED BY <1>1, <1>2, <1>3, <1>4, ReaderTurns DEF ReaderStates

LEMMA ReaderFailsKeeps ==
  ASSUME BulkIInv, NEW r \in Readers, ReaderFails(r)
  PROVE  BulkIInv'
<1>1. /\ reader[r] = "read" /\ pool' = pool
      /\ reader' = [reader EXCEPT ![r] = "failed"] /\ UNCHANGED <<options, splitVars>>
      /\ UNCHANGED <<todo, window, item, dropped, raw>> /\ UNCHANGED mainVars
      /\ reader[r] \notin Ended
  BY DEF ReaderFails, Ended
<1>2. pool \in Nat /\ reader'[r] = "failed" /\ r \in Holders
  BY <1>1 DEF BulkIInv, BTyped, Holders
<1>3. ReaderHolds(r)'
  BY <1>1, <1>2 DEF BulkIInv, Flow, ReaderHolds
<1>4. pool' = pool + (IF r \in Holders THEN 1 ELSE 0)
                   - (IF "failed" \in {"read", "send", "failed"} THEN 1 ELSE 0)
  BY <1>1, <1>2
<1> QED BY <1>1, <1>2, <1>3, <1>4, ReaderTurns DEF ReaderStates

LEMMA EndsChunkKeeps ==
  ASSUME BulkIInv, NEW r \in Readers, ReaderEndsChunk(r)
  PROVE  BulkIInv'
<1>1. /\ reader[r] = "read" /\ window[r] = {} /\ todo[r] = <<>> /\ pool' = pool + 1
      /\ reader' = [reader EXCEPT ![r] = "recv"] /\ UNCHANGED <<options, splitVars>>
      /\ UNCHANGED <<todo, window, item, dropped, raw>> /\ UNCHANGED mainVars
      /\ reader[r] \notin Ended
  BY DEF ReaderEndsChunk, Ended
<1>2. pool \in Nat /\ pool' \in Nat /\ reader'[r] = "recv" /\ r \in Holders
  BY <1>1 DEF BulkIInv, BTyped, Holders
<1>3. ReaderHolds(r)'
  BY <1>1, <1>2 DEF BulkIInv, Flow, ReaderHolds
<1>4. pool' = pool + (IF r \in Holders THEN 1 ELSE 0)
                   - (IF "recv" \in {"read", "send", "failed"} THEN 1 ELSE 0)
  BY <1>1, <1>2
<1> QED BY <1>1, <1>2, <1>3, <1>4, ReaderTurns DEF ReaderStates

LEMMA SeesChunksClosedKeeps ==
  ASSUME BulkIInv, NEW r \in Readers, ReaderSeesChunksClosed(r)
  PROVE  BulkIInv'
<1>1. /\ reader[r] = "recv" /\ chunks = <<>> /\ splitter = "done" /\ pool' = pool
      /\ reader' = [reader EXCEPT ![r] = "done"] /\ UNCHANGED <<options, splitVars>>
      /\ UNCHANGED <<todo, window, item, dropped, raw>> /\ UNCHANGED mainVars
      /\ reader[r] \notin Ended /\ r \notin Holders
      /\ splitter' = "done" /\ chunks' = <<>>
  BY DEF ReaderSeesChunksClosed, Ended, Holders, splitVars
<1>2. pool \in Nat /\ pool' \in Nat /\ reader'[r] = "done"
  BY <1>1 DEF BulkIInv, BTyped
<1>3. ReaderHolds(r)'
  BY <1>1, <1>2 DEF BulkIInv, Flow, ReaderHolds
<1>4. pool' = pool + (IF r \in Holders THEN 1 ELSE 0)
                   - (IF "done" \in {"read", "send", "failed"} THEN 1 ELSE 0)
  BY <1>1, <1>2
<1> QED BY <1>1, <1>2, <1>3, <1>4, ReaderTurns DEF ReaderStates

LEMMA OpensWindowKeeps ==
  ASSUME BulkIInv, NEW r \in Readers, ReaderOpensWindow(r)
  PROVE  BulkIInv'
<1> USE DEF BulkIInv
<1>1. PICK s \in Seq(Nat) : s = todo[r] /\ IsInjective(s)
  BY DEF BTyped, Once, HeldOnce
<1>2. PICK n \in 0..Len(s) : n = IF Len(s) < Window THEN Len(s) ELSE Window
  BY BulkAssumption
<1>3. PICK t \in Seq(Nat), files \in SUBSET Range(s) :
        /\ t = SubSeq(s, n + 1, Len(s)) /\ files = {s[k] : k \in 1..n}
        /\ IsInjective(t) /\ Range(t) = Range(s) \ files
  <2>1. /\ SubSeq(s, n + 1, Len(s)) \in Seq(Nat) /\ IsInjective(SubSeq(s, n + 1, Len(s)))
        /\ {s[k] : k \in 1..n} \subseteq Range(s)
        /\ Range(SubSeq(s, n + 1, Len(s))) = Range(s) \ {s[k] : k \in 1..n}
    <3>1. s \in Seq(Nat) /\ n \in 0..Len(s) /\ IsInjective(s)
      BY <1>1
    <3>2. \A i \in 0..Len(s) :
            /\ SubSeq(s, i + 1, Len(s)) \in Seq(Nat) /\ IsInjective(SubSeq(s, i + 1, Len(s)))
            /\ {s[k] : k \in 1..i} \subseteq Range(s)
            /\ Range(SubSeq(s, i + 1, Len(s))) = Range(s) \ {s[k] : k \in 1..i}
      BY <3>1, InjRest
    <3> QED BY <3>1, <3>2
  <2> QED BY <2>1
<1>4. PICK lost \in SUBSET files :
        dropped' = dropped \cup lost /\ window' = [window EXCEPT ![r] = files \ lost]
  <2>1. files = {todo[r][k] : k \in 1..(IF Len(todo[r]) < Window THEN Len(todo[r]) ELSE Window)}
    BY <1>1, <1>2, <1>3
  <2>2. \E lost \in SUBSET {todo[r][k] : k \in 1..(IF Len(todo[r]) < Window THEN Len(todo[r]) ELSE Window)} :
          /\ dropped' = dropped \cup lost
          /\ window' = [window EXCEPT ![r] =
               {todo[r][k] : k \in 1..(IF Len(todo[r]) < Window THEN Len(todo[r]) ELSE Window)} \ lost]
    BY DEF ReaderOpensWindow
  <2> QED BY <2>1, <2>2
<1>5. /\ reader[r] = "read" /\ window[r] = {} /\ todo' = [todo EXCEPT ![r] = t]
      /\ UNCHANGED <<total, splitter, cuts, chunks, reader, item, pool, raw>>
      /\ UNCHANGED <<options, mainVars>> /\ UNCHANGED <<consumer, pending, archive>>
      /\ opened' = opened /\ item[r] = 0
  BY <1>1, <1>2, <1>3 DEF ReaderOpensWindow, options, splitVars, mainVars, Flow, ReaderHolds
<1>6. /\ todo'[r] = t /\ window'[r] = files \ lost /\ item'[r] = 0
      /\ \A q \in Readers \ {r} :
           todo'[q] = todo[q] /\ window'[q] = window[q] /\ item'[q] = item[q]
  BY <1>4, <1>5 DEF BTyped
<1>7. Held(r) = Range(s) /\ Held(r)' = Range(t) \cup (files \ lost)
  BY <1>1, <1>5, <1>6 DEF Held
<1>8. 0 \notin Range(s)
  <2>1. Held(r) \subseteq 1..Cut
    BY DEF Inside, Everywhere, AllHeld
  <2> QED BY <1>7, <2>1
<1>9. HeldOnce(r)'
  BY <1>3, <1>6, <1>8 DEF HeldOnce
<1>10. InChunks' = InChunks /\ ChunksOnce' /\ IsInjective(raw')
  BY <1>5 DEF InChunks, ChunksOnce, Once
<1>11. Range(s) = Range(t) \cup files /\ Range(t) \cap files = {}
  BY <1>3
<1>12. Held(r)' \cup dropped' = Held(r) \cup dropped /\ Held(r)' \cap dropped' = {}
  BY <1>4, <1>7, <1>11 DEF HeldApart
<1>13. Held(r)' \subseteq Held(r) /\ dropped' \subseteq Held(r) \cup dropped /\ raw' = raw
  BY <1>4, <1>5, <1>7, <1>11
<1>14. Once' /\ HeldApart' /\ RestApart' /\ Inside' /\ Covered'
  <2>1. /\ InChunks' \cap Held(r)' = {} /\ InChunks' \cap dropped' = {}
        /\ InChunks' \cap Range(raw') = {} /\ Held(r)' \cap Range(raw') = {}
        /\ dropped' \cap Range(raw') = {}
    BY <1>10, <1>13 DEF HeldApart, RestApart
  <2>2. InChunks \cup Held(r) \cup dropped \cup Range(raw)
          = InChunks' \cup Held(r)' \cup dropped' \cup Range(raw')
    BY <1>10, <1>12, <1>13
  <2> QED BY <1>5, <1>6, <1>9, <1>10, <1>12, <2>1, <2>2, ReaderMoves
<1>15. BTyped'
  <2>1. files \subseteq Nat
    <3>1. \A k \in DOMAIN s : s[k] \in Nat
      OBVIOUS
    <3> QED BY <1>3, <3>1 DEF Range
  <2> QED BY <1>4, <1>5, <2>1 DEF BTyped, options, mainVars
<1>16. Flow'
  <2>1. ReaderHolds(r)' /\ reader[r] \notin Ended
    BY <1>5 DEF ReaderHolds, Ended
  <2>2. reader' = [reader EXCEPT ![r] = "read"]
    BY <1>5 DEF BTyped
  <2> QED BY <1>5, <1>6, <2>1, <2>2, ReaderOn
<1>17. VolumesAccounted'
  BY <1>5, VolumesStay
<1> QED BY <1>14, <1>15, <1>16, <1>17

LEMMA ReadsKeeps ==
  ASSUME BulkIInv, NEW r \in Readers, NEW x \in window[r], ReaderReads(r, x)
  PROVE  BulkIInv'
<1> USE DEF BulkIInv
<1>1. /\ reader[r] = "read" /\ item' = [item EXCEPT ![r] = x]
      /\ window' = [window EXCEPT ![r] = window[r] \ {x}]
      /\ reader' = [reader EXCEPT ![r] = "send"]
      /\ UNCHANGED <<total, splitter, cuts, chunks, todo, pool, dropped, raw>>
      /\ UNCHANGED <<options, mainVars>> /\ UNCHANGED <<consumer, pending, archive>>
      /\ opened' = opened /\ item[r] = 0
  BY DEF ReaderReads, options, splitVars, mainVars, Flow, ReaderHolds
<1>2. /\ reader'[r] = "send" /\ item'[r] = x /\ window'[r] = window[r] \ {x}
      /\ todo'[r] = todo[r]
      /\ \A q \in Readers \ {r} :
           todo'[q] = todo[q] /\ window'[q] = window[q] /\ item'[q] = item[q]
  BY <1>1 DEF BTyped
<1>3. x \in Nat /\ x # 0
  BY DEF Inside, Everywhere, AllHeld, Held
<1>4. Held(r)' = Held(r)
  BY <1>1, <1>2, <1>3 DEF Held
<1>5. HeldOnce(r)'
  BY <1>2 DEF HeldOnce, Once
<1>6. InChunks' = InChunks /\ ChunksOnce' /\ IsInjective(raw')
  BY <1>1 DEF InChunks, ChunksOnce, Once
<1>7. Once' /\ HeldApart' /\ RestApart' /\ Inside' /\ Covered'
  BY <1>1, <1>2, <1>4, <1>5, <1>6, ReaderMoves DEF HeldApart, RestApart
<1>8. BTyped'
  BY <1>1, <1>3 DEF BTyped, options, mainVars, ReaderStates
<1>9. Flow'
  <2>1. ReaderHolds(r)' /\ reader[r] \notin Ended
    BY <1>1, <1>2, <1>3 DEF ReaderHolds, Ended
  <2> QED BY <1>1, <1>2, <2>1, ReaderOn
<1>10. VolumesAccounted'
  <2>1. r \in Holders /\ pool \in Nat
    BY <1>1 DEF Holders, BTyped
  <2>2. pool' = pool + (IF r \in Holders THEN 1 ELSE 0)
                     - (IF "send" \in {"read", "send", "failed"} THEN 1 ELSE 0)
    BY <1>1, <2>1
  <2> QED BY <1>1, <2>2, HoldersMove DEF ReaderStates
<1> QED BY <1>7, <1>8, <1>9, <1>10

LEMMA SendsKeeps ==
  ASSUME BulkIInv, NEW r \in Readers, ReaderSends(r)
  PROVE  BulkIInv'
<1> USE DEF BulkIInv
<1>1. /\ reader[r] = "send" /\ raw' = Append(raw, item[r])
      /\ item' = [item EXCEPT ![r] = 0] /\ reader' = [reader EXCEPT ![r] = "read"]
      /\ UNCHANGED <<total, splitter, cuts, chunks, todo, window, pool, dropped>>
      /\ UNCHANGED <<options, mainVars>> /\ UNCHANGED <<consumer, pending, archive>>
      /\ opened' = opened
  BY DEF ReaderSends, options, splitVars, mainVars
<1>2. PICK x \in Nat : x = item[r] /\ x # 0
  BY <1>1 DEF BTyped, Flow, ReaderHolds
<1>3. /\ reader'[r] = "read" /\ item'[r] = 0 /\ window'[r] = window[r]
      /\ todo'[r] = todo[r]
      /\ \A q \in Readers \ {r} :
           todo'[q] = todo[q] /\ window'[q] = window[q] /\ item'[q] = item[q]
  BY <1>1 DEF BTyped
<1>4. x \in Held(r) /\ x \notin Range(todo[r]) \cup window[r]
  BY <1>2 DEF Held, Once, HeldOnce
<1>5. Held(r)' = Held(r) \ {x}
  BY <1>2, <1>3, <1>4 DEF Held
<1>6. raw' \in Seq(Nat) /\ IsInjective(raw') /\ Range(raw') = Range(raw) \cup {x}
  <2>1. raw \in Seq(Nat) /\ IsInjective(raw) /\ x \notin Range(raw)
    BY <1>4 DEF BTyped, Once, HeldApart
  <2> QED BY <1>1, <1>2, <2>1, InjAppend
<1>7. HeldOnce(r)'
  <2>1. 0 \notin Range(todo[r]) \cup window[r]
    BY DEF Inside, Everywhere, AllHeld, Held
  <2> QED BY <1>3, <2>1 DEF HeldOnce, Once
<1>8. InChunks' = InChunks /\ ChunksOnce' /\ dropped' = dropped
  BY <1>1 DEF InChunks, ChunksOnce, Once
<1>9. Once' /\ HeldApart' /\ RestApart' /\ Inside' /\ Covered'
  <2>1. /\ InChunks' \cap Held(r)' = {} /\ InChunks' \cap dropped' = {}
        /\ InChunks' \cap Range(raw') = {} /\ Held(r)' \cap dropped' = {}
        /\ Held(r)' \cap Range(raw') = {} /\ dropped' \cap Range(raw') = {}
    BY <1>4, <1>5, <1>6, <1>8 DEF HeldApart, RestApart
  <2>2. InChunks \cup Held(r) \cup dropped \cup Range(raw)
          = InChunks' \cup Held(r)' \cup dropped' \cup Range(raw')
    BY <1>4, <1>5, <1>6, <1>8
  <2> QED BY <1>1, <1>3, <1>6, <1>7, <1>8, <2>1, <2>2, ReaderMoves
<1>10. BTyped'
  BY <1>1, <1>6 DEF BTyped, options, mainVars, ReaderStates
<1>11. Flow'
  <2>1. ReaderHolds(r)' /\ reader[r] \notin Ended
    BY <1>1, <1>3 DEF ReaderHolds, Ended
  <2> QED BY <1>1, <1>3, <2>1, ReaderOn
<1>12. VolumesAccounted'
  <2>1. r \in Holders /\ pool \in Nat
    BY <1>1 DEF Holders, BTyped
  <2>2. pool' = pool + (IF r \in Holders THEN 1 ELSE 0)
                     - (IF "read" \in {"read", "send", "failed"} THEN 1 ELSE 0)
    BY <1>1, <2>1
  <2> QED BY <1>1, <2>2, HoldersMove DEF ReaderStates
<1> QED BY <1>9, <1>10, <1>11, <1>12

LEMMA SendFailsKeeps ==
  ASSUME BulkIInv, NEW r \in Readers, ReaderSendFails(r)
  PROVE  BulkIInv'
<1> USE DEF BulkIInv
<1>1. /\ reader[r] = "send" /\ todo' = [todo EXCEPT ![r] = <<>>]
      /\ window' = [window EXCEPT ![r] = {}] /\ pool' = pool + 1
      /\ item' = [item EXCEPT ![r] = 0] /\ reader' = [reader EXCEPT ![r] = "recv"]
      /\ UNCHANGED <<total, splitter, cuts, chunks, dropped, raw>>
      /\ UNCHANGED <<options, mainVars>> /\ UNCHANGED <<consumer, pending, archive>>
      /\ opened' = opened /\ consumer \in Ended
  BY DEF ReaderSendFails, options, splitVars, mainVars
<1>2. consumer = "failed"
  BY <1>1 DEF Flow, ReadersGone, Ended
<1>3. /\ reader'[r] = "recv" /\ item'[r] = 0 /\ window'[r] = {} /\ todo'[r] = <<>>
      /\ \A q \in Readers \ {r} :
           todo'[q] = todo[q] /\ window'[q] = window[q] /\ item'[q] = item[q]
  BY <1>1 DEF BTyped
<1>4. Range(<<>>) = {} /\ IsInjective(<<>>)
  BY DEF Range, IsInjective
<1>5. Held(r)' = {} /\ HeldOnce(r)'
  BY <1>3, <1>4 DEF Held, HeldOnce
<1>6. InChunks' = InChunks /\ ChunksOnce' /\ IsInjective(raw')
  BY <1>1 DEF InChunks, ChunksOnce, Once
<1>7. Once' /\ HeldApart' /\ RestApart' /\ Inside' /\ Covered'
  BY <1>1, <1>2, <1>3, <1>5, <1>6, ReaderMoves DEF RestApart
<1>8. BTyped'
  BY <1>1 DEF BTyped, options, mainVars, ReaderStates
<1>9. Flow'
  <2>1. ReaderHolds(r)' /\ reader[r] \notin Ended
    BY <1>1, <1>3 DEF ReaderHolds, Ended
  <2> QED BY <1>1, <1>3, <2>1, ReaderOn
<1>10. VolumesAccounted'
  <2>1. r \in Holders /\ pool \in Nat
    BY <1>1 DEF Holders, BTyped
  <2>2. pool' = pool + (IF r \in Holders THEN 1 ELSE 0)
                     - (IF "recv" \in {"read", "send", "failed"} THEN 1 ELSE 0)
    BY <1>1, <2>1
  <2> QED BY <1>1, <2>2, HoldersMove DEF ReaderStates
<1> QED BY <1>7, <1>8, <1>9, <1>10

-----------------------------------------------------------------------------
(* The consumer and the joins.                                               *)

(* A step that moves indices between the raw channel, the held back entries  *)
(* and the archive.                                                          *)
LEMMA ConsumerMoves ==
  ASSUME BulkIInv, UNCHANGED <<total, cuts, chunks, todo, window, item, dropped>>,
         IsInjective(raw'), IsInjective(archive'), Range(raw') \cap pending' = {},
         Range(raw') \cap Range(archive') = {}, pending' \cap Range(archive') = {},
         Range(raw') \cup pending' \cup Range(archive')
           \subseteq Range(raw) \cup pending \cup Range(archive),
         consumer' # "failed" =>
           /\ consumer # "failed"
           /\ Range(raw) \cup pending \cup Range(archive)
                \subseteq Range(raw') \cup pending' \cup Range(archive')
  PROVE  Once' /\ HeldApart' /\ RestApart' /\ Inside' /\ Covered'
<1> USE DEF BulkIInv
<1>1. InChunks' = InChunks /\ AllHeld' = AllHeld /\ \A r \in Readers : Held(r)' = Held(r)
  BY DEF InChunks, AllHeld, Held
<1>2. Cut' = Cut
  BY CutStays
<1>3. Once'
  BY DEF Once, ChunksOnce, HeldOnce
<1>4. HeldApart'
  <2>1. \A r \in Readers : Held(r) \cap (Range(raw) \cup pending \cup Range(archive)) = {}
    BY DEF HeldApart
  <2>2. \A r \in Readers : Held(r)' \cap (Range(raw') \cup pending' \cup Range(archive')) = {}
    BY <1>1, <2>1
  <2> QED BY <1>1, <2>2 DEF HeldApart
<1>5. RestApart'
  BY <1>1 DEF RestApart
<1>6. Everywhere' \subseteq Everywhere
  BY <1>1 DEF Everywhere
<1>7. consumer' # "failed" => Everywhere \subseteq Everywhere'
  BY <1>1 DEF Everywhere
<1> QED BY <1>2, <1>3, <1>4, <1>5, <1>6, <1>7 DEF Inside, Covered

LEMMA FlowBehind ==
  ASSUME Flow, UNCHANGED <<splitVars, options, reader, todo, window, item>>,
         consumer' = "done" => ReadersGone /\ raw' = <<>>,
         main' = "join" => consumer' \in Ended /\ NextIdx' \notin pending',
         \A r \in 1..joined' : reader[r] = "done",
         exit' = "ok" => joined' = ReadJobs /\ consumer' = "done" /\ main' = "join",
         ~sort => pending' = {},
         sort => \A k \in DOMAIN archive' : archive'[k] = k
  PROVE  Flow'
<1>1. UNCHANGED <<total, splitter, cuts, chunks, sort>> /\ cuts' * Per' = cuts * Per
  <2>1. UNCHANGED <<total, splitter, cuts, chunks, sort>>
    BY DEF splitVars, options
  <2> QED BY <2>1, CutStays
<1>2. \A r \in Readers : ReaderHolds(r)'
  BY <1>1 DEF Flow, ReaderHolds
<1> QED BY <1>1, <1>2 DEF Flow, ReadersGone

LEMMA WriteArrivalKeeps ==
  ASSUME BulkIInv, WriteArrival
  PROVE  BulkIInv'
<1> USE DEF BulkIInv
<1>1. /\ ~sort /\ consumer = "recv" /\ raw # <<>> /\ raw' = Tail(raw)
      /\ archive' = Append(archive, Head(raw)) /\ exit = "running"
      /\ UNCHANGED <<options, splitVars, reader, todo, window, item>>
      /\ UNCHANGED <<total, cuts, chunks, todo, window, item, dropped>>
      /\ UNCHANGED <<reader, pool, opened>>
      /\ UNCHANGED <<consumer, pending, main, joined, exit>>
  BY DEF WriteArrival, options, splitVars
<1>2. PICK x \in Nat : x = Head(raw) /\ x \in Range(raw)
  BY <1>1, InjTail DEF BTyped, Once
<1>3. raw' \in Seq(Nat) /\ IsInjective(raw') /\ Range(raw') = Range(raw) \ {x}
  BY <1>1, <1>2, InjTail DEF BTyped, Once
<1>4. archive' \in Seq(Nat) /\ IsInjective(archive') /\ Range(archive') = Range(archive) \cup {x}
  <2>1. x \notin Range(archive)
    BY <1>2 DEF RestApart
  <2> QED BY <1>1, <1>2, <2>1, InjAppend DEF BTyped, Once
<1>5. Once' /\ HeldApart' /\ RestApart' /\ Inside' /\ Covered'
  BY <1>1, <1>2, <1>3, <1>4, ConsumerMoves DEF RestApart
<1>6. BTyped'
  BY <1>1, <1>3, <1>4 DEF BTyped, options, splitVars
<1>7. Flow'
  BY <1>1, FlowBehind DEF Flow, Ended
<1> QED BY <1>1, <1>5, <1>6, <1>7, VolumesStay

LEMMA HoldArrivalKeeps ==
  ASSUME BulkIInv, HoldArrival
  PROVE  BulkIInv'
<1> USE DEF BulkIInv
<1>1. /\ sort /\ consumer = "recv" /\ raw # <<>> /\ raw' = Tail(raw)
      /\ pending' = pending \cup {Head(raw)} /\ exit = "running"
      /\ UNCHANGED <<options, splitVars, reader, todo, window, item>>
      /\ UNCHANGED <<total, cuts, chunks, todo, window, item, dropped>>
      /\ UNCHANGED <<reader, pool, opened>>
      /\ UNCHANGED <<consumer, archive, main, joined, exit>>
  BY DEF HoldArrival, options, splitVars
<1>2. PICK x \in Nat : x = Head(raw) /\ x \in Range(raw)
  BY <1>1, InjTail DEF BTyped, Once
<1>3. raw' \in Seq(Nat) /\ IsInjective(raw') /\ Range(raw') = Range(raw) \ {x}
  BY <1>1, <1>2, InjTail DEF BTyped, Once
<1>4. Once' /\ HeldApart' /\ RestApart' /\ Inside' /\ Covered'
  BY <1>1, <1>2, <1>3, ConsumerMoves DEF RestApart, Once
<1>5. BTyped'
  BY <1>1, <1>2, <1>3 DEF BTyped, options, splitVars
<1>6. Flow'
  BY <1>1, FlowBehind DEF Flow, Ended
<1> QED BY <1>1, <1>4, <1>5, <1>6, VolumesStay

LEMMA WriteNextKeeps ==
  ASSUME BulkIInv, WriteNextInOrder
  PROVE  BulkIInv'
<1> USE DEF BulkIInv
<1>1. /\ sort /\ main = "write" /\ NextIdx \in pending
      /\ pending' = pending \ {NextIdx} /\ exit = "running"
      /\ archive' = Append(archive, NextIdx)
      /\ UNCHANGED <<options, splitVars, reader, todo, window, item>>
      /\ UNCHANGED <<total, cuts, chunks, todo, window, item, dropped>>
      /\ UNCHANGED <<reader, pool, opened>>
      /\ UNCHANGED <<consumer, raw, main, joined, exit>>
  BY DEF WriteNextInOrder, options, splitVars, readVars
<1>2. PICK x \in Nat : x = NextIdx /\ x = Len(archive) + 1
  BY DEF BTyped, NextIdx
<1>3. archive' \in Seq(Nat) /\ IsInjective(archive') /\ Range(archive') = Range(archive) \cup {x}
  <2>1. x \notin Range(archive)
    BY <1>1, <1>2 DEF RestApart
  <2> QED BY <1>1, <1>2, <2>1, InjAppend DEF BTyped, Once
<1>4. Once' /\ HeldApart' /\ RestApart' /\ Inside' /\ Covered'
  BY <1>1, <1>2, <1>3, ConsumerMoves DEF RestApart, Once
<1>5. BTyped'
  BY <1>1, <1>3 DEF BTyped, options, splitVars
<1>6. \A k \in DOMAIN archive' : archive'[k] = k
  <2>1. archive \in Seq(Nat) /\ \A k \in DOMAIN archive : archive[k] = k
    BY <1>1 DEF BTyped, Flow
  <2>2. /\ DOMAIN archive = 1..Len(archive) /\ DOMAIN archive' = 1..(Len(archive) + 1)
        /\ \A k \in 1..Len(archive) : archive'[k] = archive[k]
        /\ archive'[Len(archive) + 1] = x /\ Len(archive) \in Nat
    BY <1>1, <1>2, <2>1
  <2>3. \A k \in DOMAIN archive' : k \in DOMAIN archive \/ k = x
    BY <1>2, <2>2
  <2> QED BY <1>2, <2>1, <2>2, <2>3
<1>7. Flow'
  BY <1>1, <1>6, FlowBehind DEF Flow
<1> QED BY <1>1, <1>4, <1>5, <1>7, VolumesStay

LEMMA EncodeFailsKeeps ==
  ASSUME BulkIInv, EncodeFails
  PROVE  BulkIInv'
<1> USE DEF BulkIInv
<1>1. /\ consumer = "recv" /\ consumer' = "failed" /\ raw # <<>> /\ raw' = Tail(raw)
      /\ exit = "running" /\ UNCHANGED <<options, splitVars, reader, todo, window, item>>
      /\ UNCHANGED <<total, cuts, chunks, todo, window, item, dropped>>
      /\ UNCHANGED <<reader, pool, opened>>
      /\ UNCHANGED <<pending, archive, main, joined, exit>>
  BY DEF EncodeFails, options, splitVars
<1>2. /\ raw' \in Seq(Nat) /\ IsInjective(raw') /\ Range(raw') \subseteq Range(raw)
  BY <1>1, InjTail DEF BTyped, Once
<1>3. Once' /\ HeldApart' /\ RestApart' /\ Inside' /\ Covered'
  BY <1>1, <1>2, ConsumerMoves DEF RestApart, Once
<1>4. BTyped'
  BY <1>1, <1>2 DEF BTyped, options, splitVars
<1>5. Flow'
  BY <1>1, FlowBehind DEF Flow, Ended
<1> QED BY <1>1, <1>3, <1>4, <1>5, VolumesStay

LEMMA ConsumerEndsKeeps ==
  ASSUME BulkIInv, ConsumerSeesRawClosed \/ WriterLoopEnds \/ JoinReader \/ JoinConsumerAndFinish
  PROVE  BulkIInv'
<1> USE DEF BulkIInv
<1>1. /\ UNCHANGED <<options, splitVars, reader, todo, window, item>>
      /\ UNCHANGED <<total, cuts>> /\ UNCHANGED <<reader, pool, opened>>
      /\ UNCHANGED <<chunks, todo, window, item, dropped, raw, pending, archive>>
      /\ exit = "running" /\ NextIdx' = NextIdx
      /\ consumer' \in {consumer, "done"} /\ (consumer' # consumer => consumer = "recv")
  BY DEF ConsumerSeesRawClosed, WriterLoopEnds, JoinReader, JoinConsumerAndFinish, options,
         splitVars, readVars, NextIdx
<1>2. Once' /\ HeldApart' /\ RestApart' /\ Inside' /\ Covered'
  BY <1>1, CutStays, NothingMoves
<1>3. CASE ConsumerSeesRawClosed
  <2>1. /\ consumer = "recv" /\ raw = <<>> /\ ReadersGone /\ consumer' = "done"
        /\ UNCHANGED <<main, joined, exit>>
    BY <1>3 DEF ConsumerSeesRawClosed
  <2>2. BTyped'
    BY <1>1, <2>1 DEF BTyped, options, splitVars
  <2>3. Flow'
    BY <1>1, <2>1, FlowBehind DEF Flow, Ended
  <2> QED BY <1>1, <1>2, <2>2, <2>3, VolumesStay
<1>4. CASE WriterLoopEnds
  <2>1. /\ consumer \in Ended /\ NextIdx \notin pending /\ main' = "join"
        /\ UNCHANGED <<consumer, joined, exit>>
    BY <1>4 DEF WriterLoopEnds
  <2>2. BTyped'
    BY <1>1, <2>1 DEF BTyped, options, splitVars
  <2>3. Flow'
    BY <1>1, <2>1, FlowBehind DEF Flow
  <2> QED BY <1>1, <1>2, <2>2, <2>3, VolumesStay
<1>5. CASE JoinReader
  <2>1. /\ joined < ReadJobs /\ reader[joined + 1] \in Ended
        /\ UNCHANGED <<consumer, main>> /\ exit' \in {"running", "error"}
        /\ \/ joined' = joined
           \/ joined' = joined + 1 /\ reader[joined + 1] = "done"
    BY <1>1, <1>5 DEF JoinReader, Ended
  <2>2. joined' \in 0..ReadJobs /\ \A r \in 1..joined' : r \in 1..joined \/ (joined' = joined + 1 /\ r = joined + 1)
    BY <2>1, BulkAssumption DEF BTyped
  <2>3. BTyped'
    BY <1>1, <2>1, <2>2 DEF BTyped, options, splitVars
  <2>4. \A r \in 1..joined' : reader[r] = "done"
    BY <2>1, <2>2 DEF Flow
  <2>5. Flow'
    BY <1>1, <2>1, <2>4, FlowBehind DEF Flow
  <2> QED BY <1>1, <1>2, <2>3, <2>5, VolumesStay
<1>6. CASE JoinConsumerAndFinish
  <2>1. /\ main = "join" /\ joined = ReadJobs /\ UNCHANGED <<consumer, main, joined>>
        /\ exit' = IF consumer = "failed" THEN "error" ELSE "ok"
    BY <1>6 DEF JoinConsumerAndFinish
  <2>2. BTyped'
    BY <1>1, <2>1 DEF BTyped, options, splitVars
  <2>3. Flow'
    BY <1>1, <2>1, FlowBehind DEF Flow, Ended
  <2> QED BY <1>1, <1>2, <2>2, <2>3, VolumesStay
<1> QED BY <1>3, <1>4, <1>5, <1>6

-----------------------------------------------------------------------------
LEMMA BulkInit == Init => BulkIInv
<1> SUFFICES ASSUME Init PROVE BulkIInv
  OBVIOUS
<1> USE DEF Init
<1>1. BTyped
  <2>1. opened \in Nat /\ 0 \in 0..ReadJobs
    BY BulkAssumption
  <2> QED BY <2>1 DEF BTyped, ReaderStates
<1>2. Range(<<>>) = {} /\ IsInjective(<<>>)
  BY DEF Range, IsInjective
<1>3. InChunks = {} /\ \A r \in Readers : Held(r) = {}
  BY <1>2 DEF InChunks, Held
<1>4. AllHeld = {}
  BY <1>3 DEF AllHeld
<1>5. Everywhere = {}
  BY <1>2, <1>3, <1>4 DEF Everywhere
<1>6. Cut = 0
  BY Sizes, <1>1 DEF Cut
<1>7. Once
  BY <1>2 DEF Once, ChunksOnce, HeldOnce
<1>8. HeldApart /\ RestApart
  BY <1>2, <1>3 DEF HeldApart, RestApart
<1>9. Inside /\ Covered
  BY <1>5, <1>6 DEF Inside, Covered
<1>10. Flow
  <2>1. \A r \in Readers : ReaderHolds(r)
    BY DEF ReaderHolds
  <2> QED BY <2>1 DEF Flow
<1>11. VolumesAccounted
  <2>1. {r \in Readers : reader[r] \in {"read", "send", "failed"}} = {}
    OBVIOUS
  <2>2. Cardinality({}) = 0 /\ opened \in Nat
    BY FS_EmptySet, BulkAssumption
  <2>3. pool = opened /\ opened + 0 = opened
    BY <2>2
  <2> HIDE DEF Init
  <2> QED BY <2>1, <2>2, <2>3 DEF VolumesAccounted
<1> QED BY <1>1, <1>7, <1>8, <1>9, <1>10, <1>11 DEF BulkIInv

LEMMA BulkStutter ==
  ASSUME BulkIInv, UNCHANGED vars
  PROVE  BulkIInv'
<1> USE DEF BulkIInv
<1>1. /\ UNCHANGED <<options, splitVars, reader, todo, window, item>>
      /\ UNCHANGED <<total, cuts>> /\ UNCHANGED <<reader, pool, opened>>
      /\ UNCHANGED <<chunks, todo, window, item, dropped, raw, pending, archive>>
      /\ UNCHANGED <<consumer, main, joined, exit>> /\ NextIdx' = NextIdx
  BY DEF vars, options, splitVars, readVars, mainVars, NextIdx
<1>2. Once' /\ HeldApart' /\ RestApart' /\ Inside' /\ Covered'
  BY <1>1, CutStays, NothingMoves
<1>3. BTyped'
  BY <1>1 DEF BTyped, options, splitVars
<1>4. Flow'
  BY <1>1, FlowBehind DEF Flow
<1> QED BY <1>1, <1>2, <1>3, <1>4, VolumesStay

LEMMA BulkNext ==
  ASSUME BulkIInv, Next
  PROVE  BulkIInv'
<1>1. CASE SplitterStep
  BY <1>1, ReceivesKeeps, FeedClosedKeeps, SendsChunkKeeps DEF SplitterStep
<1>2. ASSUME NEW r \in Readers, ReaderStep(r)
      PROVE  BulkIInv'
  <2>1. CASE \E x \in window[r] : ReaderReads(r, x)
    BY <2>1, ReadsKeeps
  <2>2. CASE ReaderTakesChunk(r) \/ ReaderTakesVolume(r) \/ ReaderOpensWindow(r)
    BY <2>2, TakesChunkKeeps, TakesVolumeKeeps, OpensWindowKeeps
  <2>3. CASE ReaderSends(r) \/ ReaderSendFails(r)
    BY <2>3, SendsKeeps, SendFailsKeeps
  <2>4. CASE ReaderEndsChunk(r) \/ ReaderSeesChunksClosed(r)
    BY <2>4, EndsChunkKeeps, SeesChunksClosedKeeps
  <2> QED BY <1>2, <2>1, <2>2, <2>3, <2>4 DEF ReaderStep
<1>3. CASE ConsumerStep
  BY <1>3, WriteArrivalKeeps, HoldArrivalKeeps, WriteNextKeeps, ConsumerEndsKeeps
     DEF ConsumerStep
<1>4. CASE Fault
  BY <1>4, EncodeFailsKeeps, ReaderFailsKeeps DEF Fault
<1>5. CASE Returned
  BY <1>5, BulkStutter DEF Returned
<1> QED BY <1>1, <1>2, <1>3, <1>4, <1>5 DEF Next, Step

(* Chunks, windows, readers, channel, held back entries and archive share    *)
(* nothing, repeat nothing and, until a worker fails, lose nothing of what   *)
(* the splitter has handed out.                                              *)
THEOREM BulkInvariant == Spec => []BulkIInv
<1>1. BulkIInv /\ [Next]_vars => BulkIInv'
  BY BulkNext, BulkStutter
<1> QED BY <1>1, BulkInit, PTL DEF Spec

(* Every volume opened is in the pool, with a reader, or went with a failed  *)
(* read, for any number of readers and volumes.                              *)
THEOREM VolumesAreAccounted == Spec => []VolumesAccounted
<1>1. BulkIInv => VolumesAccounted
  BY DEF BulkIInv
<1> QED BY <1>1, BulkInvariant, PTL

LEMMA PlacesApart == BulkIInv => OnlyOnce
<1> SUFFICES ASSUME BulkIInv PROVE OnlyOnce
  OBVIOUS
<1> USE DEF BulkIInv
<1> DEFINE five == <<InChunks, dropped, Range(raw), pending, Range(archive)>>
           held == [r \in Readers |-> Held(r)]
           places == five \o held
<1>1. ReadJobs \in Nat
  BY BulkAssumption
<1>0. PICK U : U = SUBSET Everywhere
  OBVIOUS
<1>2. held \in Seq(U) /\ Len(held) = ReadJobs
  <2>1. \A r \in Readers : Held(r) \in U
    BY <1>0 DEF AllHeld, Everywhere
  <2> QED BY <1>1, <2>1 DEF Readers
<1>3. five \in Seq(U) /\ Len(five) = 5
  <2>1. InChunks \in U /\ dropped \in U /\ Range(raw) \in U /\ pending \in U /\ Range(archive) \in U
    BY <1>0 DEF Everywhere
  <2> QED BY <2>1
<1>4. /\ DOMAIN places = 1..(5 + ReadJobs)
      /\ \A p \in 1..5 : places[p] = five[p]
      /\ \A p \in 6..(5 + ReadJobs) : places[p] = held[p - 5]
      /\ places \in Seq(U)
  <2> HIDE DEF five, held
  <2>1. /\ places \in Seq(U) /\ Len(places) = 5 + ReadJobs
        /\ \A p \in 1..(5 + ReadJobs) :
             places[p] = IF p <= 5 THEN five[p] ELSE held[p - 5]
    <3>1. \A s, t \in Seq(U) :
            /\ s \o t \in Seq(U) /\ Len(s \o t) = Len(s) + Len(t)
            /\ \A i \in 1..(Len(s) + Len(t)) :
                 (s \o t)[i] = IF i <= Len(s) THEN s[i] ELSE t[i - Len(s)]
      BY ConcatProperties
    <3>2. /\ five \o held \in Seq(U) /\ Len(five \o held) = Len(five) + Len(held)
          /\ \A i \in 1..(Len(five) + Len(held)) :
               (five \o held)[i] = IF i <= Len(five) THEN five[i] ELSE held[i - Len(five)]
      <4> HIDE DEF places
      <4>1. five \in Seq(U) /\ held \in Seq(U)
        BY <1>2, <1>3
      <4> QED BY <3>1, <4>1
    <3>3. places = five \o held
      OBVIOUS
    <3> HIDE DEF places
    <3> QED BY <1>2, <1>3, <3>2, <3>3
  <2>2. \A p \in 1..5 : p \in 1..(5 + ReadJobs) /\ p <= 5
    BY <1>1
  <2>3. \A p \in 6..(5 + ReadJobs) : p \in 1..(5 + ReadJobs) /\ ~(p <= 5)
    BY <1>1
  <2> HIDE DEF places
  <2> QED BY <2>1, <2>2, <2>3
<1>5. \A p \in 6..(5 + ReadJobs) : p - 5 \in Readers /\ places[p] = Held(p - 5)
  BY <1>1, <1>4 DEF Readers
<1>6. /\ places[1] = InChunks /\ places[2] = dropped /\ places[3] = Range(raw)
      /\ places[4] = pending /\ places[5] = Range(archive)
  BY <1>4
<1> HIDE DEF five, held, places
<1>7. \A p, q \in 1..5 : p # q => places[p] \cap places[q] = {}
  BY <1>6 DEF RestApart
<1>8. \A p \in 1..5, q \in 6..(5 + ReadJobs) : places[p] \cap places[q] = {}
  <2>1. \A r \in Readers : \A p \in 1..5 : places[p] \cap Held(r) = {}
    BY <1>6 DEF HeldApart
  <2> QED BY <1>5, <2>1
<1>9. \A p, q \in 6..(5 + ReadJobs) : p # q => places[p] \cap places[q] = {}
  <2>1. \A p, q \in 6..(5 + ReadJobs) : p # q => p - 5 # q - 5
    OBVIOUS
  <2> QED BY <1>5, <2>1 DEF HeldApart
<1>10. \A p \in DOMAIN places : p \in 1..5 \/ p \in 6..(5 + ReadJobs)
  BY <1>1, <1>4
<1>11. \A p, q \in DOMAIN places : p # q => places[p] \cap places[q] = {}
  BY <1>7, <1>8, <1>9, <1>10
<1>12. UNION Range(places) \subseteq Indices
  <2>1. Everywhere \subseteq Indices
    <3>1. \A x \in 1..Cut : x \in 1..total
      BY Sizes
    <3> QED BY <3>1 DEF Inside, Indices
  <2>2. \A p \in DOMAIN places : places[p] \subseteq Everywhere
    <3>1. \A p \in DOMAIN places : places[p] \in U
      <4>1. \A s \in Seq(U) : \A p \in DOMAIN s : s[p] \in U
        OBVIOUS
      <4>2. places \in Seq(U)
        BY <1>4
      <4> QED BY <4>1, <4>2
    <3> QED BY <1>0, <3>1
  <2> QED BY <2>1, <2>2 DEF Range
<1>13. IsInjective(raw) /\ IsInjective(archive)
  BY DEF Once
<1> QED BY <1>11, <1>12, <1>13 DEF OnlyOnce, five, held, places, InChunks, Held

(* No index is in two places at once, whatever the chunks, the windows and   *)
(* the readers' order.                                                       *)
THEOREM BulkOnlyOnce == Spec => []OnlyOnce
BY PlacesApart, BulkInvariant, PTL

LEMMA OkShips == BulkIInv => OkMeansUpToGaps
<1> SUFFICES ASSUME BulkIInv, exit = "ok"
             PROVE  Range(archive) =
                      {i \in Indices : IF sort THEN \A j \in 1..i : j \notin dropped
                                               ELSE i \notin dropped}
  BY DEF OkMeansUpToGaps
<1> USE DEF BulkIInv
<1>1. \A r \in Readers : reader[r] = "done"
  BY DEF Flow, Readers
<1>2. splitter = "done" /\ chunks = <<>>
  <2>1. 1 \in Readers
    BY BulkAssumption DEF Readers
  <2> QED BY <1>1, <2>1 DEF Flow, ReaderHolds
<1>3. consumer = "done" /\ raw = <<>> /\ NextIdx \notin pending
  BY DEF Flow
<1>4. \A r \in Readers : todo[r] = <<>> /\ window[r] = {} /\ item[r] = 0
  BY <1>1 DEF Flow, ReaderHolds, BTyped
<1>5. Everywhere = dropped \cup pending \cup Range(archive)
  <2>1. Range(<<>>) = {}
    BY DEF Range
  <2>2. InChunks = {} /\ Range(raw) = {}
    BY <1>2, <1>3, <2>1 DEF InChunks
  <2>3. \A r \in Readers : Held(r) = {}
    BY <1>4, <2>1 DEF Held
  <2>4. AllHeld = {}
    BY <2>3 DEF AllHeld
  <2> QED BY <2>2, <2>4 DEF Everywhere
<1>6. Cut = total
  <2>1. ~\A r \in Readers : reader[r] = "failed"
    <3>1. 1 \in Readers
      BY BulkAssumption DEF Readers
    <3> QED BY <1>1, <3>1
  <2>2. cuts = ReadJobs \/ cuts * Per >= total
    BY <1>2, <2>1 DEF Flow
  <2>3. cuts * Per >= total
    BY <2>2, Sizes
  <2>4. PICK a \in Nat : a = cuts * Per
    BY Sizes
  <2> QED BY <2>3, <2>4, Sizes DEF Cut
<1>7. Indices = dropped \cup pending \cup Range(archive)
  BY <1>3, <1>5, <1>6 DEF Inside, Covered, Indices
<1>8. CASE ~sort
  <2>1. pending = {}
    BY <1>8 DEF Flow
  <2> QED BY <1>7, <1>8, <2>1 DEF RestApart
<1>9. CASE sort
  <2>1. PICK n \in Nat : n = Len(archive) /\ NextIdx = n + 1
    BY DEF BTyped, NextIdx
  <2>2. Range(archive) = 1..n
    <3>1. DOMAIN archive = 1..n /\ \A k \in 1..n : archive[k] = k
      <4>1. archive \in Seq(Nat) /\ \A k \in DOMAIN archive : archive[k] = k
        BY <1>9 DEF BTyped, Flow
      <4> QED BY <2>1, <4>1
    <3> QED BY <3>1 DEF Range
  <2>3. n + 1 \notin pending /\ n + 1 \notin Range(archive)
    BY <1>3, <2>1, <2>2
  <2>4. \A i \in 1..n : i \in Indices /\ \A j \in 1..i : j \notin dropped
    <3>1. \A i \in 1..n : \A j \in 1..i : j \in 1..n
      OBVIOUS
    <3> QED BY <1>7, <2>2, <3>1 DEF RestApart
  <2>5. \A i \in Indices : (\A j \in 1..i : j \notin dropped) => i \in 1..n
    <3> SUFFICES ASSUME NEW i \in 1..total, \A j \in 1..i : j \notin dropped, i \notin 1..n
                 PROVE  FALSE
      BY DEF Indices
    <3>1. i > n /\ total \in Nat
      BY Sizes
    <3>2. n + 1 \in 1..i /\ n + 1 \in 1..total
      BY <3>1
    <3> QED BY <1>7, <2>3, <3>2 DEF Indices
  <2> QED BY <1>9, <2>2, <2>4, <2>5
<1> QED BY <1>8, <1>9

(* Ok means that every file the source could find is in the archive, and     *)
(* under --sort every file before the first it could not.                    *)
THEOREM OkShipsAllFound == Spec => []OkMeansUpToGaps
BY OkShips, BulkInvariant, PTL

-----------------------------------------------------------------------------
(* When a run stands still.  A step may be taken where a guard of Step holds;*)
(* the faults, which need not happen, are left out.                          *)
SplitterMay ==
  \/ splitter = "drain"
  \/ splitter = "cut" /\ cuts < ReadJobs /\ cuts * Per < total /\ ~ReadersGone
  \/ splitter = "cut" /\ (cuts = ReadJobs \/ cuts * Per >= total \/ ReadersGone)
ReaderMay(r) ==
  \/ reader[r] = "recv" /\ chunks # <<>>
  \/ reader[r] = "pool" /\ pool > 0
  \/ reader[r] = "read" /\ window[r] = {} /\ todo[r] # <<>>
  \/ reader[r] = "read" /\ window[r] # {}
  \/ reader[r] = "send" /\ consumer = "recv" /\ Len(raw) < RawBound
  \/ reader[r] = "send" /\ consumer \in Ended
  \/ reader[r] = "read" /\ window[r] = {} /\ todo[r] = <<>>
  \/ reader[r] = "recv" /\ chunks = <<>> /\ splitter = "done"
ConsumerMay ==
  \/ ~sort /\ consumer = "recv" /\ raw # <<>>
  \/ sort /\ consumer = "recv" /\ NextIdx \notin pending /\ raw # <<>>
  \/ sort /\ main = "write" /\ NextIdx \in pending
  \/ consumer = "recv" /\ raw = <<>> /\ ReadersGone
  \/ main = "write" /\ consumer \in Ended /\ NextIdx \notin pending
  \/ main = "join" /\ splitter = "done" /\ joined < ReadJobs /\ reader[joined + 1] \in Ended
  \/ main = "join" /\ joined = ReadJobs
StandsStill ==
  exit = "running" /\ ~SplitterMay /\ ~ConsumerMay /\ \A r \in Readers : ~ReaderMay(r)

(* The readers that are not done then wait for a volume or have failed.      *)
LEMMA ReadersWait ==
  ASSUME BTyped, StandsStill, consumer \in Ended \/ raw = <<>>
  PROVE  splitter = "done" /\ \A r \in Readers : reader[r] \in {"pool", "done", "failed"}
<1>1. splitter = "done"
  <2>1. splitter # "drain"
    BY DEF StandsStill, SplitterMay
  <2>2. CASE splitter = "cut"
    <3>1. cuts < ReadJobs /\ cuts * Per < total
      BY <2>2, Sizes DEF StandsStill, SplitterMay
    <3> QED BY <2>2, <3>1 DEF StandsStill, SplitterMay
  <2> QED BY <2>1, <2>2 DEF BTyped
<1>2. ASSUME NEW r \in Readers PROVE reader[r] \in {"pool", "done", "failed"}
  <2>1. ~ReaderMay(r) /\ reader[r] \in ReaderStates /\ consumer \in {"recv"} \cup Ended
    BY DEF StandsStill, BTyped, Ended
  <2>2. raw = <<>> => Len(raw) < RawBound
    BY BulkAssumption
  <2>3. reader[r] # "send"
    BY <2>1, <2>2 DEF ReaderMay
  <2>4. reader[r] # "recv" /\ reader[r] # "read"
    BY <1>1, <2>1 DEF ReaderMay
  <2> QED BY <2>1, <2>3, <2>4 DEF ReaderStates
<1> QED BY <1>1, <1>2

(* One that waits for a volume has no volume left to wait for.               *)
LEMMA WaitsForNothing ==
  ASSUME BulkIInv, StandsStill, \A r \in Readers : reader[r] \in {"pool", "done", "failed"},
         NEW r \in Readers, reader[r] = "pool"
  PROVE  VolumesAreGone
<1>1. pool = 0
  BY DEF BulkIInv, BTyped, StandsStill, ReaderMay
<1>2. {s \in Readers : reader[s] \in {"read", "send", "failed"}} = {s \in Readers : reader[s] = "failed"}
  OBVIOUS
<1>3. Cardinality({s \in Readers : reader[s] = "failed"}) = opened
  <2>1. Readers = 1..ReadJobs /\ ReadJobs \in Nat
    BY BulkAssumption DEF Readers
  <2>2. IsFiniteSet({s \in Readers : reader[s] = "failed"})
    BY <2>1, FS_Interval, FS_Subset
  <2>3. Cardinality({s \in Readers : reader[s] = "failed"}) \in Nat
    BY <2>2, FS_CardinalityType
  <2>4. pool + Cardinality({s \in Readers : reader[s] = "failed"}) = opened
    BY <1>2 DEF BulkIInv, VolumesAccounted
  <2> QED BY <1>1, <2>3, <2>4 DEF BulkIInv, BTyped
<1> QED BY <1>1, <1>3 DEF VolumesAreGone

(* For any number of files, readers and volumes, a run in which nobody can   *)
(* go on has lost every volume to a read that failed, and has a reader that  *)
(* waits for one in `pool_recv.recv()`; it never waits for anything else.    *)
THEOREM WaitsOnlyForVolumes == Spec => [](StandsStill => VolumesAreGone)
<1>1. BulkIInv => (StandsStill => VolumesAreGone)
  <2>1. SUFFICES ASSUME BulkIInv, StandsStill PROVE VolumesAreGone
    OBVIOUS
  <2>2. /\ BTyped /\ Flow /\ exit = "running" /\ ~ConsumerMay
        /\ ReadJobs \in Nat \ {0} /\ joined \in 0..ReadJobs
    BY <2>1, BulkAssumption DEF BulkIInv, StandsStill, BTyped
  <2>3. ASSUME NEW r \in Readers, reader[r] \notin Ended,
               \A s \in Readers : reader[s] \in {"pool", "done", "failed"}
        PROVE  VolumesAreGone
    BY <2>1, <2>3, WaitsForNothing DEF Ended
  <2>4. CASE consumer \in Ended
    <3>1. splitter = "done" /\ \A r \in Readers : reader[r] \in {"pool", "done", "failed"}
      BY <2>1, <2>2, <2>4, ReadersWait
    <3>2. main = "join"
      <4>1. CASE main = "write" /\ NextIdx \in pending
        BY <2>2, <4>1 DEF ConsumerMay, Flow, BTyped
      <4>2. CASE main = "write" /\ NextIdx \notin pending
        BY <2>2, <2>4, <4>2 DEF ConsumerMay
      <4> QED BY <2>2, <4>1, <4>2 DEF BTyped
    <3>3. joined < ReadJobs /\ joined + 1 \in Readers
      BY <2>2, <3>2 DEF ConsumerMay, Readers
    <3>4. reader[joined + 1] \notin Ended
      BY <2>2, <3>1, <3>2, <3>3 DEF ConsumerMay
    <3> QED BY <2>3, <3>1, <3>3, <3>4
  <2>5. CASE consumer = "recv"
    <3>1. NextIdx \notin pending \/ ~sort
      BY <2>2, <2>5 DEF ConsumerMay, Flow, Ended, BTyped
    <3>2. raw = <<>>
      BY <2>2, <2>5, <3>1 DEF ConsumerMay, BTyped
    <3>3. \A r \in Readers : reader[r] \in {"pool", "done", "failed"}
      BY <2>1, <2>2, <3>2, ReadersWait
    <3>4. PICK r \in Readers : reader[r] \notin Ended
      BY <2>2, <2>5, <3>2 DEF ConsumerMay, ReadersGone
    <3> QED BY <2>3, <3>3, <3>4
  <2> QED BY <2>2, <2>4, <2>5 DEF BTyped, Ended
<1> QED BY <1>1, BulkInvariant, PTL
=============================================================================
