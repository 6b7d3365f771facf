--------------------------- MODULE RawCatalogProofs ---------------------------
(* For any catalog, shards, roots, files and faults, and whatever order the  *)
(* walks and the reader take their steps in.  Four invariants, each relying  *)
(* on the ones before: of the shards of the block cache (ShardsSound), of    *)
(* the threads and of what they cache (CatalogInvariant), of the window that *)
(* is copied and sent (WindowInvariant), and of what the walks have listed   *)
(* and have still before them (WalkInvariant).                               *)
EXTENDS RawCatalog, DataLemmas

IsSeq(s) == \E S : s \in Seq(S)

NoRepeat(s) == \A i, j \in DOMAIN s : s[i] = s[j] => i = j

(* That an evicted offset was in the map, and leaves no second entry in the  *)
(* queue, needs the queue to have every offset once.                         *)
Sound(s) ==
  /\ IsSeq(s.order) /\ NoRepeat(s.order)
  /\ Len(s.order) <= Capacity
  /\ ToSet(s.order) = DOMAIN s.map

ShardsSound == \A s \in DOMAIN blocks : Sound(blocks[s])

-----------------------------------------------------------------------------
(* What is left of a queue whose first n entries go.                         *)
LEMMA KeptOf ==
  ASSUME NEW S, NEW s \in Seq(S), NoRepeat(s), NEW n \in 0..Len(s)
  PROVE  /\ SubSeq(s, n + 1, Len(s)) \in Seq(S) /\ NoRepeat(SubSeq(s, n + 1, Len(s)))
         /\ Len(SubSeq(s, n + 1, Len(s))) = Len(s) - n
         /\ ToSet(SubSeq(s, n + 1, Len(s))) \subseteq ToSet(s)
<1> DEFINE t == SubSeq(s, n + 1, Len(s))
<1>1. /\ Len(s) \in Nat /\ DOMAIN s = 1..Len(s) /\ \A i \in 1..Len(s) : s[i] \in S
      /\ n \in Nat /\ n <= Len(s)
  OBVIOUS
<1>2. /\ t \in Seq(S) /\ Len(t) = IF n + 1 <= Len(s) THEN Len(s) - (n + 1) + 1 ELSE 0
      /\ \A i \in 1..(Len(s) - (n + 1) + 1) : t[i] = s[(n + 1) + i - 1]
  <2>1. \A i \in (n + 1)..Len(s) : s[i] \in S
    BY <1>1
  <2> QED BY <1>1, <2>1, SubSeqProperties
<1> HIDE DEF t
<1>3. \A m \in Nat : n <= m =>
        /\ (IF n + 1 <= m THEN m - (n + 1) + 1 ELSE 0) = m - n
        /\ m - (n + 1) + 1 = m - n
        /\ \A i \in 1..(m - n) : (n + 1) + i - 1 = n + i /\ n + i \in 1..m
        /\ \A i, j \in 1..(m - n) : n + i = n + j => i = j
  BY <1>1
<1>4. /\ Len(t) = Len(s) - n
      /\ \A i \in 1..(Len(s) - n) : t[i] = s[n + i] /\ n + i \in 1..Len(s)
      /\ \A i, j \in 1..(Len(s) - n) : n + i = n + j => i = j
  BY <1>1, <1>2, <1>3
<1>5. DOMAIN t = 1..(Len(s) - n)
  BY <1>2, <1>4
<1>6. NoRepeat(t)
  <2> SUFFICES ASSUME NEW i \in DOMAIN t, NEW j \in DOMAIN t, t[i] = t[j]
               PROVE  i = j
    BY DEF NoRepeat
  <2>1. n + i \in DOMAIN s /\ n + j \in DOMAIN s /\ s[n + i] = s[n + j]
    BY <1>1, <1>4, <1>5
  <2>2. n + i = n + j
    BY <2>1 DEF NoRepeat
  <2> QED BY <1>4, <1>5, <2>2
<1>7. ToSet(t) \subseteq ToSet(s)
  BY <1>1, <1>4, <1>5 DEF ToSet
<1> QED BY <1>2, <1>4, <1>6, <1>7 DEF t

LEMMA QueuedLast ==
  ASSUME NEW S, NEW s \in Seq(S), NoRepeat(s), NEW x, x \notin ToSet(s)
  PROVE  /\ Append(s, x) \in Seq(S \cup {x}) /\ NoRepeat(Append(s, x))
         /\ Len(Append(s, x)) = Len(s) + 1
         /\ ToSet(Append(s, x)) = ToSet(s) \cup {x}
<1>1. PICK T : T = S \cup {x}
  OBVIOUS
<1>2. s \in Seq(T) /\ x \in T
  BY <1>1
<1> DEFINE t == Append(s, x)
<1>3. /\ t \in Seq(T) /\ DOMAIN t = 1..(Len(s) + 1) /\ DOMAIN s = 1..Len(s)
      /\ \A i \in 1..Len(s) : t[i] = s[i]
      /\ t[Len(s) + 1] = x /\ Len(s) \in Nat /\ Len(t) = Len(s) + 1
  BY <1>2
<1> HIDE DEF t
<1>4. \A i \in DOMAIN t : i \in DOMAIN s \/ i = Len(s) + 1
  BY <1>3
<1>5. NoRepeat(t)
  BY <1>3, <1>4 DEF NoRepeat, ToSet
<1>6. ToSet(t) = ToSet(s) \cup {x}
  BY <1>3, <1>4 DEF ToSet
<1> QED BY <1>1, <1>3, <1>5, <1>6 DEF t

(* One put, at the capacity and below it, of a new block or a known one.     *)
LEMMA PutKeeps ==
  ASSUME NEW s, Sound(s), NEW off, NEW bytes
  PROVE  Sound(PutIn(s, off, bytes))
<1>1. CASE off \in DOMAIN s.map
  BY <1>1 DEF PutIn
<1>2. CASE off \notin DOMAIN s.map
  <2>1. PICK S : s.order \in Seq(S)
    BY DEF Sound, IsSeq
  <2>2. PICK q \in Seq(S) : q = s.order
    BY <2>1
  <2>3. NoRepeat(q) /\ Len(q) <= Capacity /\ ToSet(q) = DOMAIN s.map /\ off \notin ToSet(q)
    BY <1>2, <2>2 DEF Sound
  <2>4. PICK n \in 0..Len(q) :
          n = Larger(Len(q) - Capacity + 1, 0) /\ Len(q) - n + 1 <= Capacity
    <3>1. Capacity \in Nat \ {0} /\ Len(q) \in Nat
      BY CatalogAssumption
    <3>2. \A m \in Nat : m <= Capacity =>
            /\ Larger(m - Capacity + 1, 0) \in 0..m
            /\ m - Larger(m - Capacity + 1, 0) + 1 <= Capacity
      BY <3>1 DEF Larger
    <3> QED BY <2>3, <3>1, <3>2
  <2>5. PICK kept \in Seq(S) :
          /\ kept = SubSeq(q, n + 1, Len(q)) /\ NoRepeat(kept) /\ Len(kept) = Len(q) - n
          /\ ToSet(kept) \subseteq ToSet(q)
    <3>1. q \in Seq(S) /\ n \in 0..Len(q) /\ NoRepeat(q)
      BY <2>3
    <3>2. /\ SubSeq(q, n + 1, Len(q)) \in Seq(S) /\ NoRepeat(SubSeq(q, n + 1, Len(q)))
          /\ Len(SubSeq(q, n + 1, Len(q))) = Len(q) - n
          /\ ToSet(SubSeq(q, n + 1, Len(q))) \subseteq ToSet(q)
      BY <3>1, KeptOf
    <3> QED BY <3>2
  <2>6. PICK later : later = Append(kept, off)
    OBVIOUS
  <2>7. /\ IsSeq(later) /\ NoRepeat(later) /\ Len(later) = Len(kept) + 1
        /\ ToSet(later) = ToSet(kept) \cup {off}
    BY <2>3, <2>5, <2>6, QueuedLast DEF IsSeq
  <2>8. PICK map : map = [o \in DOMAIN Dropped(s.map, kept) \cup {off} |->
                           IF o = off THEN bytes ELSE Dropped(s.map, kept)[o]]
    OBVIOUS
  <2>9. DOMAIN map = ToSet(kept) \cup {off}
    BY <2>8 DEF Dropped
  <2>10. PutIn(s, off, bytes) = [map |-> map, order |-> later]
    BY <1>2, <2>2, <2>4, <2>5, <2>6, <2>8 DEF PutIn
  <2>11. Len(later) <= Capacity
    BY <2>4, <2>5, <2>7
  <2> QED BY <2>7, <2>9, <2>10, <2>11 DEF Sound
<1> QED BY <1>1, <1>2

-----------------------------------------------------------------------------
LEMMA ShardsStart == RawInit => ShardsSound
<1> SUFFICES ASSUME RawInit PROVE ShardsSound
  OBVIOUS
<1>1. CASE CatalogInit
  <2>1. IsSeq(<<>>) /\ NoRepeat(<<>>) /\ Len(<<>>) = 0 /\ ToSet(<<>>) = {}
    <3>1. <<>> \in Seq({})
      OBVIOUS
    <3> QED BY <3>1 DEF IsSeq, NoRepeat, ToSet
  <2>2. DOMAIN <<>> = {} /\ 0 <= Capacity
    BY CatalogAssumption
  <2>3. Sound([map |-> <<>>, order |-> <<>>])
    BY <2>1, <2>2 DEF Sound
  <2> QED BY <1>1, <2>3 DEF CatalogInit, ShardsSound
<1>2. CASE AnyWindow
  BY <1>2 DEF AnyWindow, ShardsSound
<1> QED BY <1>1, <1>2 DEF RawInit

LEMMA PutStep ==
  ASSUME ShardsSound, NEW t \in Threads, CachePut(t)
  PROVE  ShardsSound'
<1>1. PICK b, k : b = th[t].want /\ k = ShardOf(b)
  OBVIOUS
<1>2. blocks' = [blocks EXCEPT ![k] = PutIn(blocks[k], b, b)]
  BY <1>1 DEF CachePut
<1>3. \A s \in DOMAIN blocks' :
        s \in DOMAIN blocks /\ blocks'[s] \in {blocks[s], PutIn(blocks[s], b, b)}
  BY <1>2
<1> QED BY <1>3, PutKeeps DEF ShardsSound

LEMMA OthersLeaveBlocks ==
  ASSUME RawNext
  PROVE  blocks' = blocks \/ \E t \in Threads : CachePut(t)
<1>1. ASSUME NEW t \in Threads, Resolve(t)
      PROVE  blocks' = blocks
  BY <1>1 DEF Resolve, DirectHit, ParentHit, ParentOpened, ParentListed, LookedUp
<1>2. ASSUME NEW t \in Threads, CacheGet(t) \/ DeviceRead(t) \/ DeviceFails(t)
      PROVE  blocks' = blocks
  BY <1>2 DEF CacheGet, DeviceRead, DeviceFails
<1>3. ASSUME NEW t \in Threads, Walk(t)
      PROVE  blocks' = blocks
  BY <1>3 DEF Walk, OpenRoot, RootOpened, RootIsFile, ListDir, DirListed, WalkFails, catalogVars
<1>4. CASE FindWindow
  <2>1. CASE StartWindow \/ ResolveItem \/ ItemResolved \/ BatchInodes \/ LookUpInode \/ InodeRead
    BY <2>1 DEF StartWindow, ResolveItem, ItemResolved, BatchInodes, LookUpInode, InodeRead
  <2>2. CASE BatchExtents \/ LookUpExtents \/ WindowIsFound
    BY <2>2 DEF BatchExtents, LookUpExtents, WindowIsFound
  <2>3. CASE SlotWithoutExtents \/ SlotFromCache \/ SlotFromBatch \/ ExtentsRead
    BY <2>3 DEF SlotWithoutExtents, SlotFromCache, SlotFromBatch, ExtentsRead
  <2> QED BY <1>4, <2>1, <2>2, <2>3 DEF FindWindow
<1>5. CASE UNCHANGED catalogVars
  BY <1>5 DEF catalogVars
<1> QED BY <1>1, <1>2, <1>3, <1>4, <1>5 DEF RawNext, ReadBlock

(* Every shard keeps a queue without repetition of what its map has.         *)
THEOREM CacheInvariant == RawSpec => []ShardsSound
<1>1. ShardsSound /\ [RawNext]_allVars => ShardsSound'
  <2> SUFFICES ASSUME ShardsSound, [RawNext]_allVars
               PROVE  ShardsSound'
    OBVIOUS
  <2>1. CASE blocks' = blocks
    BY <2>1 DEF ShardsSound
  <2>2. CASE \E t \in Threads : CachePut(t)
    BY <2>2, PutStep
  <2>3. UNCHANGED allVars => blocks' = blocks
    BY DEF allVars, catalogVars
  <2> QED BY <2>1, <2>2, <2>3, OthersLeaveBlocks
<1> QED BY <1>1, ShardsStart, PTL DEF RawSpec

LEMMA SoundAgrees ==
  ASSUME NEW s, Sound(s)
  PROVE  /\ ToSet(s.order) = DOMAIN s.map
         /\ Cardinality(DOMAIN s.map) = Len(s.order)
         /\ Len(s.order) <= Capacity
<1>1. PICK S : s.order \in Seq(S)
  BY DEF Sound, IsSeq
<1>0. PICK q \in Seq(S) : q = s.order
  BY <1>1
<1>2. PICK n \in Nat : n = Len(q) /\ DOMAIN q = 1..n
  OBVIOUS
<1>3. q \in Bijection(1..n, ToSet(q))
  <2>1. q = [i \in 1..n |-> q[i]] /\ \A i \in 1..n : q[i] \in ToSet(q)
    BY <1>2 DEF ToSet
  <2>2. q \in [1..n -> ToSet(q)]
    BY <2>1
  <2>3. \A i, j \in 1..n : q[i] = q[j] => i = j
    BY <1>0, <1>2 DEF Sound, NoRepeat
  <2>4. \A x \in ToSet(q) : \E i \in 1..n : q[i] = x
    BY <1>2 DEF ToSet
  <2> QED BY <2>2, <2>3, <2>4 DEF Bijection, Injection, Surjection, IsInjective
<1>4. Cardinality(ToSet(q)) = n
  BY <1>3, FS_CountingElements DEF ExistsBijection
<1> QED BY <1>0, <1>2, <1>4 DEF Sound

(* Map and queue of every shard of the block cache agree at every capacity,  *)
(* for any number of shards and any interleaving of the puts.                *)
THEOREM ShardsAlwaysAgree == RawSpec => []ShardsAgree
<1>1. ShardsSound => ShardsAgree
  BY SoundAgrees DEF ShardsSound, ShardsAgree
<1> QED BY <1>1, CacheInvariant, PTL
-----------------------------------------------------------------------------
(* The oid a path leads to, name by name: `OidIn` unfolds.                   *)
IsTrail(h, c, path, n) ==
  h = [i \in 0..n |-> IF i = 0 THEN RootOid ELSE ChildOf(c, h[i - 1], path[i])]

LEMMA TrailExists ==
  ASSUME NEW c, NEW path, NEW n \in Nat
  PROVE  \E h : IsTrail(h, c, path, n)
<1> DEFINE B == {m \in Nat : ~ \E h : IsTrail(h, c, path, m)}
<1>1. SUFFICES ASSUME n \in B PROVE FALSE
  OBVIOUS
<1>2. PICK m \in B : \A k \in B : m <= k
  <2>1. B \in SUBSET Nat /\ B # {}
    BY <1>1
  <2> HIDE DEF B
  <2> QED BY <2>1, Least
<1>3. m \in Nat /\ ~ \E h : IsTrail(h, c, path, m)
  BY <1>2
<1>4. CASE m = 0
  <2>1. IsTrail([i \in 0..0 |-> RootOid], c, path, 0)
    BY DEF IsTrail
  <2> QED BY <1>3, <1>4, <2>1
<1>5. CASE m # 0
  <2>1. m - 1 \in Nat /\ m - 1 \notin B
    BY <1>2, <1>3, <1>5
  <2>2. PICK h : IsTrail(h, c, path, m - 1)
    BY <2>1
  <2>3. PICK g : g = [i \in 0..m |-> IF i = 0 THEN RootOid ELSE ChildOf(c, h[i - 1], path[i])]
    OBVIOUS
  <2>4. \A i \in 0..(m - 1) : g[i] = h[i]
    <3>1. \A i \in 0..(m - 1) : i \in 0..m
      BY <1>3
    <3>2. \A i \in 0..(m - 1) : h[i] = IF i = 0 THEN RootOid ELSE ChildOf(c, h[i - 1], path[i])
      BY <2>2 DEF IsTrail
    <3> QED BY <2>3, <3>1, <3>2
  <2>5. \A i \in 0..m : i # 0 => i - 1 \in 0..(m - 1)
    BY <1>3
  <2>6. \A i \in 0..m : i # 0 => g[i - 1] = h[i - 1]
    BY <2>4, <2>5
  <2>7. IsTrail(g, c, path, m)
    BY <2>3, <2>6 DEF IsTrail
  <2> QED BY <1>3, <2>7
<1> QED BY <1>4, <1>5

LEMMA TrailsAgree ==
  ASSUME NEW c, NEW p, NEW q, NEW n \in Nat, NEW m \in Nat, NEW g, NEW h,
         IsTrail(g, c, p, n), IsTrail(h, c, q, m), n <= m,
         \A i \in 1..n : p[i] = q[i]
  PROVE  g[n] = h[n]
<1> DEFINE B == {k \in Nat : k <= n /\ g[k] # h[k]}
<1>1. SUFFICES ASSUME B # {} PROVE FALSE
  OBVIOUS
<1>2. PICK k \in B : \A j \in B : k <= j
  <2>1. B \in SUBSET Nat
    OBVIOUS
  <2> HIDE DEF B
  <2> QED BY <1>1, <2>1, Least
<1>3. k \in 0..n /\ k \in 0..m /\ g[k] # h[k]
  BY <1>2
<1>4. /\ g[k] = IF k = 0 THEN RootOid ELSE ChildOf(c, g[k - 1], p[k])
      /\ h[k] = IF k = 0 THEN RootOid ELSE ChildOf(c, h[k - 1], q[k])
  BY <1>3 DEF IsTrail
<1>5. k # 0
  BY <1>3, <1>4
<1>6. k - 1 \in Nat /\ k - 1 \notin B /\ k - 1 <= n /\ k \in 1..n
  BY <1>2, <1>3, <1>5
<1>7. g[k - 1] = h[k - 1] /\ p[k] = q[k]
  BY <1>6
<1> QED BY <1>3, <1>4, <1>5, <1>7

LEMMA OidOfTrail ==
  ASSUME NEW c, NEW path, Len(path) \in Nat
  PROVE  \E h : IsTrail(h, c, path, Len(path)) /\ OidIn(c, path) = h[Len(path)]
<1>1. PICK h : h = CHOOSE g : IsTrail(g, c, path, Len(path))
  OBVIOUS
<1>2. OidIn(c, path) = h[Len(path)]
  BY <1>1 DEF OidIn, IsTrail
<1>3. IsTrail(h, c, path, Len(path))
  BY <1>1, TrailExists
<1> QED BY <1>2, <1>3

LEMMA OidOfRoot ==
  ASSUME NEW c
  PROVE  OidIn(c, <<>>) = RootOid
<1>1. PICK h : IsTrail(h, c, <<>>, 0) /\ OidIn(c, <<>>) = h[0]
  <2>1. Len(<<>>) = 0
    OBVIOUS
  <2> QED BY <2>1, OidOfTrail
<1> QED BY <1>1 DEF IsTrail

LEMMA OidOfChild ==
  ASSUME NEW c, NEW S, NEW path \in Seq(S), NEW name
  PROVE  OidIn(c, Append(path, name)) = ChildOf(c, OidIn(c, path), name)
<1>1. PICK T : T = S \cup {name}
  OBVIOUS
<1>2. PICK p \in Seq(T) : p = path
  BY <1>1
<1>3. PICK n \in Nat : n = Len(p)
  OBVIOUS
<1>4. PICK q : q = Append(p, name)
  OBVIOUS
<1>5. Len(q) = n + 1 /\ q[n + 1] = name /\ \A i \in 1..n : p[i] = q[i]
  BY <1>1, <1>3, <1>4
<1>6. PICK g : IsTrail(g, c, p, n) /\ OidIn(c, p) = g[n]
  BY <1>3, OidOfTrail
<1>7. PICK h : IsTrail(h, c, q, n + 1) /\ OidIn(c, q) = h[n + 1]
  BY <1>5, OidOfTrail
<1>8. g[n] = h[n]
  BY <1>5, <1>6, <1>7, TrailsAgree
<1>9. h[n + 1] = ChildOf(c, h[n], name)
  <2>1. n + 1 \in 0..(n + 1) /\ n + 1 # 0 /\ (n + 1) - 1 = n
    OBVIOUS
  <2>2. h[n + 1] = ChildOf(c, h[(n + 1) - 1], q[n + 1])
    BY <1>7, <2>1 DEF IsTrail
  <2> QED BY <1>5, <2>1, <2>2
<1> QED BY <1>2, <1>4, <1>6, <1>7, <1>8, <1>9

-----------------------------------------------------------------------------
(* Blocks and cells.                                                         *)
LEMMA Multiples ==
  /\ \A a, b \in Nat : a * Block \in Nat /\ (a + b) * Block = a * Block + b * Block
  /\ \A a, b \in Nat : a <= b => a * Block <= b * Block
  /\ \A a, b \in Nat : a * Block = b * Block => a = b
  /\ \A a \in Nat : a # 0 => a * Block >= 1
<1> PICK B \in Nat : B = Block /\ B # 0
  BY WindowAssumption
<1>1. \A a \in Nat : a * B \in Nat
  OBVIOUS
<1>2. \A a, b \in Nat : (a + b) * B = a * B + b * B
  OBVIOUS
<1>3. \A a \in Nat : a # 0 => a * B >= 1
  OBVIOUS
<1>4. \A a, b \in Nat : a <= b => a * B <= b * B
  <2> SUFFICES ASSUME NEW a \in Nat, NEW b \in Nat, a <= b PROVE a * B <= b * B
    OBVIOUS
  <2>1. PICK d \in Nat : b = a + d
    <3>1. b - a \in Nat /\ b = a + (b - a)
      OBVIOUS
    <3> QED BY <3>1
  <2>2. b * B = a * B + d * B
    BY <1>2, <2>1
  <2> QED BY <1>1, <2>2
<1>5. \A a, b \in Nat : a < b => a * B < b * B
  <2> SUFFICES ASSUME NEW a \in Nat, NEW b \in Nat, a < b PROVE a * B < b * B
    OBVIOUS
  <2>1. a + 1 \in Nat /\ a + 1 <= b /\ (a + 1) * B = a * B + 1 * B /\ 1 * B = B
    BY <1>2
  <2>2. (a + 1) * B <= b * B
    BY <1>4, <2>1
  <2> QED BY <1>1, <2>1, <2>2
<1>6. \A a, b \in Nat : a * B = b * B => a = b
  <2> SUFFICES ASSUME NEW a \in Nat, NEW b \in Nat, a * B = b * B, a # b PROVE FALSE
    OBVIOUS
  <2>1. a < b \/ b < a
    OBVIOUS
  <2> QED BY <1>1, <1>5, <2>1
<1> QED BY <1>1, <1>2, <1>3, <1>4, <1>6

(* Rounding a run to whole blocks takes nothing off it.                      *)
LEMMA RoundedOut ==
  ASSUME NEW a \in Nat
  PROVE  /\ (a \div Block) * Block <= a /\ (a \div Block) * Block \in Nat
         /\ a <= ((a + Block - 1) \div Block) * Block
         /\ ((a + Block - 1) \div Block) * Block \in Nat
<1> PICK B \in Nat : B = Block /\ B # 0
  BY WindowAssumption
<1>1. \A x \in Nat : x \div B \in Nat /\ (x \div B) * B <= x /\ x < (x \div B) * B + B
  OBVIOUS
<1>2. a + B - 1 \in Nat
  OBVIOUS
<1>3. \A x \in Nat : x * B \in Nat
  OBVIOUS
<1>4. (a + B - 1) \div B \in Nat /\ a + B - 1 < ((a + B - 1) \div B) * B + B
  BY <1>1, <1>2
<1>5. \A z \in Nat : a + B - 1 < z + B => a <= z
  OBVIOUS
<1> QED BY <1>1, <1>3, <1>4, <1>5

-----------------------------------------------------------------------------
(* The window.  What is being read lies in the tasks, which Prepare fixes;   *)
(* the rest is where the run and the slots are in it.                        *)
Reading == phase \in {"runs", "extend", "copy", "rest"}

EntriesTyped == entry \in [Files -> Entries]

NotBegun ==
  phase \in {"catalog", "prepare"} =>
    next = 1 /\ rest = 1 /\ shipped = <<>> /\ sent = [f \in Files |-> FALSE]

TasksInOrder == Reading => tasks = InOrder(AllTasks, Before) /\ next \in 1..(Len(tasks) + 1)

Lengths == [k \in DOMAIN tasks |-> tasks[k].len]
Counted ==
  Reading => remaining = [f \in Files |-> SumFunctionOnSet(Lengths, Uncopied(f))]

Covers(k, f, c) ==
  tasks[k].file = f /\ tasks[k].off <= c /\ c < tasks[k].off + tasks[k].len

(* After m tasks a cell has what one of them copied, or nothing.             *)
CellIs(m, f, c, bytes) ==
  \/ \E k \in 1..m : Covers(k, f, c) /\ bytes = tasks[k].disk + c - tasks[k].off
  \/ bytes = Hole /\ \A k \in 1..m : ~ Covers(k, f, c)

CopiedSoFar ==
  Reading =>
    /\ data = [f \in Files |-> [c \in 0..(entry[f].size - 1) |-> data[f][c]]]
    /\ \A f \in Files : \A c \in 0..(entry[f].size - 1) : CellIs(next - 1, f, c, data[f][c])

(* What is read has every task of the run from its first cell to its last.   *)
RunSpans ==
  phase \in {"extend", "copy"} =>
    /\ run = [first |-> run.first, last |-> run.last, start |-> run.start, end |-> run.end]
    /\ run.last \in next..Len(tasks) /\ run.start \in Nat /\ run.end \in Nat
    /\ \A k \in next..run.last :
         run.start <= tasks[k].disk /\ tasks[k].disk + tasks[k].len <= run.end

SentIsShipped ==
  /\ sent \in [Files -> BOOLEAN]
  /\ shipped \in Seq(Range(shipped))
  /\ \A k \in DOMAIN shipped : shipped[k].file \in Files
  /\ \A j, k \in DOMAIN shipped : j # k => shipped[j].file # shipped[k].file
  /\ phase # "stopped" =>
       \A f \in Files : sent[f] <=> \E k \in DOMAIN shipped : shipped[k].file = f
  /\ \A k \in DOMAIN shipped : entry[shipped[k].file].kind # "lost"

CopiedIsSent ==
  Reading => \A f \in Files : TasksOf(f) # {} /\ Uncopied(f) = {} => sent[f]

RestIsSent ==
  /\ rest \in Nat \ {0}
  /\ phase \in {"rest", "done"} =>
       \A f \in Files : f < rest => entry[f].kind = "lost" \/ sent[f]
  /\ phase \in {"runs", "extend", "copy"} => rest = 1
  /\ phase = "rest" => next = Len(tasks) + 1
  /\ phase = "done" => rest > NumFiles

WindowInvariant ==
  /\ EntriesTyped /\ NotBegun /\ TasksInOrder /\ Counted /\ CopiedSoFar /\ RunSpans
  /\ SentIsShipped /\ CopiedIsSent /\ RestIsSent /\ ShippedIsComplete
-----------------------------------------------------------------------------
(* The extents of a file and the tasks made of them.                         *)
LEMMA EntryFacts ==
  ASSUME EntriesTyped, NEW f \in Files
  PROVE  /\ entry[f].kind \in {"lost", "special", "regular"}
         /\ entry[f].size \in Nat
         /\ entry[f].extents # {} => entry[f].kind = "regular"
         /\ \A e \in entry[f].extents : e.log \in Nat /\ e.phys \in Nat /\ e.len \in Nat \ {0}
         /\ \A d, e \in entry[f].extents :
              d # e => d.log + d.len <= e.log \/ e.log + e.len <= d.log
         /\ IsFiniteSet(entry[f].extents)
<1>1. entry[f] \in Entries
  BY DEF EntriesTyped
<1>2. /\ entry[f].kind \in {"lost", "special", "regular"}
      /\ entry[f].kind # "regular" => entry[f].size = 0 /\ entry[f].extents = {}
      /\ entry[f].kind = "regular" =>
           entry[f].size \in 0..(MaxBlocks * Block) /\ entry[f].extents \in ExtentSets
  BY <1>1 DEF Entries
<1>3. MaxBlocks \in Nat /\ DiskBlocks \in Nat /\ MaxBlocks * Block \in Nat
  BY WindowAssumption, Multiples
<1>4. entry[f].size \in Nat
  BY <1>2, <1>3
<1>5. entry[f].extents \in ExtentSets
  <2>1. {} \in ExtentSets
    BY DEF ExtentSets
  <2> QED BY <1>2, <2>1
<1>6. \A e \in Extents : /\ e.log \in 0..(MaxBlocks - 1) /\ e.log \in Nat
                         /\ e.phys \in Nat /\ e.len \in Nat \ {0}
  BY <1>3 DEF Extents
<1>7. PICK X : X = entry[f].extents
  OBVIOUS
<1>8. X \subseteq Extents
  BY <1>5, <1>7 DEF ExtentSets
<1>9. \A d, e \in X : d # e => d.log + d.len <= e.log \/ e.log + e.len <= d.log
  BY <1>5, <1>7 DEF ExtentSets
<1>10. IsFiniteSet(X)
  <2> DEFINE g == [e \in X |-> e.log]
  <2>1. g \in [X -> 0..(MaxBlocks - 1)]
    BY <1>6, <1>8
  <2>2. \A d, e \in X : d.log = e.log => d = e
    <3> SUFFICES ASSUME NEW d \in X, NEW e \in X, d.log = e.log, d # e PROVE FALSE
      OBVIOUS
    <3>1. d.log \in Nat /\ e.log \in Nat /\ d.len \in Nat \ {0} /\ e.len \in Nat \ {0}
      BY <1>6, <1>8
    <3>2. d.log + d.len <= e.log \/ e.log + e.len <= d.log
      BY <1>9
    <3> QED BY <3>1, <3>2
  <2>3. g \in Injection(X, 0..(MaxBlocks - 1))
    BY <2>1, <2>2 DEF Injection, IsInjective
  <2>4. IsFiniteSet(0..(MaxBlocks - 1))
    BY <1>3, FS_Interval
  <2> QED BY <2>3, <2>4, FS_Injection
<1> QED BY <1>2, <1>4, <1>6, <1>7, <1>8, <1>9, <1>10

LEMMA TaskFacts ==
  ASSUME EntriesTyped, NEW f \in Files
  PROVE  /\ \A t \in TasksOf(f) :
              /\ t = [disk |-> t.disk, len |-> t.len, file |-> f, off |-> t.off]
              /\ t.disk \in Nat /\ t.len \in Nat \ {0} /\ t.off \in Nat
              /\ \E e \in entry[f].extents :
                   /\ t.disk = e.phys * Block /\ t.off = e.log * Block
                   /\ t.len = Usable(f, e) /\ e.log * Block < entry[f].size
         /\ IsFiniteSet(TasksOf(f))
         /\ TasksOf(f) # {} => entry[f].kind = "regular"
<1> DEFINE X == {x \in entry[f].extents : x.log * Block < entry[f].size}
           task == [e \in X |-> [disk |-> e.phys * Block, len |-> Usable(f, e),
                                 file |-> f, off |-> e.log * Block]]
<1>1. TasksOf(f) = {task[e] : e \in X}
  BY DEF TasksOf
<1>2. ASSUME NEW e \in X
      PROVE  /\ e.phys * Block \in Nat /\ e.log * Block \in Nat
             /\ Usable(f, e) \in Nat \ {0}
  <2>1. /\ e.phys \in Nat /\ e.log \in Nat /\ e.len \in Nat /\ e.len # 0
        /\ entry[f].size \in Nat /\ e.log * Block < entry[f].size
    BY EntryFacts
  <2>2. e.phys * Block \in Nat /\ e.log * Block \in Nat /\ e.len * Block \in Nat /\ e.len * Block >= 1
    BY <2>1, Multiples
  <2>3. \A a, s, z \in Nat : a < s /\ z >= 1 => Smaller(z, s - a) \in Nat \ {0}
    BY DEF Smaller
  <2> QED BY <2>1, <2>2, <2>3 DEF Usable
<1>3. IsFiniteSet(X)
  <2>1. IsFiniteSet(entry[f].extents)
    BY EntryFacts
  <2> QED BY <2>1, FS_Subset
<1>4. IsFiniteSet(TasksOf(f))
  <2> HIDE DEF X, task
  <2>1. IsFiniteSet({task[e] : e \in X})
    BY <1>3, ImageIsFinite
  <2> QED BY <1>1, <2>1
<1>5. TasksOf(f) # {} => entry[f].kind = "regular"
  BY <1>1, EntryFacts
<1>6. ASSUME NEW t \in TasksOf(f)
      PROVE  /\ t = [disk |-> t.disk, len |-> t.len, file |-> f, off |-> t.off]
             /\ t.disk \in Nat /\ t.len \in Nat \ {0} /\ t.off \in Nat
             /\ \E e \in entry[f].extents :
                  /\ t.disk = e.phys * Block /\ t.off = e.log * Block
                  /\ t.len = Usable(f, e) /\ e.log * Block < entry[f].size
  <2>1. PICK e \in X : t = task[e]
    BY <1>1
  <2>2. t = [disk |-> e.phys * Block, len |-> Usable(f, e), file |-> f, off |-> e.log * Block]
    BY <2>1
  <2>3. /\ t.disk = e.phys * Block /\ t.off = e.log * Block /\ t.len = Usable(f, e) /\ t.file = f
    BY <2>2
  <2> QED BY <1>2, <2>2, <2>3
<1> QED BY <1>4, <1>5, <1>6

(* No two tasks have the same place on the device, file and offset.          *)
LEMMA TasksApart ==
  ASSUME EntriesTyped
  PROVE  /\ IsFiniteSet(AllTasks)
         /\ \A t \in AllTasks :
              t.file \in Files /\ t \in TasksOf(t.file) /\ t.disk \in Nat /\ t.off \in Nat
         /\ \A s, t \in AllTasks : s.file = t.file /\ s.off = t.off => s = t
<1>1. \A f \in Files : \A t \in TasksOf(f) : t.file = f /\ t.disk \in Nat /\ t.off \in Nat
  <2> SUFFICES ASSUME NEW f \in Files, NEW t \in TasksOf(f)
               PROVE  t.file = f /\ t.disk \in Nat /\ t.off \in Nat
    OBVIOUS
  <2>1. t = [disk |-> t.disk, len |-> t.len, file |-> f, off |-> t.off]
    BY TaskFacts
  <2>2. t.file = f
    BY <2>1
  <2> QED BY <2>2, TaskFacts
<1>2. IsFiniteSet(AllTasks)
  <2>1. IsFiniteSet(Files)
    BY WindowAssumption, FS_Interval DEF Files
  <2> DEFINE T == [f \in Files |-> TasksOf(f)]
  <2>2. IsFiniteSet({T[f] : f \in Files})
    <3> HIDE DEF T
    <3> QED BY <2>1, ImageIsFinite
  <2>3. \A Y \in {T[f] : f \in Files} : IsFiniteSet(Y)
    BY TaskFacts
  <2>4. AllTasks = UNION {T[f] : f \in Files}
    BY DEF AllTasks
  <2> HIDE DEF T
  <2> QED BY <2>2, <2>3, <2>4, FS_UNION
<1>3. \A t \in AllTasks :
         t.file \in Files /\ t \in TasksOf(t.file) /\ t.disk \in Nat /\ t.off \in Nat
  BY <1>1 DEF AllTasks
<1>4. ASSUME NEW s \in AllTasks, NEW t \in AllTasks, s.file = t.file, s.off = t.off
      PROVE  s = t
  <2>1. PICK f \in Files : f = s.file /\ s \in TasksOf(f) /\ t \in TasksOf(f)
    BY <1>3, <1>4
  <2>2. /\ s = [disk |-> s.disk, len |-> s.len, file |-> f, off |-> s.off]
        /\ t = [disk |-> t.disk, len |-> t.len, file |-> f, off |-> t.off]
    BY <2>1, TaskFacts
  <2>3. PICK d \in entry[f].extents :
          s.disk = d.phys * Block /\ s.off = d.log * Block /\ s.len = Usable(f, d)
    BY <2>1, TaskFacts
  <2>4. PICK e \in entry[f].extents :
          t.disk = e.phys * Block /\ t.off = e.log * Block /\ t.len = Usable(f, e)
    BY <2>1, TaskFacts
  <2>5. d.log \in Nat /\ e.log \in Nat /\ d.len \in Nat \ {0} /\ e.len \in Nat \ {0}
    BY EntryFacts
  <2>6. d.log = e.log
    BY <1>4, <2>3, <2>4, <2>5, Multiples
  <2>7. d # e => d.log + d.len <= e.log \/ e.log + e.len <= d.log
    BY EntryFacts
  <2>8. d = e
    BY <2>5, <2>6, <2>7
  <2> QED BY <1>4, <2>2, <2>3, <2>4, <2>8
<1> QED BY <1>2, <1>3, <1>4

(* The tasks in disk order: every one of them, once.                         *)
LEMMA SortedTasks ==
  ASSUME EntriesTyped
  PROVE  LET s == InOrder(AllTasks, Before) IN
         /\ Len(s) \in Nat /\ DOMAIN s = 1..Len(s)
         /\ \A k \in 1..Len(s) : s[k] \in AllTasks
         /\ \A t \in AllTasks : \E k \in 1..Len(s) : s[k] = t
         /\ \A i, j \in 1..Len(s) : s[i] = s[j] => i = j
         /\ \A i, j \in 1..Len(s) : i < j => s[i].disk <= s[j].disk
<1> DEFINE n == Cardinality(AllTasks)
           s == InOrder(AllTasks, Before)
<1>1. IsOrder(Before, AllTasks)
  <2>1. \A x, y \in AllTasks : <<x, y>> \in Before <=> Earlier(x, y)
    BY DEF Before
  <2>2. \A x \in AllTasks : x.file \in Nat /\ x.disk \in Nat /\ x.off \in Nat
    BY TasksApart DEF Files
  <2>3. \A x \in AllTasks : ~ Earlier(x, x)
    BY <2>2 DEF Earlier
  <2>4. \A x, y, z \in AllTasks : Earlier(x, y) /\ Earlier(y, z) => Earlier(x, z)
    BY <2>2 DEF Earlier
  <2>5. \A x, y \in AllTasks : x = y \/ Earlier(x, y) \/ Earlier(y, x)
    <3> SUFFICES ASSUME NEW x \in AllTasks, NEW y \in AllTasks, x # y
                 PROVE  Earlier(x, y) \/ Earlier(y, x)
      OBVIOUS
    <3>1. x.file # y.file \/ x.off # y.off
      BY TasksApart
    <3> QED BY <2>2, <3>1 DEF Earlier
  <2> QED BY <2>1, <2>3, <2>4, <2>5 DEF IsOrder
<1>2. /\ n \in Nat /\ s \in [1..n -> AllTasks]
      /\ \A x \in AllTasks : \E i \in 1..n : s[i] = x
      /\ \A i, j \in 1..n : i < j => <<s[i], s[j]>> \in Before
  BY <1>1, TasksApart, InOrderIsSorted
<1>3. Len(s) = n /\ DOMAIN s = 1..n
  <2> HIDE DEF s, n
  <2>1. s \in Seq(AllTasks)
    BY <1>2
  <2> QED BY <1>2, <2>1
<1> HIDE DEF s, n
<1>4. \A i, j \in 1..n : i < j => Earlier(s[i], s[j])
  BY <1>2 DEF Before
<1>5. \A i, j \in 1..n : i < j => s[i].disk <= s[j].disk
  <2> SUFFICES ASSUME NEW i \in 1..n, NEW j \in 1..n, i < j PROVE s[i].disk <= s[j].disk
    OBVIOUS
  <2>1. s[i].disk \in Nat /\ s[j].disk \in Nat
    BY <1>2, TasksApart
  <2> QED BY <1>4, <2>1 DEF Earlier
<1>6. \A i, j \in 1..n : s[i] = s[j] => i = j
  <2> SUFFICES ASSUME NEW i \in 1..n, NEW j \in 1..n, s[i] = s[j], i # j PROVE FALSE
    OBVIOUS
  <2>1. <<s[i], s[j]>> \in Before \/ <<s[j], s[i]>> \in Before
    BY <1>2
  <2>2. <<s[i], s[i]>> \notin Before
    BY <1>1, <1>2 DEF IsOrder
  <2> QED BY <2>1, <2>2
<1> QED BY <1>2, <1>3, <1>5, <1>6 DEF s

-----------------------------------------------------------------------------
(* When all its tasks are copied a file has its contents: each cell is in    *)
(* the one extent that has it, or in none.                                   *)
LEMMA WholeIsContents ==
  ASSUME EntriesTyped, tasks = InOrder(AllTasks, Before),
         NEW f \in Files, NEW m \in 0..Len(tasks), NEW d,
         d = [c \in 0..(entry[f].size - 1) |-> d[c]],
         \A c \in 0..(entry[f].size - 1) : CellIs(m, f, c, d[c]),
         \A k \in 1..Len(tasks) : tasks[k].file = f => k <= m
  PROVE  d = Contents(f)
<1> DEFINE Span(e) == (e.log * Block)..((e.log + e.len) * Block - 1)
           OfCell(c) == {e \in entry[f].extents : c \in Span(e)}
<1>1. Contents(f) = [c \in 0..(entry[f].size - 1) |->
                       IF OfCell(c) = {} THEN Hole
                       ELSE (CHOOSE x \in OfCell(c) : TRUE).phys * Block + c
                              - (CHOOSE x \in OfCell(c) : TRUE).log * Block]
  BY DEF Contents
<1>2. /\ Len(tasks) \in Nat
      /\ \A k \in 1..Len(tasks) : tasks[k] \in AllTasks
      /\ \A t \in AllTasks : \E k \in 1..Len(tasks) : tasks[k] = t
  BY SortedTasks
<1>3. entry[f].size \in Nat
  BY EntryFacts
<1>4. ASSUME NEW e \in entry[f].extents
      PROVE  /\ e.log * Block \in Nat /\ e.len * Block \in Nat /\ e.phys * Block \in Nat
             /\ (e.log + e.len) * Block = e.log * Block + e.len * Block
  <2>1. e.log \in Nat /\ e.len \in Nat /\ e.phys \in Nat
    BY EntryFacts
  <2> QED BY <2>1, Multiples
<1>5. ASSUME NEW c \in Nat, NEW e \in OfCell(c), NEW x \in OfCell(c)
      PROVE  x = e
  <2>1. SUFFICES ASSUME x # e PROVE FALSE
    OBVIOUS
  <2>2. x.log + x.len <= e.log \/ e.log + e.len <= x.log
    BY <2>1, EntryFacts
  <2>3. /\ x.log \in Nat /\ x.len \in Nat /\ e.log \in Nat /\ e.len \in Nat
        /\ x.log + x.len \in Nat /\ e.log + e.len \in Nat
    BY EntryFacts
  <2>4. (x.log + x.len) * Block <= e.log * Block \/ (e.log + e.len) * Block <= x.log * Block
    BY <2>2, <2>3, Multiples
  <2>5. /\ x.log * Block <= c /\ c <= (x.log + x.len) * Block - 1
        /\ e.log * Block <= c /\ c <= (e.log + e.len) * Block - 1
        /\ x.log * Block \in Nat /\ e.log * Block \in Nat
        /\ (x.log + x.len) * Block \in Nat /\ (e.log + e.len) * Block \in Nat
    BY <1>4
  <2> QED BY <2>4, <2>5
<1>6. ASSUME NEW c \in 0..(entry[f].size - 1) PROVE d[c] = Contents(f)[c]
  <2>0. c \in Nat /\ c < entry[f].size
    BY <1>3
  <2>1. CASE \E k \in 1..m : Covers(k, f, c) /\ d[c] = tasks[k].disk + c - tasks[k].off
    <3>1. PICK k \in 1..m : Covers(k, f, c) /\ d[c] = tasks[k].disk + c - tasks[k].off
      BY <2>1
    <3>2. tasks[k] \in TasksOf(f)
      <4>1. k \in 1..Len(tasks) /\ tasks[k].file = f
        BY <1>2, <3>1 DEF Covers
      <4> QED BY <1>2, <4>1, TasksApart
    <3>3. PICK e \in entry[f].extents :
            /\ tasks[k].disk = e.phys * Block /\ tasks[k].off = e.log * Block
            /\ tasks[k].len = Usable(f, e)
      BY <3>2, TaskFacts
    <3>4. e.log * Block <= c /\ c < e.log * Block + Usable(f, e)
      BY <3>1, <3>3 DEF Covers
    <3>5. Usable(f, e) <= e.len * Block /\ Usable(f, e) \in Int
      BY <1>3, <1>4 DEF Usable, Smaller
    <3>6. e \in OfCell(c)
      BY <1>4, <2>0, <3>4, <3>5
    <3>7. (CHOOSE x \in OfCell(c) : TRUE) = e
      BY <1>5, <2>0, <3>6
    <3>8. Contents(f)[c] = e.phys * Block + c - e.log * Block
      BY <1>1, <3>6, <3>7
    <3> QED BY <3>1, <3>3, <3>8
  <2>2. CASE d[c] = Hole /\ \A k \in 1..m : ~ Covers(k, f, c)
    <3>1. ASSUME NEW e \in OfCell(c) PROVE FALSE
      <4>1. e.log * Block <= c /\ c < e.log * Block + e.len * Block /\ e.log * Block < entry[f].size
        BY <1>3, <1>4, <2>0
      <4> DEFINE t == [disk |-> e.phys * Block, len |-> Usable(f, e), file |-> f,
                       off |-> e.log * Block]
      <4>2. t \in AllTasks
        BY <4>1 DEF AllTasks, TasksOf
      <4>3. PICK k \in 1..Len(tasks) : tasks[k] = t
        BY <1>2, <4>2
      <4>4. tasks[k].file = f /\ k \in 1..m
        BY <1>2, <4>3
      <4>5. c < e.log * Block + Usable(f, e)
        BY <1>3, <1>4, <2>0, <4>1 DEF Usable, Smaller
      <4>6. Covers(k, f, c)
        BY <4>1, <4>3, <4>5 DEF Covers
      <4> QED BY <2>2, <4>4, <4>6
    <3>2. OfCell(c) = {}
      BY <3>1
    <3>3. Contents(f)[c] = Hole
      BY <1>1, <3>2
    <3> QED BY <2>2, <3>3
  <2> QED BY <2>1, <2>2 DEF CellIs
<1>7. Contents(f) = [c \in 0..(entry[f].size - 1) |-> Contents(f)[c]]
  <2> HIDE DEF Over
  <2> QED BY <1>1
<1> QED BY <1>6, <1>7

-----------------------------------------------------------------------------
(* The steps of the window.                                                  *)
LEMMA WindowStarts ==
  ASSUME RawInit, EntriesTyped
  PROVE  WindowInvariant
<1>1. /\ phase \in {"catalog", "prepare"} /\ next = 1 /\ rest = 1 /\ shipped = <<>>
      /\ sent = [f \in Files |-> FALSE]
  BY DEF RawInit, CatalogInit, AnyWindow, Init
<1>2. NotBegun /\ TasksInOrder /\ Counted /\ CopiedSoFar /\ RunSpans /\ CopiedIsSent /\ RestIsSent
  BY <1>1 DEF NotBegun, TasksInOrder, Counted, CopiedSoFar, RunSpans, CopiedIsSent, RestIsSent, Reading
<1>3. DOMAIN shipped = {} /\ shipped \in Seq(Range(shipped))
  <2>1. <<>> \in Seq(Range(<<>>)) /\ DOMAIN <<>> = {}
    OBVIOUS
  <2> QED BY <1>1, <2>1
<1>4. SentIsShipped
  BY <1>1, <1>3 DEF SentIsShipped
<1>5. ShippedIsComplete
  BY <1>3 DEF ShippedIsComplete
<1> QED BY <1>2, <1>4, <1>5 DEF WindowInvariant

(* Before the window is known nothing is read or sent.                       *)
LEMMA CatalogLeavesWindow ==
  ASSUME WindowInvariant, phase = "catalog", phase' \in {"catalog", "prepare", "error"},
         EntriesTyped', UNCHANGED <<tasks, slots, run, next, rest, shipped>>
  PROVE  WindowInvariant'
<1>1. /\ next' = 1 /\ rest' = 1 /\ shipped = <<>> /\ shipped' = <<>>
      /\ sent' = [f \in Files |-> FALSE]
  BY DEF WindowInvariant, NotBegun, slots
<1>2. (NotBegun /\ TasksInOrder /\ Counted /\ CopiedSoFar /\ RunSpans /\ CopiedIsSent /\ RestIsSent)'
  BY <1>1 DEF NotBegun, TasksInOrder, Counted, CopiedSoFar, RunSpans, CopiedIsSent, RestIsSent, Reading
<1>3. DOMAIN shipped' = {} /\ shipped' \in Seq(Range(shipped'))
  <2>1. <<>> \in Seq(Range(<<>>)) /\ DOMAIN <<>> = {}
    OBVIOUS
  <2> QED BY <1>1, <2>1
<1>4. SentIsShipped'
  BY <1>1, <1>3 DEF SentIsShipped
<1>5. ShippedIsComplete'
  BY <1>3 DEF ShippedIsComplete
<1> QED BY <1>2, <1>4, <1>5 DEF WindowInvariant

(* What the files are made of depends on their entries only.                 *)
LEMMA EntryIsKept ==
  ASSUME UNCHANGED entry
  PROVE  /\ AllTasks' = AllTasks /\ Before' = Before
         /\ EntriesTyped => EntriesTyped'
         /\ \A f : TasksOf(f)' = TasksOf(f) /\ Contents(f)' = Contents(f)
<1>1. \A f : TasksOf(f)' = TasksOf(f)
  BY DEF TasksOf, Usable
<1>2. AllTasks' = AllTasks
  BY <1>1 DEF AllTasks
<1>3. Before' = Before
  BY <1>2 DEF Before
<1>4. \A f : Contents(f)' = Contents(f)
  BY DEF Contents
<1> QED BY <1>1, <1>2, <1>3, <1>4 DEF EntriesTyped

(* Steps that only build runs, and the ends of the phases.                   *)
LEMMA OnlyTheRunMoves ==
  ASSUME WindowInvariant, UNCHANGED <<entry, tasks, slots, next, rest, shipped>>,
         Reading' => Reading, phase = "stopped" => phase' = "stopped",
         phase' \notin {"catalog", "prepare"}, RunSpans', RestIsSent'
  PROVE  WindowInvariant'
<1>1. UNCHANGED <<remaining, data, sent>>
  BY DEF slots
<1>2. EntriesTyped' /\ NotBegun'
  BY EntryIsKept DEF WindowInvariant, NotBegun
<1>3. TasksInOrder'
  BY EntryIsKept DEF WindowInvariant, TasksInOrder
<1>4. Counted'
  BY <1>1 DEF WindowInvariant, Counted, Uncopied, Lengths
<1>5. CopiedSoFar'
  BY <1>1 DEF WindowInvariant, CopiedSoFar, CellIs, Covers
<1>6. SentIsShipped'
  BY <1>1 DEF WindowInvariant, SentIsShipped
<1>7. CopiedIsSent'
  BY <1>1, EntryIsKept DEF WindowInvariant, CopiedIsSent, Uncopied
<1>8. ShippedIsComplete'
  BY EntryIsKept DEF WindowInvariant, ShippedIsComplete
<1> QED BY <1>2, <1>3, <1>4, <1>5, <1>6, <1>7, <1>8 DEF WindowInvariant

(* What is known of the tasks while they are read.                           *)
LEMMA TasksWhileReading ==
  ASSUME WindowInvariant, Reading
  PROVE  /\ EntriesTyped /\ tasks = InOrder(AllTasks, Before)
         /\ Len(tasks) \in Nat /\ DOMAIN tasks = 1..Len(tasks) /\ next \in 1..(Len(tasks) + 1)
         /\ \A k \in 1..Len(tasks) :
              /\ tasks[k].file \in Files /\ tasks[k] \in TasksOf(tasks[k].file)
              /\ tasks[k].disk \in Nat /\ tasks[k].len \in Nat \ {0} /\ tasks[k].off \in Nat
         /\ \A f \in Files : \A t \in TasksOf(f) :
              \E k \in 1..Len(tasks) : tasks[k].file = f
         /\ \A i, j \in 1..Len(tasks) : i < j => tasks[i].disk <= tasks[j].disk
<1>1. EntriesTyped /\ tasks = InOrder(AllTasks, Before) /\ next \in 1..(Len(tasks) + 1)
  BY DEF WindowInvariant, TasksInOrder
<1>2. /\ Len(tasks) \in Nat /\ DOMAIN tasks = 1..Len(tasks)
      /\ \A k \in 1..Len(tasks) : tasks[k] \in AllTasks
      /\ \A t \in AllTasks : \E k \in 1..Len(tasks) : tasks[k] = t
      /\ \A i, j \in 1..Len(tasks) : i < j => tasks[i].disk <= tasks[j].disk
  BY <1>1, SortedTasks
<1>3. \A k \in 1..Len(tasks) :
        /\ tasks[k].file \in Files /\ tasks[k] \in TasksOf(tasks[k].file)
        /\ tasks[k].disk \in Nat /\ tasks[k].off \in Nat
  BY <1>1, <1>2, TasksApart
<1>4. \A k \in 1..Len(tasks) : tasks[k].len \in Nat \ {0}
  BY <1>1, <1>3, TaskFacts
<1>5. ASSUME NEW f \in Files, NEW t \in TasksOf(f)
      PROVE  \E k \in 1..Len(tasks) : tasks[k].file = f
  <2>1. t.file = f
    <3>1. t = [disk |-> t.disk, len |-> t.len, file |-> f, off |-> t.off]
      BY <1>1, TaskFacts
    <3> QED BY <3>1
  <2>2. t \in AllTasks
    BY DEF AllTasks
  <2> QED BY <1>2, <2>1, <2>2
<1> QED BY <1>1, <1>2, <1>3, <1>4, <1>5

LEMMA RunSteps ==
  ASSUME WindowInvariant,
         StartRun \/ ExtendTouching \/ ExtendOverGap \/ ReadRun \/ ReadFails \/ RunsEnd \/ WindowDone
  PROVE  WindowInvariant'
<1> USE DEF Reading
<1>1. CASE StartRun
  <2>1. /\ phase = "runs" /\ phase' = "extend" /\ next <= Len(tasks)
        /\ UNCHANGED <<entry, tasks, slots, next, rest, shipped>>
        /\ run' = [first |-> next, last |-> next, start |-> tasks[next].disk,
                   end |-> tasks[next].disk + tasks[next].len]
    BY <1>1 DEF StartRun
  <2>2. next \in 1..Len(tasks)
    BY <2>1, TasksWhileReading
  <2>3. tasks[next].disk \in Nat /\ tasks[next].len \in Nat
    BY <2>1, <2>2, TasksWhileReading
  <2>4. RunSpans'
    BY <2>1, <2>2, <2>3 DEF RunSpans
  <2>5. RestIsSent'
    BY <2>1 DEF WindowInvariant, RestIsSent
  <2> QED BY <2>1, <2>4, <2>5, OnlyTheRunMoves
<1>2. CASE ExtendTouching \/ ExtendOverGap
  <2> DEFINE t == tasks[run.last + 1]
  <2>1. /\ phase = "extend" /\ phase' = "extend" /\ run.last < Len(tasks)
        /\ UNCHANGED <<entry, tasks, slots, next, rest, shipped>>
        /\ \/ run' = [run EXCEPT !.last = @ + 1, !.end = EndWith(@, t)]
           \/ t.disk > run.end /\ run' = [run EXCEPT !.last = @ + 1, !.end = t.disk + t.len]
    BY <1>2 DEF ExtendTouching, ExtendOverGap, NearEnough
  <2>2. /\ run = [first |-> run.first, last |-> run.last, start |-> run.start, end |-> run.end]
        /\ run.last \in next..Len(tasks) /\ run.start \in Nat /\ run.end \in Nat
        /\ \A k \in next..run.last :
             run.start <= tasks[k].disk /\ tasks[k].disk + tasks[k].len <= run.end
    BY <2>1 DEF WindowInvariant, RunSpans
  <2>3. Len(tasks) \in Nat /\ next \in 1..(Len(tasks) + 1)
    BY <2>1, TasksWhileReading
  <2>4. /\ run.last \in 1..Len(tasks) /\ run.last + 1 \in 1..Len(tasks) /\ run.last < run.last + 1
        /\ next \in next..run.last /\ next \in 1..Len(tasks)
    BY <2>1, <2>2, <2>3
  <2>5. t.disk \in Nat /\ t.len \in Nat /\ tasks[run.last].disk \in Nat /\ tasks[run.last].disk <= t.disk
    BY <2>1, <2>4, TasksWhileReading
  <2>6. run.start <= t.disk
    <3>1. run.start <= tasks[run.last].disk
      BY <2>2, <2>3
    <3> QED BY <2>2, <2>5, <3>1
  <2>7. /\ run'.first = run.first /\ run'.last = run.last + 1 /\ run'.start = run.start
        /\ run' = [first |-> run'.first, last |-> run'.last, start |-> run'.start, end |-> run'.end]
        /\ run'.end \in {EndWith(run.end, t), t.disk + t.len}
        /\ run'.end = t.disk + t.len => run'.end = EndWith(run.end, t) \/ t.disk > run.end
    <3> HIDE DEF t
    <3> QED BY <2>1, <2>2
  <2>8. run'.end \in Nat /\ run.end <= run'.end /\ t.disk + t.len <= run'.end
    <3> HIDE DEF t
    <3> QED BY <2>2, <2>5, <2>7 DEF EndWith, Larger
  <2>9. ASSUME NEW k \in next..(run.last + 1)
        PROVE  run.start <= tasks[k].disk /\ tasks[k].disk + tasks[k].len <= run'.end
    <3>1. CASE k = run.last + 1
      BY <2>6, <2>8, <3>1
    <3>2. CASE k # run.last + 1
      <4>0. next \in Nat /\ next >= 1 /\ run.last \in Nat /\ run.last <= Len(tasks) /\ Len(tasks) \in Nat
        BY <2>3, <2>4
      <4>1. k \in next..run.last /\ k \in 1..Len(tasks)
        BY <3>2, <4>0
      <4>2. tasks[k].disk \in Nat /\ tasks[k].len \in Nat
        BY <2>1, <4>1, TasksWhileReading
      <4> QED BY <2>2, <2>8, <4>1, <4>2
    <3> QED BY <3>1, <3>2
  <2>10. RunSpans'
    <3>1. run.last + 1 \in next..Len(tasks)
      BY <2>2, <2>3, <2>4
    <3> QED BY <2>1, <2>2, <2>7, <2>8, <2>9, <3>1 DEF RunSpans
  <2>11. RestIsSent'
    BY <2>1 DEF WindowInvariant, RestIsSent
  <2> QED BY <2>1, <2>10, <2>11, OnlyTheRunMoves
<1>3. CASE ReadRun \/ ReadFails
  <2>1. /\ phase = "extend" /\ phase' \in {"copy", "error"} /\ run' = run
        /\ UNCHANGED <<entry, tasks, slots, next, rest, shipped>>
    BY <1>3 DEF ReadRun, ReadFails, RunIsComplete
  <2>2. RunSpans' /\ RestIsSent'
    BY <2>1 DEF WindowInvariant, RunSpans, RestIsSent
  <2> QED BY <2>1, <2>2, OnlyTheRunMoves
<1>4. CASE RunsEnd
  <2>1. /\ phase = "runs" /\ phase' = "rest" /\ next > Len(tasks) /\ run' = run
        /\ UNCHANGED <<entry, tasks, slots, next, rest, shipped>>
    BY <1>4 DEF RunsEnd
  <2>2. next = Len(tasks) + 1
    BY <2>1, TasksWhileReading
  <2>3. RunSpans' /\ RestIsSent'
    BY <2>1, <2>2 DEF WindowInvariant, RunSpans, RestIsSent, Files
  <2> QED BY <2>1, <2>3, OnlyTheRunMoves
<1>5. CASE WindowDone
  <2>1. /\ phase = "rest" /\ phase' = "done" /\ rest > NumFiles
        /\ UNCHANGED <<entry, tasks, slots, run, next, rest, shipped>>
    BY <1>5 DEF WindowDone
  <2>2. RunSpans' /\ RestIsSent'
    BY <2>1 DEF WindowInvariant, RunSpans, RestIsSent, slots
  <2> QED BY <2>1, <2>2, OnlyTheRunMoves
<1> QED BY <1>1, <1>2, <1>3, <1>4, <1>5

(* What a file has to copy is the sum over its tasks, wherever they lie.     *)
LEMMA RemainingIsSum ==
  ASSUME EntriesTyped, NEW s, s = InOrder(AllTasks, Before), NEW f \in Files
  PROVE  Remaining(f) = SumFunctionOnSet([k \in DOMAIN s |-> s[k].len],
                                         {k \in 1..Len(s) : s[k].file = f})
<1>1. /\ Len(s) \in Nat /\ DOMAIN s = 1..Len(s)
      /\ \A k \in 1..Len(s) : s[k] \in AllTasks
      /\ \A t \in AllTasks : \E k \in 1..Len(s) : s[k] = t
      /\ \A i, j \in 1..Len(s) : s[i] = s[j] => i = j
  BY SortedTasks
<1>2. PICK K : K = {k \in 1..Len(s) : s[k].file = f}
  OBVIOUS
<1>3. PICK lens : lens = [k \in DOMAIN s |-> s[k].len]
  OBVIOUS
<1>4. PICK g : g = [t \in TasksOf(f) |-> t.len]
  OBVIOUS
<1>5. IsFiniteSet(K)
  <2>1. IsFiniteSet(1..Len(s))
    BY <1>1, FS_Interval
  <2> QED BY <1>2, <2>1, FS_Subset
<1>6. \A k \in K : s[k] \in TasksOf(f)
  BY <1>1, <1>2, TasksApart
<1>7. \A k \in K : lens[k] \in Nat /\ g[s[k]] = lens[k]
  BY <1>1, <1>2, <1>3, <1>4, <1>6, TaskFacts
<1>8. {s[k] : k \in K} = TasksOf(f)
  <2>1. ASSUME NEW t \in TasksOf(f) PROVE \E k \in K : s[k] = t
    <3>1. t = [disk |-> t.disk, len |-> t.len, file |-> f, off |-> t.off]
      BY TaskFacts
    <3>2. t.file = f
      BY <3>1
    <3>3. t \in AllTasks
      BY DEF AllTasks
    <3> QED BY <1>1, <1>2, <3>2, <3>3
  <2> QED BY <1>6, <2>1
<1>9. SumFunctionOnSet(g, {s[k] : k \in K}) = SumFunctionOnSet(lens, K)
  <2>1. \A x, y \in K : s[x] = s[y] => x = y
    BY <1>1, <1>2
  <2> QED BY <1>5, <1>7, <2>1, SumRenamed
<1>10. Remaining(f) = SumFunctionOnSet(g, TasksOf(f))
  <2>1. DOMAIN g = TasksOf(f)
    BY <1>4
  <2>2. Remaining(f) = SumFunctionOnSet(g, DOMAIN g)
    BY <1>4, SumIsOnDomain DEF Remaining
  <2> QED BY <2>1, <2>2
<1> QED BY <1>2, <1>3, <1>8, <1>9, <1>10

LEMMA PrepareStep ==
  ASSUME WindowInvariant, Prepare
  PROVE  WindowInvariant'
<1>1. /\ phase = "prepare" /\ phase' = "runs"
      /\ tasks' = InOrder(AllTasks, Before)
      /\ remaining' = [f \in Files |-> Remaining(f)]
      /\ data' = [f \in Files |-> [c \in 0..(entry[f].size - 1) |-> Hole]]
      /\ entry' = entry /\ sent' = sent /\ next' = next /\ rest' = rest /\ shipped' = shipped
  BY DEF Prepare
<1>2. EntriesTyped /\ next = 1 /\ rest = 1 /\ shipped = <<>> /\ sent = [f \in Files |-> FALSE]
  BY <1>1 DEF WindowInvariant, NotBegun
<1>3. AllTasks' = AllTasks /\ Before' = Before /\ EntriesTyped'
  BY <1>1, <1>2, EntryIsKept
<1>4. Len(tasks') \in Nat
  BY <1>1, <1>2, SortedTasks
<1>5. TasksInOrder' /\ NotBegun' /\ RunSpans' /\ RestIsSent'
  BY <1>1, <1>2, <1>3, <1>4 DEF TasksInOrder, NotBegun, RunSpans, RestIsSent, Files
<1>6. Counted'
  <2>1. ASSUME NEW f \in Files
        PROVE  Remaining(f) = SumFunctionOnSet(Lengths', Uncopied(f)')
    <3>1. /\ Lengths' = [k \in DOMAIN tasks' |-> tasks'[k].len]
          /\ Uncopied(f)' = {k \in 1..Len(tasks') : tasks'[k].file = f}
      BY <1>1, <1>2 DEF Lengths, Uncopied
    <3>2. PICK s : s = tasks'
      OBVIOUS
    <3>3. Remaining(f) = SumFunctionOnSet([k \in DOMAIN s |-> s[k].len],
                                          {k \in 1..Len(s) : s[k].file = f})
      BY <1>1, <1>2, <3>2, RemainingIsSum
    <3> QED BY <3>1, <3>2, <3>3
  <2> QED BY <1>1, <2>1 DEF Counted
<1>7. CopiedSoFar'
  <2>1. data' = [f \in Files |-> [c \in 0..(entry'[f].size - 1) |-> data'[f][c]]]
    BY <1>1
  <2>2. ASSUME NEW f \in Files, NEW c \in 0..(entry'[f].size - 1)
        PROVE  CellIs(next - 1, f, c, data[f][c])'
    <3>1. data'[f][c] = Hole /\ 1..(next' - 1) = {}
      BY <1>1, <1>2
    <3> QED BY <3>1 DEF CellIs
  <2> QED BY <2>1, <2>2 DEF CopiedSoFar
<1>8. CopiedIsSent'
  <2>1. ASSUME NEW f \in Files, TasksOf(f)' # {} PROVE Uncopied(f)' # {}
    <3>1. TasksOf(f)' = TasksOf(f)
      BY <1>1, EntryIsKept
    <3>2. PICK t : t \in TasksOf(f) /\ t \in AllTasks
      BY <2>1, <3>1 DEF AllTasks
    <3>3. t.file = f
      <4>1. t = [disk |-> t.disk, len |-> t.len, file |-> f, off |-> t.off]
        BY <1>2, <3>2, TaskFacts
      <4> QED BY <4>1
    <3>4. PICK k \in 1..Len(tasks') : tasks'[k] = t
      BY <1>1, <1>2, <3>2, SortedTasks
    <3> QED BY <1>1, <1>2, <3>3, <3>4 DEF Uncopied
  <2> QED BY <2>1 DEF CopiedIsSent
<1>9. SentIsShipped' /\ ShippedIsComplete'
  <2>1. DOMAIN shipped' = {} /\ shipped' \in Seq(Range(shipped'))
    <3>1. <<>> \in Seq(Range(<<>>)) /\ DOMAIN <<>> = {}
      OBVIOUS
    <3> QED BY <1>1, <1>2, <3>1
  <2> QED BY <1>1, <1>2, <2>1 DEF SentIsShipped, ShippedIsComplete
<1> QED BY <1>3, <1>5, <1>6, <1>7, <1>8, <1>9 DEF WindowInvariant

LEMMA InRange ==
  ASSUME NEW S, NEW s \in Seq(S)
  PROVE  s \in Seq(Range(s))
<1>1. Len(s) \in Nat /\ s \in [1..Len(s) -> S]
  BY LenProperties
<1>2. s \in [1..Len(s) -> Range(s)]
  BY <1>1 DEF Range
<1>3. \A T : Seq(T) = UNION {[1..n -> T] : n \in Nat}
  BY SeqDef
<1> QED BY <1>1, <1>2, <1>3

LEMMA Appended ==
  ASSUME NEW s, s \in Seq(Range(s)), NEW x
  PROVE  /\ Append(s, x) \in Seq(Range(Append(s, x)))
         /\ DOMAIN Append(s, x) = DOMAIN s \cup {Len(s) + 1} /\ Len(s) + 1 \notin DOMAIN s
         /\ \A i \in DOMAIN s : Append(s, x)[i] = s[i]
         /\ Append(s, x)[Len(s) + 1] = x
<1>1. PICK T : T = Range(s) \cup {x}
  OBVIOUS
<1>2. PICK q \in Seq(T) : q = s
  BY <1>1
<1>3. PICK n \in Nat : n = Len(q) /\ DOMAIN q = 1..n
  OBVIOUS
<1>4. PICK t : t = Append(q, x) /\ t \in Seq(T)
  <2>1. q \in Seq(T) /\ x \in T
    BY <1>1
  <2>2. Append(q, x) \in Seq(T)
    BY <2>1
  <2> QED BY <2>2
<1>5. DOMAIN t = 1..(n + 1) /\ Len(t) = n + 1 /\ t[n + 1] = x /\ \A i \in 1..n : t[i] = q[i]
  BY <1>1, <1>3, <1>4
<1>6. t \in Seq(Range(t))
  BY <1>4, InRange
<1> QED BY <1>2, <1>3, <1>4, <1>5, <1>6

(* A file that goes out goes out once, and as it should.                     *)
LEMMA ShipStep ==
  ASSUME SentIsShipped, ShippedIsComplete, phase # "stopped", UNCHANGED entry,
         NEW f \in Files, ~ sent[f], entry[f].kind # "lost",
         NEW bytes, entry[f].kind = "regular" /\ TasksOf(f) # {} => bytes = Contents(f),
         NEW then, Ship(f, bytes, then)
  PROVE  SentIsShipped' /\ ShippedIsComplete' /\ sent' = [sent EXCEPT ![f] = TRUE]
<1>1. sent \in [Files -> BOOLEAN] /\ shipped \in Seq(Range(shipped))
  BY DEF SentIsShipped
<1>2. sent' = [sent EXCEPT ![f] = TRUE] /\ sent' \in [Files -> BOOLEAN]
  BY <1>1 DEF Ship, MarkSent
<1>3. \A g : TasksOf(g)' = TasksOf(g) /\ Contents(g)' = Contents(g)
  BY EntryIsKept
<1>4. CASE shipped' = shipped /\ phase' = "stopped"
  <2>1. SentIsShipped'
    BY <1>2, <1>4 DEF SentIsShipped
  <2>2. ShippedIsComplete'
    BY <1>3, <1>4 DEF ShippedIsComplete
  <2> QED BY <1>2, <2>1, <2>2
<1>5. CASE shipped' = Append(shipped, [file |-> f, data |-> bytes])
  <2>1. PICK n : n = Len(shipped) + 1
    OBVIOUS
  <2>2. /\ shipped' \in Seq(Range(shipped'))
        /\ DOMAIN shipped' = DOMAIN shipped \cup {n} /\ n \notin DOMAIN shipped
        /\ \A i \in DOMAIN shipped : shipped'[i] = shipped[i]
        /\ shipped'[n] = [file |-> f, data |-> bytes]
    BY <1>1, <1>5, <2>1, Appended
  <2>3. \A k \in DOMAIN shipped : shipped[k].file \in Files /\ shipped[k].file # f
    BY DEF SentIsShipped
  <2>4. \A j, k \in DOMAIN shipped' : j # k => shipped'[j].file # shipped'[k].file
    BY <2>2, <2>3 DEF SentIsShipped
  <2>5. \A g \in Files : sent'[g] <=> \E k \in DOMAIN shipped' : shipped'[k].file = g
    <3> SUFFICES ASSUME NEW g \in Files
                 PROVE  sent'[g] <=> \E k \in DOMAIN shipped' : shipped'[k].file = g
      OBVIOUS
    <3>1. sent[g] <=> \E k \in DOMAIN shipped : shipped[k].file = g
      BY DEF SentIsShipped
    <3>2. CASE g = f
      BY <1>1, <1>2, <2>2, <3>2
    <3>3. CASE g # f
      BY <1>1, <1>2, <2>2, <3>1, <3>3
    <3> QED BY <3>2, <3>3
  <2>6. \A k \in DOMAIN shipped' :
          shipped'[k].file \in Files /\ entry'[shipped'[k].file].kind # "lost"
    BY <2>2, <2>3 DEF SentIsShipped
  <2>7. SentIsShipped'
    BY <1>2, <2>2, <2>4, <2>5, <2>6 DEF SentIsShipped
  <2>8. ASSUME NEW k \in DOMAIN shipped', entry[shipped'[k].file].kind = "regular",
               TasksOf(shipped'[k].file) # {}
        PROVE  shipped'[k].data = Contents(shipped'[k].file)
    BY <2>2, <2>8 DEF ShippedIsComplete
  <2>9. ShippedIsComplete'
    BY <1>3, <2>8 DEF ShippedIsComplete
  <2> QED BY <1>2, <2>7, <2>9
<1> QED BY <1>4, <1>5 DEF Ship

LEMMA CopyStep ==
  ASSUME WindowInvariant, CopyTask
  PROVE  WindowInvariant'
<1> DEFINE t == tasks[next]
<1>1. PICK f, size : f = tasks[next].file /\ size = entry[f].size
  OBVIOUS
<1>2. PICK filled : filled = [c \in DOMAIN data[f] |->
                                IF c \in t.off..(t.off + t.len - 1)
                                  THEN RunBuffer(t.disk + c - t.off) ELSE data[f][c]]
  OBVIOUS
<1>3. PICK then : then = IF next = run.last THEN "runs" ELSE "copy"
  OBVIOUS
<1>4. /\ phase = "copy"
      /\ data' = [data EXCEPT ![f] = filled]
      /\ remaining' = [remaining EXCEPT ![f] = @ - t.len]
      /\ IF remaining'[f] = 0 /\ ~ sent[f]
           THEN Ship(f, filled, then)
           ELSE phase' = then /\ UNCHANGED <<sent, shipped>>
      /\ next' = next + 1
      /\ entry' = entry /\ tasks' = tasks /\ run' = run /\ rest' = rest
  BY <1>1, <1>2, <1>3 DEF CopyTask
<1>5. phase' \in {"runs", "copy", "stopped"} /\ (phase' = "copy" => next # run.last)
  BY <1>3, <1>4 DEF Ship
<1>6. Reading
  BY <1>4 DEF Reading
<1>7. /\ run = [first |-> run.first, last |-> run.last, start |-> run.start, end |-> run.end]
      /\ run.last \in next..Len(tasks) /\ run.start \in Nat /\ run.end \in Nat
      /\ \A k \in next..run.last :
           run.start <= tasks[k].disk /\ tasks[k].disk + tasks[k].len <= run.end
  BY <1>4 DEF WindowInvariant, RunSpans
<1>8. Len(tasks) \in Nat /\ next \in 1..Len(tasks) /\ next \in next..run.last
  <2>1. Len(tasks) \in Nat /\ next \in 1..(Len(tasks) + 1)
    BY <1>6, TasksWhileReading
  <2> QED BY <1>7, <2>1
<1>9. /\ f \in Files /\ t \in TasksOf(f) /\ EntriesTyped /\ tasks = InOrder(AllTasks, Before)
      /\ t.disk \in Nat /\ t.len \in Nat \ {0} /\ t.off \in Nat /\ t.file = f
      /\ DOMAIN tasks = 1..Len(tasks)
  BY <1>1, <1>6, <1>8, TasksWhileReading
<1>10. size \in Nat /\ entry[f].kind = "regular"
  BY <1>1, <1>9, EntryFacts, TaskFacts
<1>11. /\ Uncopied(f)' = Uncopied(f) \ {next} /\ next \in Uncopied(f)
       /\ \A g : g # f => Uncopied(g)' = Uncopied(g)
  <2>1. \A k : k \in next..Len(tasks) <=> k = next \/ k \in (next + 1)..Len(tasks)
    BY <1>8
  <2>2. next \notin (next + 1)..Len(tasks)
    BY <1>8
  <2> QED BY <1>4, <1>9, <2>1, <2>2 DEF Uncopied
<1>12. /\ Lengths' = Lengths
       /\ \A k \in 1..Len(tasks) : Lengths[k] = tasks[k].len /\ Lengths[k] \in Nat \ {0}
  <2>1. Lengths' = Lengths
    BY <1>4 DEF Lengths
  <2> QED BY <1>6, <1>9, <2>1, TasksWhileReading DEF Lengths
<1>13. \A g : IsFiniteSet(Uncopied(g)) /\ Uncopied(g) \subseteq 1..Len(tasks)
  <2>1. IsFiniteSet(1..Len(tasks))
    BY <1>8, FS_Interval
  <2>2. \A g : Uncopied(g) \subseteq 1..Len(tasks)
    BY <1>8 DEF Uncopied
  <2> QED BY <2>1, <2>2, FS_Subset
<1>14. remaining' = [g \in Files |-> SumFunctionOnSet(Lengths, Uncopied(g)')]
  <2>1. remaining = [g \in Files |-> SumFunctionOnSet(Lengths, Uncopied(g))]
    BY <1>6 DEF WindowInvariant, Counted
  <2>2. SumFunctionOnSet(Lengths, Uncopied(f)) = t.len + SumFunctionOnSet(Lengths, Uncopied(f)')
    <3>1. \A k \in Uncopied(f) : Lengths[k] \in Nat
      BY <1>12, <1>13
    <3>2. SumFunctionOnSet(Lengths, Uncopied(f))
            = Lengths[next] + SumFunctionOnSet(Lengths, Uncopied(f) \ {next})
      BY <1>11, <1>13, <3>1, SumWithout
    <3> QED BY <1>8, <1>11, <1>12, <3>2
  <2>3. SumFunctionOnSet(Lengths, Uncopied(f)') \in Nat
    <3>1. IsFiniteSet(Uncopied(f)') /\ \A k \in Uncopied(f)' : Lengths[k] \in Nat
      BY <1>11, <1>12, <1>13, FS_Subset
    <3> QED BY <3>1, SumIsNat
  <2>4. remaining[f] - t.len = SumFunctionOnSet(Lengths, Uncopied(f)')
    BY <1>9, <2>1, <2>2, <2>3
  <2>5. \A g \in Files : remaining'[g] = SumFunctionOnSet(Lengths, Uncopied(g)')
    BY <1>4, <1>11, <2>1, <2>4
  <2>6. remaining' = [g \in Files |-> remaining'[g]]
    BY <1>4, <2>1
  <2> QED BY <2>5, <2>6
<1>15. Counted'
  BY <1>12, <1>14 DEF Counted
<1>16. /\ data = [g \in Files |-> [c \in 0..(entry[g].size - 1) |-> data[g][c]]]
       /\ \A g \in Files : \A c \in 0..(entry[g].size - 1) : CellIs(next - 1, g, c, data[g][c])
  BY <1>6 DEF WindowInvariant, CopiedSoFar
<1>17. DOMAIN data[f] = 0..(size - 1) /\ data'[f] = filled
       /\ \A g \in Files : g # f => data'[g] = data[g]
  BY <1>1, <1>4, <1>9, <1>16
<1>18. filled = [c \in 0..(size - 1) |-> filled[c]]
  BY <1>2, <1>17
<1>19. ASSUME NEW c \in 0..(size - 1)
       PROVE  CellIs(next, f, c, filled[c])
  <2>0. c \in Nat
    BY <1>10
  <2>1. CASE Covers(next, f, c)
    <3>1. t.off <= c /\ c < t.off + t.len
      BY <2>1 DEF Covers
    <3>2. c \in t.off..(t.off + t.len - 1)
      BY <1>9, <2>0, <3>1
    <3>3. filled[c] = RunBuffer(t.disk + c - t.off)
      BY <1>2, <1>17, <3>2
    <3>4. run.start <= t.disk /\ t.disk + t.len <= run.end
      BY <1>7, <1>8
    <3>5. /\ (run.start \div Block) * Block <= run.start /\ (run.start \div Block) * Block \in Nat
          /\ run.end <= ((run.end + Block - 1) \div Block) * Block
          /\ ((run.end + Block - 1) \div Block) * Block \in Nat
      BY <1>7, RoundedOut
    <3>6. PICK first, after \in Nat :
            /\ first = (run.start \div Block) * Block
            /\ after = ((run.end + Block - 1) \div Block) * Block
      BY <3>5
    <3>7. t.disk + c - t.off \in first..(after - 1)
      <4>1. \A d, l, o, i, j \in Nat :
              first <= i /\ i <= d /\ d + l <= j /\ j <= after /\ o <= c /\ c < o + l =>
                d + c - o \in first..(after - 1)
        BY <2>0
      <4> HIDE DEF t
      <4> QED BY <1>7, <1>9, <3>1, <3>4, <3>5, <3>6, <4>1
    <3>9. filled[c] = t.disk + c - t.off
      BY <3>3, <3>6, <3>7 DEF RunBuffer
    <3>8. next \in 1..next
      BY <1>8
    <3> QED BY <2>1, <3>8, <3>9 DEF CellIs
  <2>2. CASE ~ Covers(next, f, c)
    <3>1. ~ (t.off <= c /\ c < t.off + t.len)
      BY <1>9, <2>2 DEF Covers
    <3>2. c \notin t.off..(t.off + t.len - 1)
      BY <1>9, <2>0, <3>1
    <3>3. filled[c] = data[f][c]
      BY <1>2, <1>17, <3>2
    <3>4. CellIs(next - 1, f, c, data[f][c])
      BY <1>1, <1>9, <1>16
    <3>5. \A k : k \in 1..next <=> k = next \/ k \in 1..(next - 1)
      BY <1>8
    <3> QED BY <2>2, <3>3, <3>4, <3>5 DEF CellIs
  <2> QED BY <2>1, <2>2
<1>20. CopiedSoFar'
  <2>1. data' = [g \in Files |-> [c \in 0..(entry[g].size - 1) |-> data'[g][c]]]
    <3>1. data' = [g \in Files |-> data'[g]]
      BY <1>4, <1>16
    <3>2. \A g \in Files : data[g] = [c \in 0..(entry[g].size - 1) |-> data[g][c]]
      BY <1>16
    <3>3. \A g \in Files : data'[g] = [c \in 0..(entry[g].size - 1) |-> data'[g][c]]
      BY <1>1, <1>17, <1>18, <3>2
    <3> QED BY <3>1, <3>3
  <2>2. \A k, g, c : Covers(k, g, c)' <=> Covers(k, g, c)
    BY <1>4 DEF Covers
  <2>3. ASSUME NEW g \in Files, NEW c \in 0..(entry[g].size - 1)
        PROVE  CellIs(next, g, c, data'[g][c])
    <3>1. CASE g = f
      BY <1>1, <1>17, <1>19, <3>1
    <3>2. CASE g # f
      <4>1. CellIs(next - 1, g, c, data'[g][c])
        BY <1>16, <1>17, <3>2
      <4>2. ~ Covers(next, g, c)
        BY <1>9, <3>2 DEF Covers
      <4>3. \A k : k \in 1..next <=> k = next \/ k \in 1..(next - 1)
        BY <1>8
      <4> QED BY <4>1, <4>2, <4>3 DEF CellIs
    <3> QED BY <3>1, <3>2
  <2>4. next' - 1 = next
    BY <1>4, <1>8
  <2>5. \A g \in Files : \A c \in 0..(entry[g].size - 1) : CellIs(next - 1, g, c, data[g][c])'
    BY <1>4, <2>2, <2>3, <2>4 DEF CellIs
  <2> QED BY <1>4, <2>1, <2>5 DEF CopiedSoFar
<1>21. remaining'[f] = 0 <=> Uncopied(f)' = {}
  <2>1. remaining'[f] = SumFunctionOnSet(Lengths, Uncopied(f)')
    BY <1>9, <1>14
  <2>2. IsFiniteSet(Uncopied(f)') /\ \A k \in Uncopied(f)' : Lengths[k] \in Nat \ {0}
    BY <1>11, <1>12, <1>13, FS_Subset
  <2>3. SumFunctionOnSet(Lengths, Uncopied(f)') = 0 => \A k \in Uncopied(f)' : Lengths[k] = 0
    BY <2>2, SumIsZero
  <2>4. SumFunctionOnSet(Lengths, {}) = 0
    BY SumEmpty
  <2> QED BY <2>1, <2>2, <2>3, <2>4
<1>22. Uncopied(f)' = {} => filled = Contents(f)
  <2> SUFFICES ASSUME Uncopied(f)' = {} PROVE filled = Contents(f)
    OBVIOUS
  <2>1. \A k \in 1..Len(tasks) : tasks[k].file = f => k <= next
    <3>1. \A k \in 1..Len(tasks) : k <= next \/ k \in (next + 1)..Len(tasks)
      BY <1>8
    <3> QED BY <1>4, <3>1 DEF Uncopied
  <2>2. next \in 0..Len(tasks)
    BY <1>8
  <2> QED BY <1>1, <1>9, <1>18, <1>19, <2>1, <2>2, WholeIsContents
<1>23. SentIsShipped' /\ ShippedIsComplete' /\ CopiedIsSent'
  <2>0. /\ SentIsShipped /\ ShippedIsComplete /\ sent \in [Files -> BOOLEAN]
        /\ \A g \in Files : TasksOf(g) # {} /\ Uncopied(g) = {} => sent[g]
    BY <1>6 DEF WindowInvariant, SentIsShipped, CopiedIsSent
  <2>1. \A g : TasksOf(g)' = TasksOf(g) /\ Contents(g)' = Contents(g)
    BY <1>4, EntryIsKept
  <2>2. CASE remaining'[f] = 0 /\ ~ sent[f]
    <3>1. Ship(f, filled, then)
      BY <1>4, <2>2
    <3>2. SentIsShipped' /\ ShippedIsComplete' /\ sent' = [sent EXCEPT ![f] = TRUE]
      BY <1>4, <1>9, <1>10, <1>21, <1>22, <2>0, <2>2, <3>1, ShipStep
    <3>3. CopiedIsSent'
      BY <1>11, <2>0, <2>1, <3>2 DEF CopiedIsSent
    <3> QED BY <3>2, <3>3
  <2>3. CASE ~ (remaining'[f] = 0 /\ ~ sent[f])
    <3>1. sent' = sent /\ shipped' = shipped /\ phase' # "stopped"
      BY <1>3, <1>4, <2>3
    <3>2. SentIsShipped'
      BY <1>4, <2>0, <3>1 DEF SentIsShipped
    <3>3. ShippedIsComplete'
      BY <1>4, <2>0, <2>1, <3>1 DEF ShippedIsComplete
    <3>4. CopiedIsSent'
      BY <1>11, <1>21, <2>0, <2>1, <2>3, <3>1 DEF CopiedIsSent
    <3> QED BY <3>2, <3>3, <3>4
  <2> QED BY <2>2, <2>3
<1>24. TasksInOrder' /\ EntriesTyped' /\ NotBegun'
  <2>1. AllTasks' = AllTasks /\ Before' = Before /\ EntriesTyped'
    BY <1>4, <1>9, EntryIsKept
  <2>2. next' \in 1..(Len(tasks) + 1)
    BY <1>4, <1>8
  <2> QED BY <1>4, <1>5, <1>9, <2>1, <2>2 DEF TasksInOrder, NotBegun
<1>25. RunSpans'
  <2> SUFFICES ASSUME phase' = "copy" PROVE RunSpans'
    BY <1>5 DEF RunSpans
  <2>1. next # run.last /\ run.last \in (next + 1)..Len(tasks)
    BY <1>5, <1>7, <1>8
  <2>2. \A k \in (next + 1)..run.last : k \in next..run.last
    BY <1>8
  <2> QED BY <1>4, <1>7, <2>1, <2>2 DEF RunSpans
<1>26. RestIsSent'
  BY <1>4, <1>5 DEF WindowInvariant, RestIsSent
<1> QED BY <1>15, <1>20, <1>23, <1>24, <1>25, <1>26 DEF WindowInvariant

LEMMA RestStep ==
  ASSUME WindowInvariant, RestSkips \/ RestShipsEmpty \/ RestShipsSpecial
  PROVE  WindowInvariant'
<1>1. /\ phase = "rest" /\ phase' \in {"rest", "stopped"} /\ rest <= NumFiles
      /\ rest' = rest + 1
      /\ entry' = entry /\ tasks' = tasks /\ remaining' = remaining /\ data' = data
      /\ run' = run /\ next' = next
  BY DEF RestSkips, RestShipsEmpty, RestShipsSpecial, Ship, slots
<1>2. Reading
  BY <1>1 DEF Reading
<1>3. /\ rest \in Nat /\ next = Len(tasks) + 1
      /\ \A f \in Files : f < rest => entry[f].kind = "lost" \/ sent[f]
  BY <1>1 DEF WindowInvariant, RestIsSent
<1>4. rest # 0
  BY <1>1 DEF WindowInvariant, RestIsSent
<1>5. rest \in Files
  BY <1>1, <1>3, <1>4, WindowAssumption DEF Files
<1>6. \A f : Uncopied(f) = {}
  <2>1. Len(tasks) \in Nat
    BY <1>2, TasksWhileReading
  <2>2. (Len(tasks) + 1)..Len(tasks) = {}
    BY <2>1
  <2> QED BY <1>3, <2>2 DEF Uncopied
<1>7. \A f \in Files : remaining[f] = 0 /\ (TasksOf(f) # {} => sent[f])
  <2>1. \A f \in Files : remaining[f] = SumFunctionOnSet(Lengths, Uncopied(f))
    BY <1>2 DEF WindowInvariant, Counted
  <2>2. SumFunctionOnSet(Lengths, {}) = 0
    BY SumEmpty
  <2> QED BY <1>2, <1>6, <2>1, <2>2 DEF WindowInvariant, CopiedIsSent
<1>8. /\ AllTasks' = AllTasks /\ Before' = Before /\ EntriesTyped'
      /\ \A f : TasksOf(f)' = TasksOf(f) /\ Contents(f)' = Contents(f)
  BY <1>1, EntryIsKept DEF WindowInvariant
<1>9. /\ SentIsShipped' /\ ShippedIsComplete' /\ sent \in [Files -> BOOLEAN]
      /\ sent' \in {sent, [sent EXCEPT ![rest] = TRUE]}
      /\ entry[rest].kind = "lost" \/ sent'[rest]
  <2>1. SentIsShipped /\ ShippedIsComplete /\ sent \in [Files -> BOOLEAN]
    BY DEF WindowInvariant, SentIsShipped
  <2>2. CASE RestSkips
    <3>1. UNCHANGED <<sent, shipped, phase>> /\ (entry[rest].kind = "lost" \/ sent[rest])
      BY <1>5, <1>7, <2>2 DEF RestSkips, slots
    <3>2. SentIsShipped'
      BY <1>1, <2>1, <3>1 DEF SentIsShipped
    <3>3. ShippedIsComplete'
      BY <1>1, <1>8, <2>1, <3>1 DEF ShippedIsComplete
    <3> QED BY <2>1, <3>1, <3>2, <3>3
  <2>3. CASE RestShipsEmpty \/ RestShipsSpecial
    <3>1. ~ sent[rest] /\ entry[rest].kind \in {"regular", "special"}
      BY <2>3 DEF RestShipsEmpty, RestShipsSpecial
    <3>2. PICK bytes : Ship(rest, bytes, "rest")
      BY <2>3 DEF RestShipsEmpty, RestShipsSpecial
    <3>3. TasksOf(rest) = {}
      BY <1>5, <1>7, <3>1
    <3>4. SentIsShipped' /\ ShippedIsComplete' /\ sent' = [sent EXCEPT ![rest] = TRUE]
      BY <1>1, <1>5, <2>1, <3>1, <3>2, <3>3, ShipStep
    <3> QED BY <1>5, <2>1, <3>4
  <2> QED BY <2>2, <2>3
<1>10. RestIsSent'
  <2>1. \A f \in Files : f < rest + 1 => f < rest \/ f = rest
    BY <1>3 DEF Files
  <2>2. \A f \in Files : f < rest' => entry'[f].kind = "lost" \/ sent'[f]
    BY <1>1, <1>3, <1>5, <1>9, <2>1
  <2> QED BY <1>1, <1>3, <2>2 DEF RestIsSent
<1>11. CopiedIsSent'
  BY <1>5, <1>7, <1>8, <1>9 DEF CopiedIsSent
<1>12. Counted' /\ TasksInOrder' /\ NotBegun' /\ RunSpans'
  BY <1>1, <1>2, <1>8
     DEF WindowInvariant, Counted, Lengths, Uncopied, TasksInOrder, NotBegun, RunSpans
<1>13. CopiedSoFar'
  BY <1>1, <1>2 DEF WindowInvariant, CopiedSoFar, CellIs, Covers
<1> QED BY <1>8, <1>9, <1>10, <1>11, <1>12, <1>13 DEF WindowInvariant

LEMMA WindowStep ==
  ASSUME WindowInvariant, Next
  PROVE  WindowInvariant'
<1>1. CASE Returned
  <2>1. /\ UNCHANGED <<entry, tasks, slots, run, next, rest, shipped, phase>>
        /\ phase \in {"done", "stopped", "error"}
    BY <1>1 DEF Returned, vars
  <2>2. RunSpans' /\ RestIsSent'
    BY <2>1 DEF WindowInvariant, RunSpans, RestIsSent, slots
  <2> QED BY <2>1, <2>2, OnlyTheRunMoves DEF Reading
<1> QED BY <1>1, PrepareStep, RunSteps, CopyStep, RestStep DEF Next

-----------------------------------------------------------------------------
(* The catalog and its caches.  A thread that has asked the parser for a     *)
(* block is on its way to where it asked, and what it will hear is the block *)
(* it wanted then, although others fill and empty the cache meanwhile.       *)
(* These facts are of a thread, r, and of what it relies on: the catalog c,  *)
(* the paths known, whether n reads failed, the items, the inodes found.     *)
IsPath(p) == p \in Seq(Range(p))

IsThread(r) ==
  r = [pc |-> r.pc, ret |-> r.ret, want |-> r.want, last |-> r.last, answer |-> r.answer,
       path |-> r.path, oid |-> r.oid, stack |-> r.stack]

Asks == {"get", "device", "put"}
Returns == {"rootOpened", "opened", "listed", "dirListed", "inodeRead", "extentsRead"}
Resolves == {"direct", "parent", "opened", "listed", "again", "resolved"}
Later(r) == IF r.pc \in Asks THEN r.ret ELSE r.pc

OpeningIn(c, path) ==
  IF path = <<>> \/ OidIn(c, Front(path)) = 0 THEN RootOid ELSE OidIn(c, Front(path))

(* The block that is asked for on the way to a place.                        *)
Wanted(c, r) ==
  CASE Later(r) = "rootOpened" -> OpeningIn(c, r.path)
    [] Later(r) = "opened" -> OpeningIn(c, Parent(r.path))
    [] Later(r) = "listed" -> r.oid
    [] Later(r) = "dirListed" -> Head(r.stack).oid
    [] Later(r) = "extentsRead" -> c[r.stack[r.oid]].pid
    [] OTHER -> r.stack[r.oid]

AnswerFits(c, n, r) ==
  /\ r.pc \in Asks => r.ret \in Returns
  /\ Later(r) \in Returns => Wanted(c, r) \in DOMAIN c
  /\ r.pc \in {"get", "device"} => r.want = Wanted(c, r)
  /\ r.pc = "put" => r.answer = Wanted(c, r)
  /\ r.pc \in Returns => r.answer = Wanted(c, r) \/ (r.answer = NoAnswer /\ n > 0)

ResolveFits(c, known, r) ==
  /\ IsPath(r.path)
  /\ Later(r) = "listed" => r.oid = OidIn(c, Parent(r.path))
  /\ r.pc = "resolved" => r.oid = 0 \/ (r.path \in known /\ r.oid = OidIn(c, r.path))

DirFits(c, d) ==
  /\ IsPath(d.path) /\ d.oid = OidIn(c, d.path)
  /\ d.oid \in DOMAIN c /\ IsDir(c, d.oid)

WalkerFits(c, r) ==
  /\ Later(r) \in Resolves \cup {"root", "rootOpened", "dir", "dirListed", "done"}
  /\ r.stack \in Seq(Range(r.stack)) /\ \A i \in DOMAIN r.stack : DirFits(c, r.stack[i])
  /\ Later(r) = "dirListed" => r.stack # <<>>

(* The reader: what it has resolved, then what it has of the inodes.         *)
WindowOf(paths) == Smaller(NumFiles, Len(paths))

ReaderFits(c, n, paths, found, r) ==
  /\ Later(r) \in {"idle", "item", "direct", "resolved", "inode", "inodeRead", "slot", "extentsRead"}
  /\ Later(r) = "idle" => r.stack = <<>>
  /\ r.stack \in Seq(Range(r.stack)) /\ Len(r.stack) <= WindowOf(paths)
  /\ \A i \in 1..Len(r.stack) : \/ r.stack[i] = OidIn(c, paths[i])
                                \/ r.stack[i] = 0 /\ n > 0
  /\ Later(r) \in {"direct", "resolved"} =>
       Len(r.stack) < WindowOf(paths) /\ r.path = paths[Len(r.stack) + 1]
  /\ Later(r) = "resolved" => r.oid # 0
  /\ Later(r) \in {"inode", "inodeRead", "slot", "extentsRead"} => Len(r.stack) = WindowOf(paths)
  /\ Later(r) = "inodeRead" => r.oid \in 1..Len(r.stack) /\ r.stack[r.oid] # 0
  /\ Later(r) \in {"slot", "extentsRead"} =>
       /\ \A i \in 1..Len(r.stack) : r.stack[i] \in found \cup {0}
       /\ r.oid \in 1..(Len(r.stack) + 1)
  /\ Later(r) = "extentsRead" =>
       /\ r.oid <= Len(r.stack)
       /\ r.stack[r.oid] # 0 /\ c[r.stack[r.oid]].kind = "regular" /\ c[r.stack[r.oid]].size > 0

ExpectedIn(c, o) ==
  IF c[o].kind = "regular" /\ c[o].size > 0
    THEN [kind |-> "regular", size |-> c[o].size, extents |-> c[o].extents, mtime |-> c[o].mtime]
    ELSE EmptyEntry(c[o].kind, c[o].mtime)

SlotFits(c, n, paths, e, f) ==
  e = ExpectedIn(c, OidIn(c, paths[f])) \/ (n > 0 /\ e.kind \in {"lost", "special"})

ThreadsFit ==
  /\ th = [t \in Threads |-> th[t]]
  /\ phase = "catalog" =>
       \A t \in Threads :
         /\ IsThread(th[t])
         /\ AnswerFits(cat, faults, th[t]) /\ ResolveFits(cat, DOMAIN oids, th[t])

WalkersFit == phase = "catalog" => \A t \in Walkers : WalkerFits(cat, th[t])

(* The reader starts when the walks have ended, and fills a slot at a time.  *)
ReaderFit ==
  phase = "catalog" =>
    /\ ReaderFits(cat, faults, items, DOMAIN inodes, th[Reader])
    /\ Later(th[Reader]) = "idle" => entry = [f \in Files |-> Lost]
    /\ Later(th[Reader]) # "idle" => \A t \in Walkers : th[t].pc = "done"
    /\ Later(th[Reader]) \in {"slot", "extentsRead"} =>
         \A f \in 1..(th[Reader].oid - 1) : SlotFits(cat, faults, items, entry[f], f)

WindowFits ==
  phase # "catalog" => \A f \in 1..WindowOf(items) : SlotFits(cat, faults, items, entry[f], f)

OidsFit ==
  /\ \A p \in DOMAIN oids : IsPath(p) /\ oids[p] = OidIn(cat, p) /\ oids[p] # 0
  /\ items \in Seq(DOMAIN oids)

InodesFit == \A o \in DOMAIN inodes : o \in DOMAIN cat /\ inodes[o] = InodeIn(cat, o)

ExtentsFit ==
  /\ \A p \in DOMAIN extents : extents[p] = Stream(cat, p)
  /\ \A p \in DOMAIN batch : batch[p] = Stream(cat, p)

BlocksFit ==
  /\ phase = "catalog" => DOMAIN blocks = 0..(Shards - 1)
  /\ \A s \in DOMAIN blocks : \A b \in DOMAIN blocks[s].map : blocks[s].map[b] = b

CachesFit == OidsFit /\ InodesFit /\ ExtentsFit /\ BlocksFit

CatalogInvariant ==
  /\ IsCatalog(cat) /\ faults \in Nat /\ EntriesTyped
  /\ ThreadsFit /\ WalkersFit /\ ReaderFit /\ WindowFits /\ CachesFit

LEMMA PathParts ==
  ASSUME NEW p, IsPath(p)
  PROVE  /\ p # <<>> => IsPath(Front(p)) /\ p = Append(Front(p), Last(p))
         /\ IsPath(Parent(p)) /\ IsPath(<<>>)
         /\ \A name : /\ IsPath(Append(p, name)) /\ Append(p, name) # <<>>
                      /\ Front(Append(p, name)) = p /\ Last(Append(p, name)) = name
<1>1. PICK S : S = Range(p)
  OBVIOUS
<1>2. p \in Seq(S)
  BY <1>1 DEF IsPath
<1>3. ASSUME NEW T, NEW q \in Seq(T), q # <<>>
      PROVE  Front(q) \in Seq(T) /\ q = Append(Front(q), Last(q))
  <2>1. Len(q) \in Nat /\ Len(q) # 0 /\ DOMAIN q = 1..Len(q) /\ \A i \in 1..Len(q) : q[i] \in T
    BY <1>3, EmptySeq
  <2>2. PICK n \in Nat : n = Len(q) - 1 /\ n + 1 = Len(q)
    <3>1. Len(q) - 1 \in Nat /\ (Len(q) - 1) + 1 = Len(q)
      BY <2>1
    <3> QED BY <3>1
  <2>3. PICK f : f = SubSeq(q, 1, n)
    OBVIOUS
  <2>4. /\ f \in Seq(T) /\ Len(f) = IF 1 <= n THEN n - 1 + 1 ELSE 0
        /\ \A i \in 1..(n - 1 + 1) : f[i] = q[1 + i - 1]
    <3>1. \A i \in 1..n : q[i] \in T
      BY <2>1, <2>2
    <3> QED BY <2>3, <3>1, SubSeqProperties
  <2>5. Len(f) = n /\ \A i \in 1..n : f[i] = q[i]
    BY <2>4
  <2>6. PICK x \in T : x = q[n + 1]
    BY <2>1, <2>2
  <2>7. PICK g : g = Append(f, x) /\ g \in Seq(T)
    <3>1. Append(f, x) \in Seq(T)
      BY <2>4, <2>6
    <3> QED BY <3>1
  <2>8. Len(g) = n + 1 /\ g[n + 1] = x /\ \A i \in 1..n : g[i] = f[i]
    BY <2>4, <2>5, <2>6, <2>7
  <2>9. \A i \in 1..Len(q) : q[i] = g[i]
    <3>1. \A i \in 1..(n + 1) : i = n + 1 \/ i \in 1..n
      BY <2>2
    <3> QED BY <2>2, <2>5, <2>6, <2>8, <3>1
  <2>10. q = g
    BY <2>2, <2>7, <2>8, <2>9, SeqEqual
  <2>11. Front(q) = f /\ Last(q) = x
    BY <2>2, <2>3, <2>6 DEF Front, Last
  <2> QED BY <2>4, <2>7, <2>10, <2>11
<1>4. ASSUME p # <<>> PROVE IsPath(Front(p)) /\ p = Append(Front(p), Last(p))
  <2>1. Front(p) \in Seq(S) /\ p = Append(Front(p), Last(p))
    BY <1>2, <1>3, <1>4
  <2> QED BY <2>1, InRange DEF IsPath
<1>5. IsPath(<<>>)
  <2>1. <<>> \in Seq(S)
    OBVIOUS
  <2> QED BY <2>1, InRange DEF IsPath
<1>6. ASSUME NEW name
      PROVE  /\ IsPath(Append(p, name)) /\ Append(p, name) # <<>>
             /\ Front(Append(p, name)) = p /\ Last(Append(p, name)) = name
  <2>1. PICK T : T = S \cup {name}
    OBVIOUS
  <2>2. PICK a : a = Append(p, name) /\ a \in Seq(T) /\ p \in Seq(T) /\ name \in T
    <3>1. p \in Seq(T) /\ name \in T
      BY <1>2, <2>1
    <3>2. Append(p, name) \in Seq(T)
      BY <3>1
    <3> QED BY <3>1, <3>2
  <2>3. /\ Len(p) \in Nat /\ Len(a) = Len(p) + 1 /\ a[Len(p) + 1] = name
        /\ \A i \in 1..Len(p) : a[i] = p[i]
    BY <2>2
  <2>4. a # <<>>
    BY <2>3
  <2>5. Last(a) = name
    BY <2>3 DEF Last
  <2>6. Front(a) = p
    <3>1. PICK f : f = SubSeq(a, 1, Len(p))
      OBVIOUS
    <3>2. /\ f \in Seq(T) /\ Len(f) = IF 1 <= Len(p) THEN Len(p) - 1 + 1 ELSE 0
          /\ \A i \in 1..(Len(p) - 1 + 1) : f[i] = a[1 + i - 1]
      <4>1. \A i \in 1..Len(p) : a[i] \in T
        BY <2>2, <2>3
      <4> QED BY <2>3, <3>1, <4>1, SubSeqProperties
    <3>3. Len(f) = Len(p) /\ \A i \in 1..Len(f) : f[i] = p[i]
      BY <2>3, <3>2
    <3>4. f = p
      BY <2>2, <3>2, <3>3, SeqEqual
    <3>5. Len(a) - 1 = Len(p)
      BY <2>3
    <3> QED BY <3>1, <3>4, <3>5 DEF Front
  <2> QED BY <2>2, <2>4, <2>5, <2>6, InRange DEF IsPath
<1> QED BY <1>4, <1>5, <1>6 DEF Parent

(* A path leads to something there is, by a directory.                       *)
LEMMA WhatPathsLeadTo ==
  ASSUME NEW c, IsCatalog(c)
  PROVE  /\ \A o, name : ChildOf(c, o, name) \in DOMAIN c \cup {0}
         /\ \A p : IsPath(p) => OidIn(c, p) \in DOMAIN c \cup {0}
         /\ OidIn(c, <<>>) = RootOid
         /\ \A p, name : IsPath(p) => OidIn(c, Append(p, name)) = ChildOf(c, OidIn(c, p), name)
         /\ RootOid \in DOMAIN c /\ IsDir(c, RootOid)
         /\ 0 \notin DOMAIN c /\ DOMAIN c \subseteq Nat
<1>1. RootOid \in DOMAIN c /\ IsDir(c, RootOid)
  BY DEF IsCatalog, IsDir
<1>2. 0 \notin DOMAIN c /\ DOMAIN c \subseteq Nat
  <2>1. c \in Seq(Range(c))
    BY DEF IsCatalog
  <2>2. Len(c) \in Nat /\ DOMAIN c = 1..Len(c)
    BY <2>1, LenProperties
  <2> QED BY <2>2
<1>3. ASSUME NEW o, NEW name PROVE ChildOf(c, o, name) \in DOMAIN c \cup {0}
  <2>1. CASE o \in DOMAIN c /\ IsDir(c, o) /\ name \in DOMAIN c[o].names
    <3>1. Range(c[o].names) \subseteq DOMAIN c
      BY <2>1 DEF IsCatalog, IsDir
    <3>2. c[o].names[name] \in DOMAIN c
      BY <2>1, <3>1 DEF Range
    <3> QED BY <2>1, <3>2 DEF ChildOf, NamesIn
  <2>2. CASE ~ (o \in DOMAIN c /\ IsDir(c, o) /\ name \in DOMAIN c[o].names)
    <3>1. name \notin DOMAIN NamesIn(c, o)
      <4>1. DOMAIN <<>> = {}
        OBVIOUS
      <4> QED BY <2>2, <4>1 DEF NamesIn
    <3> QED BY <3>1 DEF ChildOf
  <2> QED BY <2>1, <2>2
<1>4. OidIn(c, <<>>) = RootOid
  BY OidOfRoot
<1>5. ASSUME NEW p, NEW name, IsPath(p)
      PROVE  OidIn(c, Append(p, name)) = ChildOf(c, OidIn(c, p), name)
  BY <1>5, OidOfChild DEF IsPath
<1>6. ASSUME NEW p, IsPath(p) PROVE OidIn(c, p) \in DOMAIN c \cup {0}
  <2>1. CASE p = <<>>
    BY <1>1, <1>4, <2>1
  <2>2. CASE p # <<>>
    <3>1. IsPath(Front(p)) /\ p = Append(Front(p), Last(p))
      BY <1>6, <2>2, PathParts
    <3>2. OidIn(c, p) = ChildOf(c, OidIn(c, Front(p)), Last(p))
      BY <1>5, <3>1
    <3> QED BY <1>3, <3>2
  <2> QED BY <2>1, <2>2
<1> QED BY <1>1, <1>2, <1>3, <1>4, <1>5, <1>6

LEMMA OpeningIsKnown ==
  ASSUME NEW c, IsCatalog(c), NEW p, IsPath(p)
  PROVE  OpeningIn(c, p) \in DOMAIN c
<1>1. CASE p = <<>>
  BY <1>1, WhatPathsLeadTo DEF OpeningIn
<1>2. CASE p # <<>>
  <2>1. IsPath(Front(p))
    BY <1>2, PathParts
  <2> QED BY <2>1, WhatPathsLeadTo DEF OpeningIn
<1> QED BY <1>1, <1>2

(* Entering what fits among what fits.                                       *)
LEMMA OverHas ==
  ASSUME NEW new, NEW old
  PROVE  /\ DOMAIN Over(new, old) = DOMAIN new \cup DOMAIN old
         /\ \A x \in DOMAIN Over(new, old) :
              \/ x \in DOMAIN new /\ Over(new, old)[x] = new[x]
              \/ x \notin DOMAIN new /\ x \in DOMAIN old /\ Over(new, old)[x] = old[x]
BY DEF Over

(* What is left of a thread when its record is changed.                      *)
WithStack(r, pc, s) == [r EXCEPT !.pc = pc, !.stack = s]
WithOid(r, pc, o) == [r EXCEPT !.pc = pc, !.oid = o]
WithWant(r, pc, b) == [r EXCEPT !.pc = pc, !.want = b]
Fetched(r, a, l) == [r EXCEPT !.pc = "put", !.answer = a, !.last = l]

LEMMA AskingIs ==
  ASSUME NEW r, IsThread(r), NEW o, NEW ret,
         NEW q, q = Asking(r, o, ret)
  PROVE  /\ IsThread(q) /\ q.pc = "get" /\ q.ret = ret /\ q.want = o /\ q.answer = r.answer
         /\ q.path = r.path /\ q.oid = r.oid /\ q.stack = r.stack
<1>1. PICK q1 : q1 = [r EXCEPT !.pc = "get"]
  OBVIOUS
<1>2. PICK q2 : q2 = [q1 EXCEPT !.want = o]
  OBVIOUS
<1>3. PICK q3 : q3 = [q2 EXCEPT !.ret = ret]
  OBVIOUS
<1>4. /\ IsThread(q1) /\ q1.pc = "get" /\ q1.ret = r.ret /\ q1.want = r.want /\ q1.last = r.last
      /\ q1.answer = r.answer /\ q1.path = r.path /\ q1.oid = r.oid /\ q1.stack = r.stack
  BY <1>1 DEF IsThread
<1>5. /\ IsThread(q2) /\ q2.pc = q1.pc /\ q2.ret = q1.ret /\ q2.want = o /\ q2.last = q1.last
      /\ q2.answer = q1.answer /\ q2.path = q1.path /\ q2.oid = q1.oid /\ q2.stack = q1.stack
  BY <1>4, <1>2 DEF IsThread
<1>6. /\ IsThread(q3) /\ q3.pc = q2.pc /\ q3.ret = ret /\ q3.want = q2.want /\ q3.last = q2.last
      /\ q3.answer = q2.answer /\ q3.path = q2.path /\ q3.oid = q2.oid /\ q3.stack = q2.stack
  BY <1>5, <1>3 DEF IsThread
<1>7. q = q3
  BY <1>1, <1>2, <1>3 DEF Asking
<1> QED BY <1>4, <1>5, <1>6, <1>7

LEMMA ReturnIs ==
  ASSUME NEW r, IsThread(r), NEW a,
         NEW q, q = Return(r, a)
  PROVE  /\ IsThread(q) /\ q.pc = r.ret /\ q.ret = r.ret /\ q.want = r.want /\ q.answer = a
         /\ q.path = r.path /\ q.oid = r.oid /\ q.stack = r.stack
<1>1. PICK q1 : q1 = [r EXCEPT !.pc = r.ret]
  OBVIOUS
<1>2. PICK q2 : q2 = [q1 EXCEPT !.answer = a]
  OBVIOUS
<1>3. /\ IsThread(q1) /\ q1.pc = r.ret /\ q1.ret = r.ret /\ q1.want = r.want /\ q1.last = r.last
      /\ q1.answer = r.answer /\ q1.path = r.path /\ q1.oid = r.oid /\ q1.stack = r.stack
  BY <1>1 DEF IsThread
<1>4. /\ IsThread(q2) /\ q2.pc = q1.pc /\ q2.ret = q1.ret /\ q2.want = q1.want /\ q2.last = q1.last
      /\ q2.answer = a /\ q2.path = q1.path /\ q2.oid = q1.oid /\ q2.stack = q1.stack
  BY <1>3, <1>2 DEF IsThread
<1>5. q = q2
  BY <1>1, <1>2 DEF Return
<1> QED BY <1>3, <1>4, <1>5

LEMMA ResolvingIs ==
  ASSUME NEW r, IsThread(r), NEW p,
         NEW q, q = Resolving(r, p)
  PROVE  /\ IsThread(q) /\ q.pc = "direct" /\ q.ret = r.ret /\ q.want = r.want /\ q.answer = r.answer
         /\ q.path = p /\ q.oid = 0 /\ q.stack = r.stack
<1>1. PICK q1 : q1 = [r EXCEPT !.pc = "direct"]
  OBVIOUS
<1>2. PICK q2 : q2 = [q1 EXCEPT !.path = p]
  OBVIOUS
<1>3. PICK q3 : q3 = [q2 EXCEPT !.oid = 0]
  OBVIOUS
<1>4. /\ IsThread(q1) /\ q1.pc = "direct" /\ q1.ret = r.ret /\ q1.want = r.want /\ q1.last = r.last
      /\ q1.answer = r.answer /\ q1.path = r.path /\ q1.oid = r.oid /\ q1.stack = r.stack
  BY <1>1 DEF IsThread
<1>5. /\ IsThread(q2) /\ q2.pc = q1.pc /\ q2.ret = q1.ret /\ q2.want = q1.want /\ q2.last = q1.last
      /\ q2.answer = q1.answer /\ q2.path = p /\ q2.oid = q1.oid /\ q2.stack = q1.stack
  BY <1>4, <1>2 DEF IsThread
<1>6. /\ IsThread(q3) /\ q3.pc = q2.pc /\ q3.ret = q2.ret /\ q3.want = q2.want /\ q3.last = q2.last
      /\ q3.answer = q2.answer /\ q3.path = q2.path /\ q3.oid = 0 /\ q3.stack = q2.stack
  BY <1>5, <1>3 DEF IsThread
<1>7. q = q3
  BY <1>1, <1>2, <1>3 DEF Resolving
<1> QED BY <1>4, <1>5, <1>6, <1>7

LEMMA ResolvedIs ==
  ASSUME NEW r, IsThread(r), NEW o,
         NEW q, q = Resolved(r, o)
  PROVE  /\ IsThread(q) /\ q.pc = "resolved" /\ q.ret = r.ret /\ q.want = r.want /\ q.answer = r.answer
         /\ q.path = r.path /\ q.oid = o /\ q.stack = r.stack
<1>1. PICK q1 : q1 = [r EXCEPT !.pc = "resolved"]
  OBVIOUS
<1>2. PICK q2 : q2 = [q1 EXCEPT !.oid = o]
  OBVIOUS
<1>3. /\ IsThread(q1) /\ q1.pc = "resolved" /\ q1.ret = r.ret /\ q1.want = r.want /\ q1.last = r.last
      /\ q1.answer = r.answer /\ q1.path = r.path /\ q1.oid = r.oid /\ q1.stack = r.stack
  BY <1>1 DEF IsThread
<1>4. /\ IsThread(q2) /\ q2.pc = q1.pc /\ q2.ret = q1.ret /\ q2.want = q1.want /\ q2.last = q1.last
      /\ q2.answer = q1.answer /\ q2.path = q1.path /\ q2.oid = o /\ q2.stack = q1.stack
  BY <1>3, <1>2 DEF IsThread
<1>5. q = q2
  BY <1>1, <1>2 DEF Resolved
<1> QED BY <1>3, <1>4, <1>5

LEMMA WithStackIs ==
  ASSUME NEW r, IsThread(r), NEW pc, NEW s,
         NEW q, q = WithStack(r, pc, s)
  PROVE  /\ IsThread(q) /\ q.pc = pc /\ q.ret = r.ret /\ q.want = r.want /\ q.answer = r.answer
         /\ q.path = r.path /\ q.oid = r.oid /\ q.stack = s
<1>1. PICK q1 : q1 = [r EXCEPT !.pc = pc]
  OBVIOUS
<1>2. PICK q2 : q2 = [q1 EXCEPT !.stack = s]
  OBVIOUS
<1>3. /\ IsThread(q1) /\ q1.pc = pc /\ q1.ret = r.ret /\ q1.want = r.want /\ q1.last = r.last
      /\ q1.answer = r.answer /\ q1.path = r.path /\ q1.oid = r.oid /\ q1.stack = r.stack
  BY <1>1 DEF IsThread
<1>4. /\ IsThread(q2) /\ q2.pc = q1.pc /\ q2.ret = q1.ret /\ q2.want = q1.want /\ q2.last = q1.last
      /\ q2.answer = q1.answer /\ q2.path = q1.path /\ q2.oid = q1.oid /\ q2.stack = s
  BY <1>3, <1>2 DEF IsThread
<1>5. q = q2
  BY <1>1, <1>2 DEF WithStack
<1> QED BY <1>3, <1>4, <1>5

LEMMA WithOidIs ==
  ASSUME NEW r, IsThread(r), NEW pc, NEW o,
         NEW q, q = WithOid(r, pc, o)
  PROVE  /\ IsThread(q) /\ q.pc = pc /\ q.ret = r.ret /\ q.want = r.want /\ q.answer = r.answer
         /\ q.path = r.path /\ q.oid = o /\ q.stack = r.stack
<1>1. PICK q1 : q1 = [r EXCEPT !.pc = pc]
  OBVIOUS
<1>2. PICK q2 : q2 = [q1 EXCEPT !.oid = o]
  OBVIOUS
<1>3. /\ IsThread(q1) /\ q1.pc = pc /\ q1.ret = r.ret /\ q1.want = r.want /\ q1.last = r.last
      /\ q1.answer = r.answer /\ q1.path = r.path /\ q1.oid = r.oid /\ q1.stack = r.stack
  BY <1>1 DEF IsThread
<1>4. /\ IsThread(q2) /\ q2.pc = q1.pc /\ q2.ret = q1.ret /\ q2.want = q1.want /\ q2.last = q1.last
      /\ q2.answer = q1.answer /\ q2.path = q1.path /\ q2.oid = o /\ q2.stack = q1.stack
  BY <1>3, <1>2 DEF IsThread
<1>5. q = q2
  BY <1>1, <1>2 DEF WithOid
<1> QED BY <1>3, <1>4, <1>5

LEMMA WithWantIs ==
  ASSUME NEW r, IsThread(r), NEW pc, NEW b,
         NEW q, q = WithWant(r, pc, b)
  PROVE  /\ IsThread(q) /\ q.pc = pc /\ q.ret = r.ret /\ q.want = b /\ q.answer = r.answer
         /\ q.path = r.path /\ q.oid = r.oid /\ q.stack = r.stack
<1>1. PICK q1 : q1 = [r EXCEPT !.pc = pc]
  OBVIOUS
<1>2. PICK q2 : q2 = [q1 EXCEPT !.want = b]
  OBVIOUS
<1>3. /\ IsThread(q1) /\ q1.pc = pc /\ q1.ret = r.ret /\ q1.want = r.want /\ q1.last = r.last
      /\ q1.answer = r.answer /\ q1.path = r.path /\ q1.oid = r.oid /\ q1.stack = r.stack
  BY <1>1 DEF IsThread
<1>4. /\ IsThread(q2) /\ q2.pc = q1.pc /\ q2.ret = q1.ret /\ q2.want = b /\ q2.last = q1.last
      /\ q2.answer = q1.answer /\ q2.path = q1.path /\ q2.oid = q1.oid /\ q2.stack = q1.stack
  BY <1>3, <1>2 DEF IsThread
<1>5. q = q2
  BY <1>1, <1>2 DEF WithWant
<1> QED BY <1>3, <1>4, <1>5

LEMMA FetchedIs ==
  ASSUME NEW r, IsThread(r), NEW a, NEW l,
         NEW q, q = Fetched(r, a, l)
  PROVE  /\ IsThread(q) /\ q.pc = "put" /\ q.ret = r.ret /\ q.want = r.want /\ q.answer = a
         /\ q.path = r.path /\ q.oid = r.oid /\ q.stack = r.stack
<1>1. PICK q1 : q1 = [r EXCEPT !.pc = "put"]
  OBVIOUS
<1>2. PICK q2 : q2 = [q1 EXCEPT !.answer = a]
  OBVIOUS
<1>3. PICK q3 : q3 = [q2 EXCEPT !.last = l]
  OBVIOUS
<1>4. /\ IsThread(q1) /\ q1.pc = "put" /\ q1.ret = r.ret /\ q1.want = r.want /\ q1.last = r.last
      /\ q1.answer = r.answer /\ q1.path = r.path /\ q1.oid = r.oid /\ q1.stack = r.stack
  BY <1>1 DEF IsThread
<1>5. /\ IsThread(q2) /\ q2.pc = q1.pc /\ q2.ret = q1.ret /\ q2.want = q1.want /\ q2.last = q1.last
      /\ q2.answer = a /\ q2.path = q1.path /\ q2.oid = q1.oid /\ q2.stack = q1.stack
  BY <1>4, <1>2 DEF IsThread
<1>6. /\ IsThread(q3) /\ q3.pc = q2.pc /\ q3.ret = q2.ret /\ q3.want = q2.want /\ q3.last = l
      /\ q3.answer = q2.answer /\ q3.path = q2.path /\ q3.oid = q2.oid /\ q3.stack = q2.stack
  BY <1>5, <1>3 DEF IsThread
<1>7. q = q3
  BY <1>1, <1>2, <1>3 DEF Fetched
<1> QED BY <1>4, <1>5, <1>6, <1>7

(* What fits a thread goes on to fit it while the others read, enter and     *)
(* send more, and while it reads the block it wants.                         *)
LEMMA FitsStill ==
  ASSUME NEW c, NEW n \in Nat, NEW m \in Nat, n <= m, NEW known, NEW more, known \subseteq more,
         NEW paths, NEW found, NEW others, found \subseteq others, NEW r, NEW q,
         q.path = r.path, q.oid = r.oid, q.stack = r.stack
  PROVE  /\ Later(q) = Later(r) /\ WalkerFits(c, r) => WalkerFits(c, q)
         /\ Later(q) = Later(r) /\ ReaderFits(c, n, paths, found, r) => ReaderFits(c, m, paths, others, q)
         /\ Later(q) = Later(r) /\ (q.pc = "resolved" => r.pc = "resolved") /\ ResolveFits(c, known, r)
              => ResolveFits(c, more, q)
         /\ Later(q) = Later(r) => Wanted(c, q) = Wanted(c, r)
         /\ AnswerFits(c, n, r) => AnswerFits(c, m, r)
<1>1. Later(q) = Later(r) /\ WalkerFits(c, r) => WalkerFits(c, q)
  BY DEF WalkerFits
<1>2. n > 0 => m > 0
  OBVIOUS
<1>3. ASSUME Later(q) = Later(r), ReaderFits(c, n, paths, found, r)
      PROVE  ReaderFits(c, m, paths, others, q)
  <2>1. /\ Later(r) \in {"idle", "item", "direct", "resolved", "inode", "inodeRead", "slot", "extentsRead"}
        /\ Later(r) = "idle" => r.stack = <<>>
        /\ r.stack \in Seq(Range(r.stack)) /\ Len(r.stack) <= WindowOf(paths)
        /\ Later(r) \in {"direct", "resolved"} =>
             Len(r.stack) < WindowOf(paths) /\ r.path = paths[Len(r.stack) + 1]
        /\ Later(r) = "resolved" => r.oid # 0
        /\ Later(r) \in {"inode", "inodeRead", "slot", "extentsRead"} => Len(r.stack) = WindowOf(paths)
        /\ Later(r) = "inodeRead" => r.oid \in 1..Len(r.stack) /\ r.stack[r.oid] # 0
    BY <1>3 DEF ReaderFits
  <2>2. \A i \in 1..Len(r.stack) : r.stack[i] = OidIn(c, paths[i]) \/ (r.stack[i] = 0 /\ m > 0)
    BY <1>2, <1>3 DEF ReaderFits
  <2>3. Later(r) \in {"slot", "extentsRead"} =>
          /\ \A i \in 1..Len(r.stack) : r.stack[i] \in others \cup {0}
          /\ r.oid \in 1..(Len(r.stack) + 1)
    BY <1>3 DEF ReaderFits
  <2>4. Later(r) = "extentsRead" =>
          /\ r.oid <= Len(r.stack)
          /\ r.stack[r.oid] # 0 /\ c[r.stack[r.oid]].kind = "regular" /\ c[r.stack[r.oid]].size > 0
    BY <1>3 DEF ReaderFits
  <2> QED BY <1>3, <2>1, <2>2, <2>3, <2>4 DEF ReaderFits
<1>4. Later(q) = Later(r) /\ (q.pc = "resolved" => r.pc = "resolved") /\ ResolveFits(c, known, r)
        => ResolveFits(c, more, q)
  BY DEF ResolveFits
<1>5. Later(q) = Later(r) => Wanted(c, q) = Wanted(c, r)
  BY DEF Wanted
<1>6. AnswerFits(c, n, r) => AnswerFits(c, m, r)
  BY <1>2 DEF AnswerFits
<1> QED BY <1>1, <1>3, <1>4, <1>5, <1>6

(* The paths entered with their oids are all in order, whatever was there.   *)
LEMMA EnteredFits ==
  ASSUME OidsFit, NEW new, oids' = Over(new, oids), UNCHANGED <<cat, items>>,
         \A p \in DOMAIN new : IsPath(p) /\ new[p] = OidIn(cat, p) /\ new[p] # 0
  PROVE  OidsFit' /\ DOMAIN oids \subseteq DOMAIN oids' /\ DOMAIN new \subseteq DOMAIN oids'
<1>1. DOMAIN oids' = DOMAIN new \cup DOMAIN oids
  BY OverHas
<1>2. ASSUME NEW p \in DOMAIN oids' PROVE IsPath(p) /\ oids'[p] = OidIn(cat, p) /\ oids'[p] # 0
  <2>1. \/ p \in DOMAIN new /\ oids'[p] = new[p]
        \/ p \in DOMAIN oids /\ oids'[p] = oids[p]
    <3>1. PICK after : after = oids' /\ after = Over(new, oids) /\ p \in DOMAIN after
      OBVIOUS
    <3>2. \A x \in DOMAIN Over(new, oids) :
            \/ x \in DOMAIN new /\ Over(new, oids)[x] = new[x]
            \/ x \notin DOMAIN new /\ x \in DOMAIN oids /\ Over(new, oids)[x] = oids[x]
      BY OverHas
    <3>3. \/ p \in DOMAIN new /\ after[p] = new[p]
          \/ p \in DOMAIN oids /\ after[p] = oids[p]
      BY <3>1, <3>2
    <3> QED BY <3>1, <3>3
  <2> QED BY <2>1 DEF OidsFit
<1>3. items \in Seq(DOMAIN oids')
  <2>1. PICK S, T : S = DOMAIN oids /\ T = DOMAIN oids' /\ S \subseteq T
    BY <1>1
  <2>2. items \in Seq(S)
    BY <2>1 DEF OidsFit
  <2>3. items \in Seq(T)
    BY <2>1, <2>2
  <2> QED BY <2>1, <2>3
<1> QED BY <1>1, <1>2, <1>3 DEF OidsFit

(* A directory that opens is the one at the path, ...                        *)
LEMMA OpenedIs ==
  ASSUME IsCatalog(cat), NEW t, NEW p, IsPath(p),
         th[t].answer = OpeningIn(cat, p) \/ th[t].answer = NoAnswer
  PROVE  \/ Opened(t, p) = 0
         \/ Opened(t, p) = OidIn(cat, p) /\ Opened(t, p) \in DOMAIN cat /\ IsDir(cat, Opened(t, p))
<1> DEFINE a == th[t].answer
           o == IF p = <<>> THEN a ELSE ChildOf(cat, a, Last(p))
<1>1. SUFFICES ASSUME Opened(t, p) # 0
               PROVE  Opened(t, p) = OidIn(cat, p) /\ Opened(t, p) \in DOMAIN cat /\ IsDir(cat, Opened(t, p))
  OBVIOUS
<1>2. /\ Opened(t, p) = o /\ IsDir(cat, o) /\ o # 0 /\ a # NoAnswer
      /\ p # <<>> => OidIn(cat, Front(p)) # 0
  BY <1>1 DEF Opened, Answered, OidAt
<1>3. a = OpeningIn(cat, p)
  BY <1>2
<1>4. CASE p = <<>>
  <2>1. a = RootOid
    BY <1>3, <1>4 DEF OpeningIn
  <2> QED BY <1>2, <1>4, <2>1, WhatPathsLeadTo
<1>5. CASE p # <<>>
  <2>1. a = OidIn(cat, Front(p))
    BY <1>2, <1>3, <1>5 DEF OpeningIn
  <2>2. IsPath(Front(p)) /\ p = Append(Front(p), Last(p))
    BY <1>5, PathParts
  <2>3. OidIn(cat, p) = ChildOf(cat, a, Last(p))
    <3>1. PICK front, name : front = Front(p) /\ name = Last(p)
      OBVIOUS
    <3>2. OidIn(cat, Append(front, name)) = ChildOf(cat, OidIn(cat, front), name)
      BY <2>2, <3>1, WhatPathsLeadTo
    <3> QED BY <2>1, <2>2, <3>1, <3>2
  <2>4. OidIn(cat, p) \in DOMAIN cat \cup {0}
    BY WhatPathsLeadTo
  <2> QED BY <1>2, <1>5, <2>3, <2>4
<1> QED BY <1>4, <1>5

(* ... and its names are those of the paths below it.                        *)
LEMMA ListingFits ==
  ASSUME IsCatalog(cat), NEW dir, IsPath(dir), NEW a, a = OidIn(cat, dir)
  PROVE  /\ \A n \in DOMAIN NamesIn(cat, a) :
              /\ IsPath(ChildPath(dir, n)) /\ NamesIn(cat, a)[n] = OidIn(cat, ChildPath(dir, n))
              /\ NamesIn(cat, a)[n] \in DOMAIN cat /\ NamesIn(cat, a)[n] # 0
              /\ ChildPath(dir, n) \in DOMAIN Listing(dir, a)
         /\ \A p \in DOMAIN Listing(dir, a) :
              /\ IsPath(p) /\ Listing(dir, a)[p] = OidIn(cat, p) /\ Listing(dir, a)[p] # 0
<1>1. ASSUME NEW n \in DOMAIN NamesIn(cat, a)
      PROVE  /\ IsPath(ChildPath(dir, n)) /\ NamesIn(cat, a)[n] = OidIn(cat, ChildPath(dir, n))
             /\ NamesIn(cat, a)[n] \in DOMAIN cat /\ NamesIn(cat, a)[n] # 0
             /\ ChildPath(dir, n) \in DOMAIN Listing(dir, a) /\ Last(ChildPath(dir, n)) = n
  <2>1. /\ IsPath(ChildPath(dir, n)) /\ Last(ChildPath(dir, n)) = n
    BY PathParts DEF ChildPath
  <2>2. OidIn(cat, ChildPath(dir, n)) = ChildOf(cat, a, n)
    BY WhatPathsLeadTo DEF ChildPath
  <2>3. ChildOf(cat, a, n) = NamesIn(cat, a)[n]
    BY DEF ChildOf
  <2>4. ChildOf(cat, a, n) \in DOMAIN cat
    <3>1. a \in DOMAIN cat /\ IsDir(cat, a) /\ NamesIn(cat, a) = cat[a].names
      <4>1. DOMAIN <<>> = {}
        OBVIOUS
      <4> QED BY <4>1 DEF NamesIn
    <3>2. Range(cat[a].names) \subseteq DOMAIN cat
      BY <3>1 DEF IsCatalog, IsDir
    <3> QED BY <2>3, <3>1, <3>2 DEF Range
  <2>5. 0 \notin DOMAIN cat
    BY WhatPathsLeadTo
  <2>6. ChildPath(dir, n) \in DOMAIN Listing(dir, a)
    BY DEF Listing
  <2> QED BY <2>1, <2>2, <2>3, <2>4, <2>5, <2>6
<1>2. ASSUME NEW p \in DOMAIN Listing(dir, a)
      PROVE  IsPath(p) /\ Listing(dir, a)[p] = OidIn(cat, p) /\ Listing(dir, a)[p] # 0
  <2>1. PICK n \in DOMAIN NamesIn(cat, a) : p = ChildPath(dir, n)
    BY DEF Listing
  <2>2. Listing(dir, a)[p] = NamesIn(cat, a)[Last(p)]
    BY DEF Listing
  <2> QED BY <1>1, <2>1, <2>2
<1> QED BY <1>1, <1>2

-----------------------------------------------------------------------------
(* What a step of a thread leaves to show when the caches are in order.      *)
Onward ==
  /\ phase = "catalog" /\ phase' = "catalog" /\ UNCHANGED cat
  /\ faults' \in Nat /\ faults <= faults' /\ DOMAIN oids \subseteq DOMAIN oids'
  /\ CachesFit'

LEMMA ThreadMoves ==
  ASSUME CatalogInvariant, Onward, NEW t \in Threads, NEW q, th' = [th EXCEPT ![t] = q],
         IsThread(q), AnswerFits(cat, faults', q), ResolveFits(cat, DOMAIN oids', q)
  PROVE  ThreadsFit' /\ th'[t] = q /\ \A u \in Threads \ {t} : th'[u] = th[u]
<1>1. th = [u \in Threads |-> th[u]]
  BY DEF CatalogInvariant, ThreadsFit
<1>2. th'[t] = q /\ th' = [u \in Threads |-> th'[u]]
  BY <1>1
<1>3. \A u \in Threads \ {t} : th'[u] = th[u]
  BY <1>1
<1>4. ASSUME NEW u \in Threads
      PROVE  IsThread(th'[u]) /\ AnswerFits(cat, faults', th'[u]) /\ ResolveFits(cat, DOMAIN oids', th'[u])
  <2>1. CASE u = t
    BY <1>2, <2>1
  <2>2. CASE u # t
    <3>1. PICK r : r = th[u] /\ r = th'[u]
      BY <1>3, <2>2
    <3>2. IsThread(r) /\ AnswerFits(cat, faults, r) /\ ResolveFits(cat, DOMAIN oids, r)
      BY <3>1 DEF CatalogInvariant, ThreadsFit, Onward
    <3>3. AnswerFits(cat, faults', r)
      <4>1. faults \in Nat /\ faults' \in Nat /\ faults <= faults'
        BY DEF CatalogInvariant, Onward
      <4>2. faults > 0 => faults' > 0
        BY <4>1
      <4> QED BY <3>2, <4>2 DEF AnswerFits
    <3>4. ResolveFits(cat, DOMAIN oids', r)
      BY <3>2 DEF ResolveFits, Onward
    <3> QED BY <3>1, <3>2, <3>3, <3>4
  <2> QED BY <2>1, <2>2
<1>5. \A u \in Threads :
        /\ IsThread(th'[u])
        /\ AnswerFits(cat', faults', th'[u]) /\ ResolveFits(cat', DOMAIN oids', th'[u])
  BY <1>4 DEF Onward
<1> QED BY <1>2, <1>3, <1>5 DEF ThreadsFit

(* A walk goes on while the reader waits.                                    *)
LEMMA WalkerMoves ==
  ASSUME CatalogInvariant, Onward, NEW t \in Walkers, NEW q, th' = [th EXCEPT ![t] = q],
         IsThread(q), AnswerFits(cat, faults', q), ResolveFits(cat, DOMAIN oids', q),
         WalkerFits(cat, q), th[t].pc # "done", UNCHANGED entry
  PROVE  CatalogInvariant'
<1>1. t \in Threads /\ t # Reader /\ Reader \in Threads
  BY DEF Walkers, Threads, Reader
<1>2. ThreadsFit' /\ th'[t] = q /\ \A u \in Threads \ {t} : th'[u] = th[u]
  BY <1>1, ThreadMoves
<1>3. \A u \in Walkers : WalkerFits(cat, th'[u])
  <2>1. ASSUME NEW u \in Walkers, u # t PROVE WalkerFits(cat, th'[u])
    BY <1>2, <2>1 DEF CatalogInvariant, WalkersFit, Onward, Threads
  <2> QED BY <1>2, <2>1
<1>4. PICK r : r = th[Reader] /\ r = th'[Reader]
  BY <1>1, <1>2
<1>5. /\ Later(r) = "idle" /\ r.stack = <<>> /\ entry = [f \in Files |-> Lost]
      /\ r.stack \in Seq(Range(r.stack))
  BY <1>4 DEF CatalogInvariant, ReaderFit, ReaderFits, Onward
<1>6. WindowOf(items') \in Nat
  <2>1. items' \in Seq(DOMAIN oids')
    BY DEF Onward, CachesFit, OidsFit
  <2>2. Len(items') \in Nat /\ NumFiles \in Nat
    BY <2>1, WindowAssumption
  <2> QED BY <2>2 DEF WindowOf, Smaller
<1>7. ReaderFits(cat, faults', items', DOMAIN inodes', r)
  <2>1. Len(r.stack) = 0 /\ 0 <= WindowOf(items')
    BY <1>5, <1>6
  <2>2. \A i : i \notin 1..Len(r.stack)
    BY <2>1
  <2> QED BY <1>5, <2>1, <2>2 DEF ReaderFits
<1>8. ReaderFit'
  BY <1>4, <1>5, <1>7 DEF Onward, ReaderFit
<1>9. WalkersFit' /\ WindowFits' /\ CachesFit' /\ IsCatalog(cat') /\ faults' \in Nat
  BY <1>3 DEF CatalogInvariant, WalkersFit, WindowFits, Onward
<1>10. EntriesTyped'
  BY DEF CatalogInvariant, EntriesTyped
<1> QED BY <1>2, <1>8, <1>9, <1>10 DEF CatalogInvariant

(* The reader goes on when the walks have ended.                             *)
LEMMA ReaderMoves ==
  ASSUME CatalogInvariant, Onward, NEW q, th' = [th EXCEPT ![Reader] = q],
         IsThread(q), AnswerFits(cat, faults', q), ResolveFits(cat, DOMAIN oids', q),
         ReaderFits(cat, faults', items, DOMAIN inodes', q), Later(q) # "idle",
         Later(th[Reader]) # "idle" \/ \A t \in Walkers : th[t].pc = "done",
         Later(q) \in {"slot", "extentsRead"} =>
           \A f \in 1..(q.oid - 1) : SlotFits(cat, faults', items, entry'[f], f),
         UNCHANGED items, EntriesTyped'
  PROVE  CatalogInvariant'
<1>1. Reader \in Threads /\ \A t \in Walkers : t \in Threads /\ t # Reader
  BY DEF Walkers, Threads, Reader
<1>2. ThreadsFit' /\ th'[Reader] = q /\ \A u \in Threads \ {Reader} : th'[u] = th[u]
  BY <1>1, ThreadMoves
<1>3. \A u \in Walkers : th[u].pc = "done" /\ th'[u] = th[u]
  BY <1>1, <1>2 DEF CatalogInvariant, ReaderFit, Onward
<1>4. WalkersFit'
  BY <1>3 DEF CatalogInvariant, WalkersFit, Onward
<1>5. ReaderFit'
  <2>1. ReaderFits(cat', faults', items', DOMAIN inodes', th'[Reader])
    BY <1>2 DEF Onward
  <2>2. Later(th'[Reader]) \in {"slot", "extentsRead"} =>
          \A f \in 1..(th'[Reader].oid - 1) : SlotFits(cat', faults', items', entry'[f], f)
    BY <1>2 DEF Onward
  <2> QED BY <1>2, <1>3, <2>1, <2>2 DEF ReaderFit
<1>6. WindowFits' /\ CachesFit' /\ IsCatalog(cat') /\ faults' \in Nat
  BY DEF CatalogInvariant, WindowFits, Onward
<1> QED BY <1>2, <1>4, <1>5, <1>6 DEF CatalogInvariant

-----------------------------------------------------------------------------
(* Reading a block, whatever has it.                                         *)
LEMMA ReadOnward ==
  ASSUME CatalogInvariant, Onward, NEW t \in Threads, NEW q, th' = [th EXCEPT ![t] = q],
         th[t].pc \in Asks, q.pc \in Asks \cup Returns, Later(q) = Later(th[t]),
         q.path = th[t].path, q.oid = th[t].oid, q.stack = th[t].stack,
         IsThread(q), AnswerFits(cat, faults', q),
         UNCHANGED <<entry, items, oids, inodes>>
  PROVE  CatalogInvariant'
<1>1. PICK r : r = th[t]
  OBVIOUS
<1>2. /\ AnswerFits(cat, faults, r) /\ ResolveFits(cat, DOMAIN oids, r)
      /\ cat' = cat /\ faults \in Nat /\ faults' \in Nat /\ faults <= faults'
  BY <1>1 DEF CatalogInvariant, ThreadsFit, Onward
<1>3. Later(r) \in Returns /\ Later(q) = Later(r)
  BY <1>1, <1>2 DEF AnswerFits, Later
<1>4. q.pc # "resolved" /\ r.pc # "done"
  BY <1>1 DEF Asks, Returns
<1>5. ResolveFits(cat, DOMAIN oids', q)
  BY <1>1, <1>2, <1>3, <1>4 DEF ResolveFits
<1>6. CASE t \in Walkers
  <2>1. WalkerFits(cat, r)
    BY <1>1, <1>6 DEF CatalogInvariant, WalkersFit, Onward
  <2>2. WalkerFits(cat, q)
    BY <1>1, <1>3, <2>1 DEF WalkerFits
  <2> QED BY <1>1, <1>4, <1>5, <1>6, <2>2, WalkerMoves
<1>7. CASE t = Reader
  <2>1. /\ ReaderFits(cat, faults, items, DOMAIN inodes, r)
        /\ Later(r) \in {"slot", "extentsRead"} =>
             \A f \in 1..(r.oid - 1) : SlotFits(cat, faults, items, entry[f], f)
    BY <1>1, <1>7 DEF CatalogInvariant, ReaderFit, Onward
  <2>2. ReaderFits(cat, faults', items, DOMAIN inodes', q)
    <3>1. PICK n \in Nat, m \in Nat : n = faults /\ m = faults' /\ n <= m
      BY <1>2
    <3>2. ReaderFits(cat, n, items, DOMAIN inodes, r)
      BY <2>1, <3>1
    <3>3. ReaderFits(cat, m, items, DOMAIN inodes, q)
      BY <1>1, <1>3, <3>1, <3>2, FitsStill
    <3> QED BY <3>1, <3>3
  <2>3. Later(q) \in {"slot", "extentsRead"} =>
          \A f \in 1..(q.oid - 1) : SlotFits(cat, faults', items, entry'[f], f)
    <3>1. faults > 0 => faults' > 0
      BY <1>2
    <3> QED BY <1>1, <1>3, <2>1, <3>1 DEF SlotFits
  <2>4. Later(q) # "idle" /\ Later(th[Reader]) # "idle"
    BY <1>1, <1>3, <1>7 DEF Returns
  <2>5. EntriesTyped'
    BY DEF CatalogInvariant, EntriesTyped
  <2>6. th' = [th EXCEPT ![Reader] = q]
    BY <1>7
  <2> QED BY <1>5, <2>2, <2>3, <2>4, <2>5, <2>6, ReaderMoves
<1> QED BY <1>6, <1>7 DEF Threads

(* What is kept of a shard was in it.                                        *)
LEMMA KeptInMap ==
  ASSUME NEW s, Sound(s),
         NEW kept, kept = SubSeq(s.order, Larger(Len(s.order) - Capacity + 1, 0) + 1, Len(s.order))
  PROVE  ToSet(kept) \subseteq DOMAIN s.map
<1>1. PICK S : s.order \in Seq(S)
  BY DEF Sound, IsSeq
<1>2. PICK q \in Seq(S) : q = s.order
  BY <1>1
<1>3. NoRepeat(q) /\ Len(q) <= Capacity /\ ToSet(q) = DOMAIN s.map
  BY <1>2 DEF Sound
<1>4. PICK n \in 0..Len(q) : n = Larger(Len(q) - Capacity + 1, 0)
  <2>1. Capacity \in Nat \ {0} /\ Len(q) \in Nat
    BY CatalogAssumption
  <2>2. \A m \in Nat : m <= Capacity => Larger(m - Capacity + 1, 0) \in 0..m
    BY <2>1 DEF Larger
  <2> QED BY <1>3, <2>1, <2>2
<1>5. ToSet(SubSeq(q, n + 1, Len(q))) \subseteq ToSet(q)
  BY <1>3, KeptOf
<1> QED BY <1>2, <1>3, <1>4, <1>5

(* What is entered in a shard is what is there.                              *)
LEMMA PutFits ==
  ASSUME ShardsSound, BlocksFit, NEW b,
         blocks' = [blocks EXCEPT ![ShardOf(b)] = PutIn(@, b, b)], phase' = phase
  PROVE  BlocksFit'
<1>1. DOMAIN blocks' = DOMAIN blocks
  OBVIOUS
<1>2. ASSUME NEW s \in DOMAIN blocks, NEW x \in DOMAIN blocks'[s].map PROVE blocks'[s].map[x] = x
  <2>1. CASE blocks'[s] = blocks[s]
    BY <1>2, <2>1 DEF BlocksFit
  <2>2. CASE s = ShardOf(b)
    <3>1. PICK old : old = blocks[s]
      OBVIOUS
    <3>2. blocks'[s] = PutIn(old, b, b)
      BY <2>2, <3>1
    <3>3. CASE b \in DOMAIN old.map
      BY <2>1, <3>1, <3>2, <3>3 DEF PutIn
    <3>4. CASE b \notin DOMAIN old.map
      <4>1. PICK kept : kept = SubSeq(old.order, Larger(Len(old.order) - Capacity + 1, 0) + 1, Len(old.order))
        OBVIOUS
      <4>2. blocks'[s].map =
              [o \in DOMAIN Dropped(old.map, kept) \cup {b} |-> IF o = b THEN b ELSE Dropped(old.map, kept)[o]]
        <5>1. PICK map : map = [o \in DOMAIN Dropped(old.map, kept) \cup {b} |->
                                  IF o = b THEN b ELSE Dropped(old.map, kept)[o]]
          OBVIOUS
        <5>2. PutIn(old, b, b) = [map |-> map, order |-> Append(kept, b)]
          BY <3>4, <4>1, <5>1 DEF PutIn
        <5> QED BY <3>2, <5>1, <5>2
      <4>3. CASE x = b
        BY <1>2, <4>2, <4>3
      <4>4. CASE x # b
        <5>1. x \in ToSet(kept)
          BY <1>2, <4>2, <4>4 DEF Dropped
        <5>2. ToSet(kept) \subseteq DOMAIN old.map
          BY <3>1, <4>1, KeptInMap DEF ShardsSound
        <5>3. old.map[x] = x
          BY <3>1, <5>1, <5>2 DEF BlocksFit
        <5>4. Dropped(old.map, kept)[x] = old.map[x] /\ x \in DOMAIN Dropped(old.map, kept)
          BY <5>1 DEF Dropped
        <5> QED BY <4>2, <4>4, <5>3, <5>4
      <4> QED BY <4>3, <4>4
    <3> QED BY <3>3, <3>4
  <2> QED BY <2>1, <2>2
<1> QED BY <1>1, <1>2 DEF BlocksFit

LEMMA ReadStep ==
  ASSUME CatalogInvariant, ShardsSound, NEW t \in Threads, ReadBlock(t)
  PROVE  CatalogInvariant' /\ phase' = "catalog"
<1>0. SUFFICES CatalogInvariant'
  BY DEF ReadBlock, CacheGet, DeviceRead, DeviceFails, CachePut, At, vars
<1>1. PICK r : r = th[t]
  OBVIOUS
<1>2. phase = "catalog" /\ phase' = "catalog" /\ r.pc \in Asks
  BY <1>1 DEF ReadBlock, CacheGet, DeviceRead, DeviceFails, CachePut, At, Asks, vars
<1>3. /\ IsThread(r) /\ AnswerFits(cat, faults, r)
      /\ r.ret \in Returns /\ Later(r) = r.ret /\ Wanted(cat, r) \in DOMAIN cat
  BY <1>1, <1>2 DEF CatalogInvariant, ThreadsFit, AnswerFits, Later
<1>4. /\ UNCHANGED <<cat, entry, items, oids, inodes, extents, batch, phase>> /\ faults \in Nat
      /\ faults' \in Nat /\ faults <= faults'
  BY DEF ReadBlock, CacheGet, DeviceRead, DeviceFails, CachePut, vars, caches, CatalogInvariant
<1>5. ASSUME BlocksFit' PROVE Onward
  <2>1. OidsFit' /\ InodesFit' /\ ExtentsFit'
    BY <1>4 DEF CatalogInvariant, CachesFit, OidsFit, InodesFit, ExtentsFit
  <2> QED BY <1>2, <1>4, <1>5, <2>1 DEF Onward, CachesFit
<1>6. ASSUME BlocksFit', NEW q, th' = [th EXCEPT ![t] = q], q.pc \in Asks \cup Returns,
             q.ret = r.ret, Later(q) = r.ret,
             q.path = r.path, q.oid = r.oid, q.stack = r.stack, IsThread(q),
             q.pc \in {"get", "device"} => q.want = Wanted(cat, r),
             q.pc = "put" => q.answer = Wanted(cat, r),
             q.pc \in Returns => q.answer = Wanted(cat, r) \/ (q.answer = NoAnswer /\ faults' > 0)
      PROVE  CatalogInvariant'
  <2>1. Wanted(cat, q) = Wanted(cat, r)
    BY <1>3, <1>6 DEF Wanted
  <2>2. AnswerFits(cat, faults', q)
    BY <1>3, <1>6, <2>1 DEF AnswerFits
  <2>3. Onward
    BY <1>5, <1>6
  <2>4. Later(q) = Later(th[t])
    BY <1>1, <1>3, <1>6
  <2> QED BY <1>1, <1>2, <1>4, <1>6, <2>2, <2>3, <2>4, ReadOnward
<1>7. ASSUME NEW a PROVE /\ Return(r, a).pc \in Returns /\ Later(Return(r, a)) = r.ret
                         /\ Return(r, a).ret = r.ret /\ Return(r, a).answer = a
                         /\ Return(r, a).path = r.path /\ Return(r, a).oid = r.oid
                         /\ Return(r, a).stack = r.stack /\ IsThread(Return(r, a))
                         /\ Return(r, a).pc \notin Asks
  <2>1. PICK q : q = Return(r, a)
    OBVIOUS
  <2>2. /\ q.pc = r.ret /\ q.ret = r.ret /\ q.answer = a
        /\ q.path = r.path /\ q.oid = r.oid /\ q.stack = r.stack /\ IsThread(q)
    BY <1>3, <2>1, ReturnIs
  <2>3. Later(q) = r.ret /\ q.pc \notin Asks
    BY <1>3, <2>2 DEF Later, Asks, Returns
  <2> QED BY <1>3, <2>1, <2>2, <2>3
<1>8. Returns \cap Asks = {} /\ {"get", "device"} \subseteq Asks /\ "put" \in Asks
  BY DEF Returns, Asks
<1>9. CASE CacheGet(t)
  <2>1. PICK b, s : b = r.want /\ s = blocks[ShardOf(b)] /\ r.pc = "get"
    BY <1>1, <1>9 DEF CacheGet, At
  <2>2. b = Wanted(cat, r) /\ BlocksFit'
    BY <1>3, <1>9, <2>1 DEF AnswerFits, CacheGet, vars, CatalogInvariant, CachesFit, BlocksFit
  <2>3. CASE b \in DOMAIN s.map
    <3>1. th' = [th EXCEPT ![t] = Return(r, s.map[b])]
      BY <1>1, <1>9, <2>1, <2>3 DEF CacheGet
    <3>2. s.map[b] = b
      <4>1. ShardOf(b) \in DOMAIN blocks
        <5>1. b \in Nat
          BY <1>3, <2>2, WhatPathsLeadTo DEF CatalogInvariant
        <5>2. b % Shards \in 0..(Shards - 1)
          BY <5>1, CatalogAssumption
        <5> QED BY <1>2, <5>2 DEF CatalogInvariant, CachesFit, BlocksFit, ShardOf
      <4> QED BY <2>1, <2>3, <4>1 DEF CatalogInvariant, CachesFit, BlocksFit
    <3>3. PICK q : q = Return(r, s.map[b])
      OBVIOUS
    <3> QED BY <1>6, <1>7, <1>8, <2>2, <3>1, <3>2, <3>3
  <2>4. CASE b \notin DOMAIN s.map
    <3>1. PICK q : q = [r EXCEPT !.pc = "device"]
      OBVIOUS
    <3>2. th' = [th EXCEPT ![t] = q]
      BY <1>1, <1>9, <2>1, <2>4, <3>1 DEF CacheGet
    <3>3. /\ q.pc = "device" /\ q.ret = r.ret /\ q.want = r.want
          /\ q.path = r.path /\ q.oid = r.oid /\ q.stack = r.stack /\ IsThread(q)
      BY <1>3, <3>1 DEF IsThread
    <3>4. Later(q) = r.ret
      BY <3>3 DEF Later, Asks
    <3> QED BY <1>6, <1>8, <2>1, <2>2, <3>2, <3>3, <3>4
  <2> QED BY <2>3, <2>4
<1>10. CASE DeviceRead(t)
  <2>1. PICK b, l : b = r.want /\ l = Smaller(b + Ahead - 1, Len(cat)) /\ r.pc = "device"
    BY <1>1, <1>10 DEF DeviceRead, At
  <2>2. b = Wanted(cat, r) /\ BlocksFit'
    BY <1>3, <1>10, <2>1 DEF AnswerFits, DeviceRead, vars, CatalogInvariant, CachesFit, BlocksFit
  <2>3. PICK q : q = Fetched(r, b, l)
    OBVIOUS
  <2>4. th' = [th EXCEPT ![t] = q]
    BY <1>1, <1>10, <2>1, <2>3 DEF DeviceRead, Fetched
  <2>5. /\ q.pc = "put" /\ q.ret = r.ret /\ q.answer = b
        /\ q.path = r.path /\ q.oid = r.oid /\ q.stack = r.stack /\ IsThread(q)
    BY <1>3, <2>3, FetchedIs
  <2>6. Later(q) = r.ret
    BY <2>5 DEF Later, Asks
  <2> QED BY <1>6, <1>8, <2>2, <2>4, <2>5, <2>6
<1>11. CASE DeviceFails(t)
  <2>1. PICK q : q = Return(r, NoAnswer)
    OBVIOUS
  <2>2. th' = [th EXCEPT ![t] = q] /\ faults' > 0 /\ BlocksFit'
    BY <1>1, <1>4, <1>11, <2>1 DEF DeviceFails, vars, CatalogInvariant, CachesFit, BlocksFit
  <2> QED BY <1>6, <1>7, <1>8, <2>1, <2>2
<1>12. CASE CachePut(t)
  <2>1. PICK b : b = r.want /\ r.pc = "put"
    BY <1>1, <1>12 DEF CachePut, At
  <2>2. r.answer = Wanted(cat, r) /\ BlocksFit'
    <3>1. BlocksFit /\ blocks' = [blocks EXCEPT ![ShardOf(b)] = PutIn(@, b, b)] /\ phase' = phase
      BY <1>1, <1>12, <2>1 DEF CachePut, vars, CatalogInvariant, CachesFit
    <3> QED BY <1>3, <2>1, <3>1, PutFits DEF AnswerFits
  <2>3. CASE b = r.last
    <3>1. PICK q : q = Return(r, r.answer)
      OBVIOUS
    <3>2. th' = [th EXCEPT ![t] = q]
      BY <1>1, <1>12, <2>1, <2>3, <3>1 DEF CachePut
    <3> QED BY <1>6, <1>7, <1>8, <2>2, <3>1, <3>2
  <2>4. CASE b # r.last
    <3>1. PICK q : q = [r EXCEPT !.want = b + 1]
      OBVIOUS
    <3>2. th' = [th EXCEPT ![t] = q]
      BY <1>1, <1>12, <2>1, <2>4, <3>1 DEF CachePut
    <3>3. /\ q.pc = "put" /\ q.ret = r.ret /\ q.answer = r.answer
          /\ q.path = r.path /\ q.oid = r.oid /\ q.stack = r.stack /\ IsThread(q)
      BY <1>3, <2>1, <3>1 DEF IsThread
    <3>4. Later(q) = r.ret
      BY <3>3 DEF Later, Asks
    <3> QED BY <1>6, <1>8, <2>2, <3>2, <3>3, <3>4
  <2> QED BY <2>3, <2>4
<1> QED BY <1>9, <1>10, <1>11, <1>12 DEF ReadBlock

-----------------------------------------------------------------------------
(* The caches are in order where nothing is entered, or only paths that are. *)
LEMMA NothingEntered ==
  ASSUME CatalogInvariant, phase = "catalog", phase' = "catalog",
         UNCHANGED <<cat, oids, inodes, extents, batch, blocks, items, faults>>
  PROVE  Onward
<1>1. OidsFit' /\ InodesFit' /\ ExtentsFit' /\ BlocksFit'
  BY DEF CatalogInvariant, CachesFit, OidsFit, InodesFit, ExtentsFit, BlocksFit
<1> QED BY <1>1 DEF Onward, CatalogInvariant, CachesFit

LEMMA PathsEntered ==
  ASSUME CatalogInvariant, phase = "catalog", phase' = "catalog",
         UNCHANGED <<cat, inodes, extents, batch, blocks, items, faults>>,
         NEW new, oids' = Over(new, oids),
         \A p \in DOMAIN new : IsPath(p) /\ new[p] = OidIn(cat, p) /\ new[p] # 0
  PROVE  Onward /\ DOMAIN new \subseteq DOMAIN oids'
<1>1. InodesFit' /\ ExtentsFit' /\ BlocksFit'
  BY DEF CatalogInvariant, CachesFit, InodesFit, ExtentsFit, BlocksFit
<1>2. OidsFit' /\ DOMAIN oids \subseteq DOMAIN oids' /\ DOMAIN new \subseteq DOMAIN oids'
  BY EnteredFits DEF CatalogInvariant, CachesFit
<1> QED BY <1>1, <1>2 DEF Onward, CatalogInvariant, CachesFit

LEMMA PathEntered ==
  ASSUME CatalogInvariant, phase = "catalog", phase' = "catalog",
         UNCHANGED <<cat, inodes, extents, batch, blocks, items, faults>>,
         NEW p, NEW o, oids' = Entered(p, o, oids), IsPath(p), o = OidIn(cat, p), o # 0
  PROVE  Onward
<1>1. PICK new : new = [x \in {p} |-> o]
  OBVIOUS
<1>2. \A x \in DOMAIN new : IsPath(x) /\ new[x] = OidIn(cat, x) /\ new[x] # 0
  BY <1>1
<1>3. oids' = Over(new, oids)
  BY <1>1 DEF Entered
<1> QED BY <1>2, <1>3, PathsEntered

(* A thread that asks for what it wants next.                                *)
LEMMA AskingFits ==
  ASSUME NEW c, NEW n, NEW r, IsThread(r), NEW o, NEW ret \in Returns,
         NEW q, q = Asking(r, o, ret), o = Wanted(c, q), o \in DOMAIN c
  PROVE  AnswerFits(c, n, q) /\ IsThread(q) /\ Later(q) = ret /\ q.pc = "get"
         /\ q.path = r.path /\ q.oid = r.oid /\ q.stack = r.stack
<1>1. /\ IsThread(q) /\ q.pc = "get" /\ q.ret = ret /\ q.want = o
      /\ q.path = r.path /\ q.oid = r.oid /\ q.stack = r.stack
  BY AskingIs
<1>2. "get" \in Asks /\ "get" \notin Returns
  BY DEF Asks, Returns
<1>3. Later(q) = ret
  BY <1>1, <1>2 DEF Later
<1> QED BY <1>1, <1>2, <1>3 DEF AnswerFits

(* One that asks for nothing is answered nothing.                            *)
LEMMA UnaskedFits ==
  ASSUME NEW c, NEW n, NEW q, q.pc \notin Asks, q.pc \notin Returns
  PROVE  AnswerFits(c, n, q) /\ Later(q) = q.pc
BY DEF AnswerFits, Later, Asks, Returns

(* resolve_oid lists the directory it has found.                             *)
LEMMA ListedNext ==
  ASSUME NEW c, NEW n, NEW known, NEW r, IsThread(r), NEW o, o \in DOMAIN c, r.oid = o,
         IsPath(r.path), o = OidIn(c, Parent(r.path)), NEW q, q = Asking(r, o, "listed")
  PROVE  /\ AnswerFits(c, n, q) /\ ResolveFits(c, known, q) /\ IsThread(q)
         /\ Later(q) \in Resolves /\ q.path = r.path /\ q.stack = r.stack
<1>1. q.oid = o /\ q.path = r.path /\ q.pc = "get" /\ q.ret = "listed"
  BY AskingIs
<1>2. Later(q) = "listed"
  BY <1>1 DEF Later, Asks
<1>3. Wanted(c, q) = o
  BY <1>1, <1>2 DEF Wanted
<1>4. "listed" \in Returns
  BY DEF Returns
<1>5. AnswerFits(c, n, q) /\ IsThread(q) /\ q.stack = r.stack
  BY <1>3, <1>4, AskingFits
<1>6. ResolveFits(c, known, q)
  BY <1>1, <1>2 DEF ResolveFits
<1>7. Later(q) \in Resolves
  BY <1>2 DEF Resolves
<1> QED BY <1>1, <1>5, <1>6, <1>7

(* resolve_oid ends in the oid of the path or in an error.                   *)
LEMMA ResolveStep ==
  ASSUME CatalogInvariant, NEW t \in Threads, Resolve(t)
  PROVE  CatalogInvariant' /\ phase' = "catalog"
<1>0. SUFFICES CatalogInvariant'
  BY DEF Resolve, DirectHit, ParentHit, ParentOpened, ParentListed, LookedUp, At, vars
<1>1. PICK r : r = th[t]
  OBVIOUS
<1>2. /\ phase = "catalog" /\ phase' = "catalog" /\ r.pc \in {"direct", "parent", "opened", "listed", "again"}
      /\ UNCHANGED <<cat, entry, items, inodes, extents, batch, blocks, faults>>
  BY <1>1 DEF Resolve, DirectHit, ParentHit, ParentOpened, ParentListed, LookedUp, At, vars, caches
<1>3. /\ IsThread(r) /\ AnswerFits(cat, faults, r) /\ ResolveFits(cat, DOMAIN oids, r)
      /\ IsCatalog(cat) /\ OidsFit /\ faults' = faults
  BY <1>1, <1>2 DEF CatalogInvariant, ThreadsFit, CachesFit
<1>4. Later(r) = r.pc /\ r.pc # "done" /\ r.pc # "resolved" /\ r.pc # "idle"
  BY <1>2 DEF Later, Asks
<1>5. PICK p, dir : p = r.path /\ dir = Parent(p)
  OBVIOUS
<1>6. IsPath(p) /\ IsPath(dir)
  BY <1>3, <1>5, PathParts DEF ResolveFits
<1>7. ASSUME NEW q, th' = [th EXCEPT ![t] = q], IsThread(q), q.path = p, q.stack = r.stack,
             Later(q) \in Resolves, t \in Walkers, Onward,
             AnswerFits(cat, faults', q), ResolveFits(cat, DOMAIN oids', q)
      PROVE  CatalogInvariant'
  <2>1. WalkerFits(cat, r)
    BY <1>1, <1>2, <1>7 DEF CatalogInvariant, WalkersFit
  <2>2. Later(q) # "dirListed"
    BY <1>7 DEF Resolves
  <2>3. WalkerFits(cat, q)
    BY <1>7, <2>1, <2>2 DEF WalkerFits
  <2> QED BY <1>1, <1>2, <1>4, <1>7, <2>3, WalkerMoves
<1>8. t = Reader => r.pc = "direct"
  BY <1>1, <1>2, <1>4 DEF CatalogInvariant, ReaderFit, ReaderFits
<1>9. ASSUME NEW o, th' = [th EXCEPT ![t] = Resolved(r, o)], t \in Walkers, Onward,
             o = 0 \/ (p \in DOMAIN oids' /\ o = OidIn(cat, p))
      PROVE  CatalogInvariant'
  <2>1. PICK q : q = Resolved(r, o)
    OBVIOUS
  <2>2. q.pc = "resolved" /\ q.path = p /\ q.oid = o /\ q.stack = r.stack /\ IsThread(q)
    BY <1>3, <1>5, <2>1, ResolvedIs
  <2>3. AnswerFits(cat, faults', q) /\ Later(q) = "resolved"
    BY <2>2, UnaskedFits DEF Asks, Returns
  <2>4. ResolveFits(cat, DOMAIN oids', q)
    BY <1>6, <1>9, <2>2, <2>3 DEF ResolveFits
  <2>5. Later(q) \in Resolves
    BY <2>3 DEF Resolves
  <2> QED BY <1>7, <1>9, <2>1, <2>2, <2>3, <2>4, <2>5
<1>10. CASE DirectHit(t)
  <2>1. Onward /\ oids' = oids
    BY <1>2, <1>10, NothingEntered DEF DirectHit, caches
  <2>2. CASE p \in DOMAIN oids /\ t \in Walkers
    <3>1. th' = [th EXCEPT ![t] = Resolved(r, oids[p])]
      BY <1>1, <1>5, <1>10, <2>2 DEF DirectHit
    <3>2. oids[p] = OidIn(cat, p)
      BY <1>3, <2>2 DEF OidsFit
    <3> QED BY <1>9, <2>1, <2>2, <3>1, <3>2
  <2>3. CASE p \notin DOMAIN oids /\ t \in Walkers
    <3>1. PICK q : q = [r EXCEPT !.pc = "parent"]
      OBVIOUS
    <3>2. th' = [th EXCEPT ![t] = q]
      BY <1>1, <1>5, <1>10, <2>3, <3>1 DEF DirectHit
    <3>3. q.pc = "parent" /\ q.path = p /\ q.stack = r.stack /\ IsThread(q)
      BY <1>3, <1>5, <3>1 DEF IsThread
    <3>4. AnswerFits(cat, faults', q) /\ Later(q) = "parent"
      BY <3>3, UnaskedFits DEF Asks, Returns
    <3>5. ResolveFits(cat, DOMAIN oids', q) /\ Later(q) \in Resolves
      BY <1>6, <3>3, <3>4 DEF ResolveFits, Resolves
    <3> QED BY <1>7, <2>1, <2>3, <3>2, <3>3, <3>4, <3>5
  <2>4. CASE t = Reader
    <3>1. /\ ReaderFits(cat, faults, items, DOMAIN inodes, r) /\ Later(r) = "direct"
          /\ Later(th[Reader]) # "idle"
      BY <1>1, <1>2, <1>4, <1>8, <2>4 DEF CatalogInvariant, ReaderFit
    <3>2. p \in DOMAIN oids
      <4>1. PICK S : S = DOMAIN oids /\ items \in Seq(S)
        BY <1>3 DEF OidsFit
      <4>2. Len(items) \in Nat /\ NumFiles \in Nat /\ \A i \in 1..Len(items) : items[i] \in S
        BY <4>1, WindowAssumption
      <4>3. PICK n \in Nat : n = Len(r.stack)
        BY <3>1 DEF ReaderFits
      <4>4. n < WindowOf(items) /\ p = items[n + 1]
        BY <1>5, <3>1, <4>3 DEF ReaderFits
      <4>5. n + 1 \in 1..Len(items)
        BY <4>2, <4>4 DEF WindowOf, Smaller
      <4> QED BY <4>1, <4>2, <4>4, <4>5
    <3>3. PICK o : o = oids[p]
      OBVIOUS
    <3>4. o = OidIn(cat, p) /\ o # 0
      BY <1>3, <3>2, <3>3 DEF OidsFit
    <3>5. PICK q : q = Resolved(r, o)
      OBVIOUS
    <3>6. th' = [th EXCEPT ![Reader] = q]
      BY <1>1, <1>5, <1>10, <2>4, <3>2, <3>3, <3>5 DEF DirectHit
    <3>7. q.pc = "resolved" /\ q.path = p /\ q.oid = o /\ q.stack = r.stack /\ IsThread(q)
      BY <1>3, <1>5, <3>5, ResolvedIs
    <3>8. AnswerFits(cat, faults', q) /\ Later(q) = "resolved"
      BY <3>7, UnaskedFits DEF Asks, Returns
    <3>9. ResolveFits(cat, DOMAIN oids', q)
      BY <1>6, <2>1, <3>2, <3>4, <3>7, <3>8 DEF ResolveFits
    <3>10. ReaderFits(cat, faults', items, DOMAIN inodes', q)
      BY <1>2, <1>3, <1>5, <3>1, <3>4, <3>7, <3>8 DEF ReaderFits
    <3>11. EntriesTyped'
      BY <1>2 DEF CatalogInvariant, EntriesTyped
    <3> QED BY <1>2, <2>1, <3>1, <3>6, <3>7, <3>8, <3>9, <3>10, <3>11, ReaderMoves
  <2> QED BY <2>2, <2>3, <2>4 DEF Threads
<1>11. CASE ParentHit(t)
  <2>1. Onward /\ oids' = oids /\ r.pc = "parent" /\ t \in Walkers
    BY <1>1, <1>2, <1>8, <1>11, NothingEntered DEF ParentHit, caches, At, Threads
  <2>2. CASE dir \in DOMAIN oids
    <3>1. PICK o : o = oids[dir]
      OBVIOUS
    <3>2. o = OidIn(cat, dir) /\ o \in DOMAIN cat
      <4>1. o = OidIn(cat, dir) /\ o # 0
        BY <1>3, <2>2, <3>1 DEF OidsFit
      <4>2. OidIn(cat, dir) \in DOMAIN cat \cup {0}
        BY <1>3, <1>6, WhatPathsLeadTo
      <4> QED BY <4>1, <4>2
    <3>3. PICK s : s = [r EXCEPT !.oid = o]
      OBVIOUS
    <3>4. s.oid = o /\ s.path = p /\ s.stack = r.stack /\ IsThread(s)
      BY <1>3, <1>5, <3>3 DEF IsThread
    <3>5. PICK q : q = Asking(s, o, "listed")
      OBVIOUS
    <3>6. th' = [th EXCEPT ![t] = q]
      BY <1>1, <1>5, <1>11, <2>2, <3>1, <3>3, <3>5 DEF ParentHit
    <3>7. IsPath(s.path) /\ o = OidIn(cat, Parent(s.path))
      BY <1>5, <1>6, <3>2, <3>4
    <3>8. /\ AnswerFits(cat, faults', q) /\ ResolveFits(cat, DOMAIN oids', q) /\ IsThread(q)
          /\ Later(q) \in Resolves /\ q.path = p /\ q.stack = r.stack
      BY <3>2, <3>4, <3>5, <3>7, ListedNext
    <3> QED BY <1>7, <2>1, <3>6, <3>8
  <2>3. CASE dir \notin DOMAIN oids
    <3>1. PICK o : o = OpeningBlock(dir)
      OBVIOUS
    <3>2. o = OpeningIn(cat, dir) /\ o \in DOMAIN cat
      BY <1>3, <1>6, <3>1, OpeningIsKnown DEF OpeningBlock, OpeningIn, OidAt
    <3>3. PICK q : q = Asking(r, o, "opened")
      OBVIOUS
    <3>4. th' = [th EXCEPT ![t] = q]
      BY <1>1, <1>5, <1>11, <2>3, <3>1, <3>3 DEF ParentHit
    <3>5. /\ AnswerFits(cat, faults', q) /\ IsThread(q) /\ Later(q) = "opened"
          /\ q.pc = "get" /\ q.path = p /\ q.stack = r.stack
      <4>1. q.path = p /\ q.pc = "get" /\ q.ret = "opened"
        BY <1>3, <1>5, <3>3, AskingIs
      <4>2. Wanted(cat, q) = OpeningIn(cat, dir)
        BY <1>5, <4>1 DEF Wanted, Later, Asks
      <4>3. "opened" \in Returns
        BY DEF Returns
      <4> QED BY <1>3, <1>5, <3>2, <3>3, <4>2, <4>3, AskingFits
    <3>6. ResolveFits(cat, DOMAIN oids', q) /\ Later(q) \in Resolves
      BY <1>6, <3>5 DEF ResolveFits, Resolves
    <3> QED BY <1>7, <2>1, <3>4, <3>5, <3>6
  <2> QED BY <2>2, <2>3
<1>12. CASE ParentOpened(t)
  <2>1. r.pc = "opened" /\ t \in Walkers
    BY <1>1, <1>8, <1>12 DEF ParentOpened, At, Threads
  <2>2. th[t].answer = OpeningIn(cat, dir) \/ th[t].answer = NoAnswer
    <3>1. Wanted(cat, r) = OpeningIn(cat, dir)
      BY <1>4, <1>5, <2>1 DEF Wanted
    <3> QED BY <1>1, <1>3, <2>1, <3>1 DEF AnswerFits, Returns
  <2>3. PICK o : o = Opened(t, dir)
    OBVIOUS
  <2>4. o = 0 \/ (o = OidIn(cat, dir) /\ o \in DOMAIN cat)
    BY <1>3, <1>6, <2>2, <2>3, OpenedIs
  <2>5. CASE o = 0
    <3>1. th' = [th EXCEPT ![t] = Resolved(r, 0)] /\ oids' = oids
      BY <1>1, <1>5, <1>12, <2>3, <2>5 DEF ParentOpened
    <3> QED BY <1>2, <1>9, <2>1, <3>1, NothingEntered
  <2>6. CASE o # 0
    <3>1. PICK s : s = [r EXCEPT !.oid = o]
      OBVIOUS
    <3>2. s.oid = o /\ s.path = p /\ s.stack = r.stack /\ IsThread(s)
      BY <1>3, <1>5, <3>1 DEF IsThread
    <3>3. PICK q : q = Asking(s, o, "listed")
      OBVIOUS
    <3>4. th' = [th EXCEPT ![t] = q] /\ oids' = Entered(dir, o, oids)
      BY <1>1, <1>5, <1>12, <2>3, <2>6, <3>1, <3>3 DEF ParentOpened
    <3>5. Onward
      BY <1>2, <1>6, <2>4, <2>6, <3>4, PathEntered
    <3>6. IsPath(s.path) /\ o = OidIn(cat, Parent(s.path)) /\ o \in DOMAIN cat
      BY <1>5, <1>6, <2>4, <2>6, <3>2
    <3>7. /\ AnswerFits(cat, faults', q) /\ ResolveFits(cat, DOMAIN oids', q) /\ IsThread(q)
          /\ Later(q) \in Resolves /\ q.path = p /\ q.stack = r.stack
      BY <3>2, <3>3, <3>6, ListedNext
    <3> QED BY <1>7, <2>1, <3>4, <3>5, <3>7
  <2> QED BY <2>5, <2>6
<1>13. CASE ParentListed(t)
  <2>1. r.pc = "listed" /\ t \in Walkers
    BY <1>1, <1>8, <1>13 DEF ParentListed, At, Threads
  <2>2. r.answer = NoAnswer \/ r.answer = OidIn(cat, dir)
    <3>1. Wanted(cat, r) = r.oid /\ r.oid = OidIn(cat, dir)
      BY <1>3, <1>4, <1>5, <2>1 DEF Wanted, ResolveFits
    <3> QED BY <1>3, <2>1, <3>1 DEF AnswerFits, Returns
  <2>3. CASE r.answer = NoAnswer
    <3>1. th' = [th EXCEPT ![t] = Resolved(r, 0)] /\ oids' = oids
      BY <1>1, <1>13, <2>3 DEF ParentListed, Answered
    <3> QED BY <1>2, <1>9, <2>1, <3>1, NothingEntered
  <2>4. CASE r.answer # NoAnswer
    <3>1. PICK q, a, new : q = [r EXCEPT !.pc = "again"] /\ a = r.answer /\ new = Listing(dir, a)
      OBVIOUS
    <3>2. th' = [th EXCEPT ![t] = q] /\ oids' = Over(new, oids)
      BY <1>1, <1>5, <1>13, <2>4, <3>1 DEF ParentListed, Answered
    <3>3. Onward
      <4>1. \A x \in DOMAIN new : IsPath(x) /\ new[x] = OidIn(cat, x) /\ new[x] # 0
        BY <1>3, <1>6, <2>2, <2>4, <3>1, ListingFits
      <4> QED BY <1>2, <3>2, <4>1, PathsEntered
    <3>4. q.pc = "again" /\ q.path = p /\ q.stack = r.stack /\ IsThread(q)
      BY <1>3, <1>5, <3>1 DEF IsThread
    <3>5. AnswerFits(cat, faults', q) /\ Later(q) = "again"
      BY <3>4, UnaskedFits DEF Asks, Returns
    <3>6. ResolveFits(cat, DOMAIN oids', q) /\ Later(q) \in Resolves
      BY <1>6, <3>4, <3>5 DEF ResolveFits, Resolves
    <3> QED BY <1>7, <2>1, <3>2, <3>3, <3>4, <3>5, <3>6
  <2> QED BY <2>3, <2>4
<1>14. CASE LookedUp(t)
  <2>1. Onward /\ oids' = oids /\ t \in Walkers
    BY <1>1, <1>2, <1>8, <1>14, NothingEntered DEF LookedUp, caches, At, Threads
  <2>2. PICK o : o = IF p \in DOMAIN oids THEN oids[p] ELSE 0
    OBVIOUS
  <2>3. th' = [th EXCEPT ![t] = Resolved(r, o)]
    BY <1>1, <1>5, <1>14, <2>2 DEF LookedUp
  <2>4. o = 0 \/ (p \in DOMAIN oids' /\ o = OidIn(cat, p))
    BY <1>3, <2>1, <2>2 DEF OidsFit
  <2> QED BY <1>9, <2>1, <2>3, <2>4
<1> QED BY <1>10, <1>11, <1>12, <1>13, <1>14 DEF Resolve

-----------------------------------------------------------------------------
(* Inodes that are entered are those of the volume, whichever replace which. *)
LEMMA InodesEntered ==
  ASSUME NEW c, NEW new, NEW old,
         \A o \in DOMAIN new : o \in DOMAIN c /\ new[o] = InodeIn(c, o),
         \A o \in DOMAIN old : o \in DOMAIN c /\ old[o] = InodeIn(c, o)
  PROVE  /\ \A o \in DOMAIN Over(new, old) : o \in DOMAIN c /\ Over(new, old)[o] = InodeIn(c, o)
         /\ DOMAIN old \subseteq DOMAIN Over(new, old) /\ DOMAIN new \subseteq DOMAIN Over(new, old)
<1>1. DOMAIN Over(new, old) = DOMAIN new \cup DOMAIN old
  BY OverHas
<1>2. ASSUME NEW o \in DOMAIN Over(new, old)
      PROVE  o \in DOMAIN c /\ Over(new, old)[o] = InodeIn(c, o)
  <2>1. \/ o \in DOMAIN new /\ Over(new, old)[o] = new[o]
        \/ o \notin DOMAIN new /\ o \in DOMAIN old /\ Over(new, old)[o] = old[o]
    BY OverHas
  <2> QED BY <2>1
<1> QED BY <1>1, <1>2

LEMMA InodesFound ==
  ASSUME NEW os
  PROVE  \A o \in DOMAIN InodesInRange(os) : o \in DOMAIN cat /\ InodesInRange(os)[o] = InodeIn(cat, o)
BY DEF InodesInRange

(* A directory has finitely many names.                                      *)
LEMMA NamesAreFinite ==
  ASSUME IsCatalog(cat), NEW a
  PROVE  IsFiniteSet(DOMAIN NamesIn(cat, a))
<1>1. CASE a \in DOMAIN cat /\ IsDir(cat, a)
  <2>1. NamesIn(cat, a) = cat[a].names
    BY <1>1 DEF NamesIn
  <2> QED BY <1>1, <2>1 DEF IsCatalog, IsDir
<1>2. CASE ~ (a \in DOMAIN cat /\ IsDir(cat, a))
  <2>1. NamesIn(cat, a) = <<>>
    BY <1>2 DEF NamesIn
  <2>2. DOMAIN NamesIn(cat, a) = {}
    BY <2>1
  <2> QED BY <2>2, FS_EmptySet
<1> QED BY <1>1, <1>2

(* The top of a stack of directories, and what is below it.                  *)
LEMMA HeadFits ==
  ASSUME NEW c, NEW s, s \in Seq(Range(s)), s # <<>>, \A i \in DOMAIN s : DirFits(c, s[i])
  PROVE  DirFits(c, Head(s)) /\ Tail(s) \in Seq(Range(s)) /\ \A d \in Range(s) : DirFits(c, d)
<1>1. \A d \in Range(s) : DirFits(c, d)
  BY DEF Range
<1>2. PICK S : S = Range(s)
  OBVIOUS
<1>3. s \in Seq(S)
  BY <1>2
<1>4. Head(s) \in S /\ Tail(s) \in Seq(S)
  BY <1>3, HeadTailProperties
<1> QED BY <1>1, <1>2, <1>4

(* Files are sent and subdirectories put on the stack under paths that lead  *)
(* to them.                                                                  *)
LEMMA DirListedStep ==
  ASSUME CatalogInvariant, NEW t \in Walkers, DirListed(t)
  PROVE  CatalogInvariant'
<1>1. PICK r : r = th[t]
  OBVIOUS
<1>2. /\ phase = "catalog" /\ phase' = "catalog" /\ r.pc = "dirListed" /\ r.answer # NoAnswer
      /\ UNCHANGED <<cat, entry, extents, batch, blocks, faults>>
  BY <1>1 DEF DirListed, At, Answered, vars
<1>3. Later(r) = "dirListed"
  BY <1>2 DEF Later, Asks
<1>4. /\ IsThread(r) /\ AnswerFits(cat, faults, r) /\ ResolveFits(cat, DOMAIN oids, r)
      /\ IsCatalog(cat) /\ OidsFit /\ faults' = faults /\ InodesFit /\ t \in Threads
  BY <1>1, <1>2 DEF CatalogInvariant, ThreadsFit, CachesFit, Threads
<1>5. WalkerFits(cat, r) /\ r.stack # <<>>
  BY <1>1, <1>2, <1>3 DEF CatalogInvariant, WalkersFit, WalkerFits
<1>6. PICK dir, a, names : dir = Head(r.stack) /\ a = r.answer /\ names = NamesIn(cat, a)
  OBVIOUS
<1>7. DirFits(cat, dir) /\ Tail(r.stack) \in Seq(Range(r.stack)) /\ \A d \in Range(r.stack) : DirFits(cat, d)
  BY <1>5, <1>6, HeadFits DEF WalkerFits
<1>8. a = OidIn(cat, dir.path) /\ a \in DOMAIN cat /\ IsPath(dir.path)
  <2>1. Wanted(cat, r) = dir.oid
    BY <1>3, <1>6 DEF Wanted
  <2>2. a = dir.oid
    BY <1>2, <1>4, <1>6, <2>1 DEF AnswerFits, Returns
  <2> QED BY <1>7, <2>2 DEF DirFits
<1>9. PICK F, D, files, paths, subdirs :
        /\ F = {m \in DOMAIN names : IsDir(cat, names[m]) = FALSE}
        /\ D = {m \in DOMAIN names : IsDir(cat, names[m]) = TRUE}
        /\ files = {names[n] : n \in F}
        /\ paths = {ChildPath(dir.path, n) : n \in F}
        /\ subdirs = {[path |-> ChildPath(dir.path, n), oid |-> names[n]] : n \in D}
  OBVIOUS
<1>10. /\ oids' = Over(Listing(dir.path, a), oids)
       /\ inodes' = Over(InodesInRange(files), inodes) \/ inodes' = inodes
       /\ items' = items \o SetToSeq(paths)
       /\ th' = [th EXCEPT ![t] = WithStack(r, "dir", Descend(subdirs, r.stack))]
  BY <1>1, <1>6, <1>9 DEF DirListed, WithStack
<1>11. /\ \A n \in DOMAIN names :
            /\ IsPath(ChildPath(dir.path, n)) /\ names[n] = OidIn(cat, ChildPath(dir.path, n))
            /\ names[n] \in DOMAIN cat /\ ChildPath(dir.path, n) \in DOMAIN Listing(dir.path, a)
       /\ \A p \in DOMAIN Listing(dir.path, a) :
            IsPath(p) /\ Listing(dir.path, a)[p] = OidIn(cat, p) /\ Listing(dir.path, a)[p] # 0
  BY <1>4, <1>6, <1>8, ListingFits
<1>12. OidsFit' /\ DOMAIN oids \subseteq DOMAIN oids'
  <2>1. PICK new : new = Listing(dir.path, a)
    OBVIOUS
  <2>2. \A p \in DOMAIN new : IsPath(p) /\ new[p] = OidIn(cat, p) /\ new[p] # 0
    BY <1>11, <2>1
  <2>3. DOMAIN oids' = DOMAIN new \cup DOMAIN oids
    BY <1>10, <2>1, OverHas
  <2>4. \A p \in DOMAIN oids' : IsPath(p) /\ oids'[p] = OidIn(cat, p) /\ oids'[p] # 0
    <3>1. PICK after : after = oids' /\ after = Over(new, oids)
      BY <1>10, <2>1
    <3>2. \A x \in DOMAIN after :
            \/ x \in DOMAIN new /\ after[x] = new[x]
            \/ x \notin DOMAIN new /\ x \in DOMAIN oids /\ after[x] = oids[x]
      <4>1. \A x \in DOMAIN Over(new, oids) :
              \/ x \in DOMAIN new /\ Over(new, oids)[x] = new[x]
              \/ x \notin DOMAIN new /\ x \in DOMAIN oids /\ Over(new, oids)[x] = oids[x]
        BY OverHas
      <4> QED BY <3>1, <4>1
    <3>3. \A p \in DOMAIN after : IsPath(p) /\ after[p] = OidIn(cat, p) /\ after[p] # 0
      BY <1>4, <2>2, <3>2 DEF OidsFit
    <3> QED BY <3>1, <3>3
  <2>5. items' \in Seq(DOMAIN oids')
    <3>1. PICK S : S = DOMAIN oids'
      OBVIOUS
    <3>2. paths \subseteq S
      BY <1>9, <1>11, <2>1, <2>3, <3>1
    <3>3. SetToSeq(paths) \in Seq(S)
      <4>1. IsFiniteSet(paths)
        <5>1. PICK f : f = [n \in F |-> ChildPath(dir.path, n)]
          OBVIOUS
        <5>2. paths = {f[n] : n \in F}
          BY <1>9, <5>1
        <5>3. IsFiniteSet(F)
          BY <1>4, <1>6, <1>9, NamesAreFinite, FS_Subset
        <5> QED BY <5>2, <5>3, ImageIsFinite
      <4>2. SetToSeq(paths) \in Seq(paths)
        BY <4>1, SetToSeqHasAll
      <4> QED BY <3>2, <4>2
    <3>4. items \in Seq(S)
      <4>1. PICK T : T = DOMAIN oids /\ T \subseteq S
        BY <2>3, <3>1
      <4>2. items \in Seq(T)
        BY <1>4, <4>1 DEF OidsFit
      <4> QED BY <4>1, <4>2
    <3>5. items \o SetToSeq(paths) \in Seq(S)
      BY <3>3, <3>4, ConcatProperties
    <3> QED BY <1>10, <3>1, <3>5
  <2> QED BY <1>2, <2>3, <2>4, <2>5 DEF OidsFit
<1>13. InodesFit'
  <2>1. \A o \in DOMAIN inodes : o \in DOMAIN cat /\ inodes[o] = InodeIn(cat, o)
    BY <1>4 DEF InodesFit
  <2>2. PICK after : after = inodes'
    OBVIOUS
  <2>3. \A o \in DOMAIN after : o \in DOMAIN cat /\ after[o] = InodeIn(cat, o)
    <3>1. PICK new : new = InodesInRange(files)
      OBVIOUS
    <3>2. \A o \in DOMAIN new : o \in DOMAIN cat /\ new[o] = InodeIn(cat, o)
      BY <3>1, InodesFound
    <3>3. \A o \in DOMAIN Over(new, inodes) : o \in DOMAIN cat /\ Over(new, inodes)[o] = InodeIn(cat, o)
      BY <2>1, <3>2, InodesEntered
    <3> QED BY <1>10, <2>1, <2>2, <3>1, <3>3
  <2> QED BY <1>2, <2>2, <2>3 DEF InodesFit
<1>14. Onward
  <2>1. ExtentsFit' /\ BlocksFit'
    BY <1>2 DEF CatalogInvariant, CachesFit, ExtentsFit, BlocksFit
  <2> QED BY <1>2, <1>4, <1>12, <1>13, <2>1 DEF Onward, CatalogInvariant, CachesFit
<1>15. PICK stack : stack = Descend(subdirs, r.stack)
  OBVIOUS
<1>16. stack \in Seq(Range(stack)) /\ \A i \in DOMAIN stack : DirFits(cat, stack[i])
  <2>1. PICK T : T = subdirs \cup Range(r.stack)
    OBVIOUS
  <2>2. \A d \in T : DirFits(cat, d)
    <3>1. ASSUME NEW d \in subdirs PROVE DirFits(cat, d)
      <4>1. PICK n \in DOMAIN names : /\ d = [path |-> ChildPath(dir.path, n), oid |-> names[n]]
                                      /\ IsDir(cat, names[n])
        BY <1>9
      <4> QED BY <1>11, <4>1 DEF DirFits
    <3> QED BY <1>7, <2>1, <3>1
  <2>3. SetToSeq(subdirs) \in Seq(T)
    <3>1. IsFiniteSet(subdirs)
      <4>1. PICK f : f = [n \in D |-> [path |-> ChildPath(dir.path, n), oid |-> names[n]]]
        OBVIOUS
      <4>2. subdirs = {f[n] : n \in D}
        BY <1>9, <4>1
      <4>3. IsFiniteSet(D)
        BY <1>4, <1>6, <1>9, NamesAreFinite, FS_Subset
      <4> QED BY <4>2, <4>3, ImageIsFinite
    <3>2. SetToSeq(subdirs) \in Seq(subdirs)
      BY <3>1, SetToSeqHasAll
    <3> QED BY <2>1, <3>2
  <2>4. Tail(r.stack) \in Seq(T)
    <3>1. PICK R : R = Range(r.stack) /\ R \subseteq T
      BY <2>1
    <3>2. PICK below \in Seq(R) : below = Tail(r.stack)
      BY <1>7, <3>1
    <3>3. below \in Seq(T)
      BY <3>1
    <3> QED BY <3>2, <3>3
  <2>5. stack \in Seq(T)
    BY <1>15, <2>3, <2>4, ConcatProperties DEF Descend
  <2>6. \A i \in DOMAIN stack : stack[i] \in T
    BY <2>5
  <2> QED BY <2>2, <2>5, <2>6, InRange
<1>17. PICK q : q = WithStack(r, "dir", stack)
  OBVIOUS
<1>18. q.pc = "dir" /\ q.path = r.path /\ q.stack = stack /\ IsThread(q)
  BY <1>4, <1>17, WithStackIs
<1>19. AnswerFits(cat, faults', q) /\ Later(q) = "dir"
  BY <1>18, UnaskedFits DEF Asks, Returns
<1>20. ResolveFits(cat, DOMAIN oids', q)
  BY <1>4, <1>18, <1>19 DEF ResolveFits
<1>21. WalkerFits(cat, q)
  BY <1>16, <1>18, <1>19 DEF WalkerFits
<1>22. th' = [th EXCEPT ![t] = q] /\ th[t].pc # "done"
  BY <1>1, <1>2, <1>10, <1>15, <1>17
<1> QED BY <1>2, <1>14, <1>18, <1>19, <1>20, <1>21, <1>22, WalkerMoves

(* What a step of the walk does, with the error it may end in.               *)
LEMMA WalkStep ==
  ASSUME CatalogInvariant, NEW t \in Threads, Walk(t)
  PROVE  CatalogInvariant' /\ phase' \in {"catalog", "error"}
<1>1. PICK r : r = th[t]
  OBVIOUS
<1>2. /\ phase = "catalog" /\ phase' \in {"catalog", "error"}
      /\ r.pc \in {"root", "rootOpened", "resolved", "dir", "dirListed"}
      /\ r.pc = "resolved" => t \in Walkers
      /\ UNCHANGED <<cat, entry, extents, batch, blocks, faults>>
  BY <1>1 DEF Walk, OpenRoot, RootOpened, RootIsFile, ListDir, DirListed, WalkFails, At, Goto,
              vars, caches, catalogVars
<1>3. SUFFICES CatalogInvariant'
  BY <1>2
<1>4. /\ IsThread(r) /\ AnswerFits(cat, faults, r) /\ ResolveFits(cat, DOMAIN oids, r)
      /\ IsCatalog(cat) /\ OidsFit /\ faults' = faults
  BY <1>1, <1>2 DEF CatalogInvariant, ThreadsFit, CachesFit
<1>5. Later(r) = r.pc /\ r.pc # "done" /\ r.pc # "idle"
  BY <1>2 DEF Later, Asks
<1>6. t \in Walkers /\ t \in Threads /\ WalkerFits(cat, r)
  BY <1>1, <1>2, <1>5 DEF CatalogInvariant, ReaderFit, ReaderFits, WalkersFit, Threads
<1>7. PICK p : p = r.path /\ IsPath(p)
  BY <1>4 DEF ResolveFits
<1>8. ASSUME NEW q, th' = [th EXCEPT ![t] = q], IsThread(q), Onward,
             AnswerFits(cat, faults', q), ResolveFits(cat, DOMAIN oids', q), WalkerFits(cat, q)
      PROVE  CatalogInvariant'
  BY <1>1, <1>2, <1>5, <1>6, <1>8, WalkerMoves
<1>9. CASE OpenRoot(t)
  <2>1. Onward /\ oids' = oids
    BY <1>9, NothingEntered DEF OpenRoot, caches, vars, At
  <2>2. PICK o : o = OpeningBlock(p)
    OBVIOUS
  <2>3. o = OpeningIn(cat, p) /\ o \in DOMAIN cat
    BY <1>4, <1>7, <2>2, OpeningIsKnown DEF OpeningBlock, OpeningIn, OidAt
  <2>4. PICK q : q = Asking(r, o, "rootOpened")
    OBVIOUS
  <2>5. th' = [th EXCEPT ![t] = q]
    BY <1>1, <1>7, <1>9, <2>2, <2>4 DEF OpenRoot
  <2>6. /\ AnswerFits(cat, faults', q) /\ IsThread(q) /\ Later(q) = "rootOpened"
        /\ q.pc = "get" /\ q.path = p /\ q.stack = r.stack
    <3>1. q.path = p /\ q.pc = "get" /\ q.ret = "rootOpened"
      BY <1>4, <1>7, <2>4, AskingIs
    <3>2. Wanted(cat, q) = OpeningIn(cat, p)
      BY <3>1 DEF Wanted, Later, Asks
    <3>3. "rootOpened" \in Returns
      BY DEF Returns
    <3> QED BY <1>4, <1>7, <2>3, <2>4, <3>2, <3>3, AskingFits
  <2>7. ResolveFits(cat, DOMAIN oids', q)
    BY <1>7, <2>6 DEF ResolveFits
  <2>8. WalkerFits(cat, q)
    BY <1>6, <2>6 DEF WalkerFits
  <2> QED BY <1>8, <2>1, <2>5, <2>6, <2>7, <2>8
<1>10. CASE RootOpened(t)
  <2>1. r.pc = "rootOpened"
    BY <1>1, <1>10 DEF RootOpened, At
  <2>2. th[t].answer = OpeningIn(cat, p) \/ th[t].answer = NoAnswer
    <3>1. Wanted(cat, r) = OpeningIn(cat, p)
      BY <1>5, <1>7, <2>1 DEF Wanted
    <3> QED BY <1>1, <1>4, <2>1, <3>1 DEF AnswerFits, Returns
  <2>3. PICK o : o = Opened(t, p)
    OBVIOUS
  <2>4. o = 0 \/ (o = OidIn(cat, p) /\ o \in DOMAIN cat /\ IsDir(cat, o))
    BY <1>4, <1>7, <2>2, <2>3, OpenedIs
  <2>5. /\ phase' = "catalog"
        /\ UNCHANGED <<cat, inodes, extents, batch, blocks, items, faults>>
    BY <1>2, <1>10 DEF RootOpened, vars
  <2>6. CASE o = 0
    <3>1. PICK q : q = Resolving(r, p)
      OBVIOUS
    <3>2. th' = [th EXCEPT ![t] = q] /\ oids' = oids
      BY <1>1, <1>7, <1>10, <2>3, <2>6, <3>1 DEF RootOpened
    <3>3. Onward
      BY <1>2, <2>5, <3>2, NothingEntered
    <3>4. q.pc = "direct" /\ q.path = p /\ q.stack = r.stack /\ IsThread(q)
      BY <1>4, <3>1, ResolvingIs
    <3>5. AnswerFits(cat, faults', q) /\ Later(q) = "direct"
      BY <3>4, UnaskedFits DEF Asks, Returns
    <3>6. ResolveFits(cat, DOMAIN oids', q) /\ WalkerFits(cat, q)
      BY <1>6, <1>7, <3>4, <3>5 DEF ResolveFits, WalkerFits, Resolves
    <3> QED BY <1>8, <3>2, <3>3, <3>4, <3>5, <3>6
  <2>7. CASE o # 0
    <3>1. PICK d : d = [path |-> p, oid |-> o]
      OBVIOUS
    <3>2. PICK q : q = WithStack(r, "dir", <<d>>)
      OBVIOUS
    <3>3. th' = [th EXCEPT ![t] = q] /\ oids' = Entered(p, o, oids)
      BY <1>1, <1>7, <1>10, <2>3, <2>7, <3>1, <3>2 DEF RootOpened, WithStack
    <3>4. Onward
      BY <1>2, <1>7, <2>4, <2>5, <2>7, <3>3, PathEntered
    <3>5. q.pc = "dir" /\ q.path = p /\ q.stack = <<d>> /\ IsThread(q)
      BY <1>4, <1>7, <3>2, WithStackIs
    <3>6. AnswerFits(cat, faults', q) /\ Later(q) = "dir"
      BY <3>5, UnaskedFits DEF Asks, Returns
    <3>7. DirFits(cat, d)
      BY <1>7, <2>4, <2>7, <3>1 DEF DirFits
    <3>8. q.stack \in Seq(Range(q.stack)) /\ \A i \in DOMAIN q.stack : DirFits(cat, q.stack[i])
      <4>1. <<d>> \in Seq({d}) /\ \A i \in DOMAIN <<d>> : <<d>>[i] = d
        OBVIOUS
      <4>2. <<d>> \in Seq(Range(<<d>>))
        BY <4>1, InRange
      <4> QED BY <3>5, <3>7, <4>1, <4>2
    <3>9. ResolveFits(cat, DOMAIN oids', q) /\ WalkerFits(cat, q)
      BY <1>7, <3>5, <3>6, <3>8 DEF ResolveFits, WalkerFits
    <3> QED BY <1>8, <3>3, <3>4, <3>5, <3>6, <3>9
  <2> QED BY <2>6, <2>7
<1>11. CASE RootIsFile(t)
  <2>1. /\ r.pc = "resolved" /\ oids' = oids /\ phase' = "catalog" /\ UNCHANGED <<inodes>>
        /\ items' = IF r.oid = 0 THEN items ELSE Append(items, p)
    BY <1>1, <1>2, <1>7, <1>11 DEF RootIsFile, At, caches, vars
  <2>2. PICK q : q = [r EXCEPT !.pc = "done"]
    OBVIOUS
  <2>3. th' = [th EXCEPT ![t] = q]
    <3>1. th = [u \in Threads |-> th[u]]
      BY DEF CatalogInvariant, ThreadsFit
    <3> QED BY <1>1, <1>11, <2>2, <3>1 DEF RootIsFile, Goto
  <2>4. Onward
    <3>1. items' \in Seq(DOMAIN oids')
      <4>1. PICK S : S = DOMAIN oids
        OBVIOUS
      <4>2. items \in Seq(S)
        BY <1>4, <4>1 DEF OidsFit
      <4>3. r.oid # 0 => p \in S
        BY <1>4, <1>7, <2>1, <4>1 DEF ResolveFits
      <4>4. items' \in Seq(S)
        <5>1. p \in S => Append(items, p) \in Seq(S)
          BY <4>2
        <5> QED BY <2>1, <4>2, <4>3, <5>1
      <4> QED BY <2>1, <4>1, <4>4
    <3>2. OidsFit' /\ InodesFit' /\ ExtentsFit' /\ BlocksFit'
      BY <1>2, <1>4, <2>1, <3>1 DEF CatalogInvariant, CachesFit, OidsFit, InodesFit, ExtentsFit, BlocksFit
    <3> QED BY <1>2, <1>4, <2>1, <3>2 DEF Onward, CatalogInvariant, CachesFit
  <2>5. q.pc = "done" /\ q.path = p /\ q.stack = r.stack /\ IsThread(q)
    BY <1>4, <1>7, <2>2 DEF IsThread
  <2>6. AnswerFits(cat, faults', q) /\ Later(q) = "done"
    BY <2>5, UnaskedFits DEF Asks, Returns
  <2>7. ResolveFits(cat, DOMAIN oids', q) /\ WalkerFits(cat, q)
    BY <1>6, <1>7, <2>5, <2>6 DEF ResolveFits, WalkerFits
  <2> QED BY <1>8, <2>3, <2>4, <2>5, <2>6, <2>7
<1>12. CASE ListDir(t)
  <2>1. Onward /\ oids' = oids
    BY <1>12, NothingEntered DEF ListDir, caches, vars, At
  <2>2. CASE r.stack = <<>>
    <3>1. PICK q : q = [r EXCEPT !.pc = "done"]
      OBVIOUS
    <3>2. th' = [th EXCEPT ![t] = q]
      BY <1>1, <1>12, <2>2, <3>1 DEF ListDir
    <3>3. q.pc = "done" /\ q.path = p /\ q.stack = r.stack /\ IsThread(q)
      BY <1>4, <1>7, <3>1 DEF IsThread
    <3>4. AnswerFits(cat, faults', q) /\ Later(q) = "done"
      BY <3>3, UnaskedFits DEF Asks, Returns
    <3>5. ResolveFits(cat, DOMAIN oids', q) /\ WalkerFits(cat, q)
      BY <1>6, <1>7, <3>3, <3>4 DEF ResolveFits, WalkerFits
    <3> QED BY <1>8, <2>1, <3>2, <3>3, <3>4, <3>5
  <2>3. CASE r.stack # <<>>
    <3>1. PICK o : o = Head(r.stack).oid
      OBVIOUS
    <3>2. o \in DOMAIN cat
      BY <1>6, <2>3, <3>1, HeadFits DEF WalkerFits, DirFits
    <3>3. PICK q : q = Asking(r, o, "dirListed")
      OBVIOUS
    <3>4. th' = [th EXCEPT ![t] = q]
      BY <1>1, <1>12, <2>3, <3>1, <3>3 DEF ListDir
    <3>5. /\ AnswerFits(cat, faults', q) /\ IsThread(q) /\ Later(q) = "dirListed"
          /\ q.pc = "get" /\ q.path = p /\ q.stack = r.stack
      <4>1. q.stack = r.stack /\ q.pc = "get" /\ q.ret = "dirListed"
        BY <1>4, <3>3, AskingIs
      <4>2. Wanted(cat, q) = o
        BY <3>1, <4>1 DEF Wanted, Later, Asks
      <4>3. "dirListed" \in Returns
        BY DEF Returns
      <4> QED BY <1>4, <1>7, <3>2, <3>3, <4>2, <4>3, AskingFits
    <3>6. ResolveFits(cat, DOMAIN oids', q)
      BY <1>7, <3>5 DEF ResolveFits
    <3>7. WalkerFits(cat, q)
      BY <1>6, <2>3, <3>5 DEF WalkerFits
    <3> QED BY <1>8, <2>1, <3>4, <3>5, <3>6, <3>7
  <2> QED BY <2>2, <2>3
<1>13. CASE DirListed(t)
  BY <1>6, <1>13, DirListedStep
<1>14. CASE WalkFails(t)
  <2>1. /\ r.pc = "dirListed" /\ r.answer = NoAnswer /\ phase' = "error"
        /\ UNCHANGED catalogVars
    BY <1>1, <1>14 DEF WalkFails, At, Answered
  <2>2. faults > 0
    <3>1. Wanted(cat, r) \in DOMAIN cat /\ 0 \notin DOMAIN cat
      BY <1>4, <1>5, <2>1, WhatPathsLeadTo DEF AnswerFits, Returns
    <3>2. r.answer = Wanted(cat, r) \/ faults > 0
      BY <1>4, <2>1 DEF AnswerFits, Returns
    <3> QED BY <2>1, <3>1, <3>2 DEF NoAnswer
  <2>3. entry = [f \in Files |-> Lost]
    <3>1. Later(th[Reader]) = "idle"
      BY <1>1, <1>2, <1>5, <1>6 DEF CatalogInvariant, ReaderFit
    <3> QED BY <1>2, <3>1 DEF CatalogInvariant, ReaderFit
  <2>4. WindowFits'
    <3>1. \A f \in 1..WindowOf(items) : f \in Files
      <4>1. PICK S : items \in Seq(S)
        BY <1>4 DEF OidsFit
      <4>2. Len(items) \in Nat /\ NumFiles \in Nat
        BY <4>1, WindowAssumption
      <4> QED BY <4>2 DEF WindowOf, Smaller, Files
    <3>2. \A f \in 1..WindowOf(items) : entry[f].kind = "lost"
      BY <2>3, <3>1 DEF Lost
    <3>3. \A f \in 1..WindowOf(items) : SlotFits(cat, faults, items, entry[f], f)
      BY <2>2, <3>2 DEF SlotFits
    <3> QED BY <1>2, <2>1, <3>3 DEF WindowFits, catalogVars
  <2>5. /\ IsCatalog(cat') /\ faults' \in Nat /\ EntriesTyped'
        /\ ThreadsFit' /\ WalkersFit' /\ ReaderFit'
    BY <1>2, <2>1 DEF CatalogInvariant, EntriesTyped, ThreadsFit, WalkersFit, ReaderFit, catalogVars
  <2>6. CachesFit'
    BY <1>2, <2>1 DEF CatalogInvariant, CachesFit, OidsFit, InodesFit, ExtentsFit, BlocksFit,
                      catalogVars, caches
  <2> QED BY <2>4, <2>5, <2>6 DEF CatalogInvariant
<1> QED BY <1>9, <1>10, <1>11, <1>12, <1>13, <1>14 DEF Walk

-----------------------------------------------------------------------------
(* What the reader has to go by.                                             *)
LEMMA ReaderFacts ==
  ASSUME CatalogInvariant, phase = "catalog", NEW r, r = th[Reader]
  PROVE  /\ IsThread(r) /\ AnswerFits(cat, faults, r) /\ ResolveFits(cat, DOMAIN oids, r)
         /\ ReaderFits(cat, faults, items, DOMAIN inodes, r) /\ IsCatalog(cat) /\ faults \in Nat
         /\ WindowLen = WindowOf(items) /\ WindowLen \in Nat
         /\ Len(r.stack) \in Nat /\ Len(r.stack) <= WindowLen
         /\ \A i \in 1..WindowLen : /\ i \in Files /\ IsPath(items[i])
                                    /\ items[i] \in DOMAIN oids /\ OidIn(cat, items[i]) \in DOMAIN cat
         /\ \A i \in 1..Len(r.stack) : r.stack[i] # 0 =>
              r.stack[i] = OidIn(cat, items[i]) /\ r.stack[i] \in DOMAIN cat
         /\ 0 \notin DOMAIN cat
<1>1. /\ IsThread(r) /\ AnswerFits(cat, faults, r) /\ ResolveFits(cat, DOMAIN oids, r)
      /\ ReaderFits(cat, faults, items, DOMAIN inodes, r) /\ IsCatalog(cat) /\ faults \in Nat
  BY DEF CatalogInvariant, ThreadsFit, ReaderFit, Threads
<1>2. PICK S : S = DOMAIN oids /\ items \in Seq(S)
  BY DEF CatalogInvariant, CachesFit, OidsFit
<1>3. Len(items) \in Nat /\ NumFiles \in Nat /\ \A i \in 1..Len(items) : items[i] \in S
  BY <1>2, WindowAssumption
<1>4. WindowLen = WindowOf(items) /\ WindowLen \in Nat
  BY <1>3 DEF WindowLen, WindowOf, Smaller
<1>5. WindowLen <= NumFiles /\ WindowLen <= Len(items)
  BY <1>3 DEF WindowLen, Smaller
<1>6. Len(r.stack) \in Nat /\ Len(r.stack) <= WindowLen
  <2>1. PICK T : r.stack \in Seq(T)
    BY <1>1 DEF ReaderFits
  <2>2. Len(r.stack) \in Nat
    BY <2>1, LenProperties
  <2> QED BY <1>1, <1>4, <2>2 DEF ReaderFits
<1>7. 0 \notin DOMAIN cat
  BY <1>1, WhatPathsLeadTo
<1>8. ASSUME NEW i \in 1..WindowLen
      PROVE  /\ i \in Files /\ IsPath(items[i])
             /\ items[i] \in DOMAIN oids /\ OidIn(cat, items[i]) \in DOMAIN cat
  <2>1. i \in 1..Len(items) /\ i \in 1..NumFiles
    BY <1>3, <1>4, <1>5
  <2>2. items[i] \in DOMAIN oids
    BY <1>2, <1>3, <2>1
  <2>3. IsPath(items[i]) /\ OidIn(cat, items[i]) # 0
    BY <2>2 DEF CatalogInvariant, CachesFit, OidsFit
  <2>4. OidIn(cat, items[i]) \in DOMAIN cat \cup {0}
    BY <1>1, <2>3, WhatPathsLeadTo
  <2> QED BY <2>1, <2>2, <2>3, <2>4 DEF Files
<1>9. ASSUME NEW i \in 1..Len(r.stack), r.stack[i] # 0
      PROVE  r.stack[i] = OidIn(cat, items[i]) /\ r.stack[i] \in DOMAIN cat
  <2>1. i \in 1..WindowLen
    BY <1>4, <1>6
  <2> QED BY <1>1, <1>8, <1>9, <2>1 DEF ReaderFits
<1> QED BY <1>1, <1>4, <1>6, <1>7, <1>8, <1>9

(* A step of the reader that leaves what it has found of the window.         *)
LEMMA ReaderGoes ==
  ASSUME CatalogInvariant, Onward, NEW r, r = th[Reader], NEW q, th' = [th EXCEPT ![Reader] = q],
         q.path = r.path, IsThread(q), AnswerFits(cat, faults', q),
         Later(q) \in {"item", "inode", "inodeRead", "slot", "extentsRead"},
         Later(r) # "idle" \/ \A t \in Walkers : th[t].pc = "done",
         ReaderFits(cat, faults', items, DOMAIN inodes', q),
         Later(q) \in {"slot", "extentsRead"} =>
           \A f \in 1..(q.oid - 1) : SlotFits(cat, faults', items, entry'[f], f),
         UNCHANGED items, EntriesTyped'
  PROVE  CatalogInvariant'
<1>1. phase = "catalog" /\ UNCHANGED cat
  BY DEF Onward
<1>2. IsPath(q.path)
  BY <1>1, ReaderFacts DEF ResolveFits
<1>3. q.pc # "resolved"
  BY DEF Later, Asks
<1>4. ResolveFits(cat, DOMAIN oids', q)
  BY <1>2, <1>3 DEF ResolveFits
<1> QED BY <1>4, ReaderMoves

(* The items are resolved one after the other.                               *)
LEMMA ItemsStep ==
  ASSUME CatalogInvariant, StartWindow \/ ResolveItem \/ ItemResolved
  PROVE  CatalogInvariant' /\ phase' = "catalog"
<1>1. PICK r : r = th[Reader]
  OBVIOUS
<1>2. /\ phase = "catalog" /\ phase' = "catalog" /\ r.pc \in {"idle", "item", "resolved"}
      /\ UNCHANGED <<cat, entry, oids, inodes, extents, batch, blocks, items, faults>>
  BY <1>1 DEF StartWindow, ResolveItem, ItemResolved, At, vars, caches
<1>3. SUFFICES CatalogInvariant'
  BY <1>2
<1>4. Onward /\ oids' = oids /\ inodes' = inodes /\ faults' = faults
  BY <1>2, NothingEntered
<1>5. EntriesTyped'
  BY <1>2 DEF CatalogInvariant, EntriesTyped
<1>6. Later(r) = r.pc
  BY <1>2 DEF Later, Asks
<1>7. /\ IsThread(r) /\ ResolveFits(cat, DOMAIN oids, r)
      /\ ReaderFits(cat, faults, items, DOMAIN inodes, r)
      /\ WindowLen = WindowOf(items) /\ WindowLen \in Nat
      /\ Len(r.stack) \in Nat /\ Len(r.stack) <= WindowLen
      /\ \A i \in 1..WindowLen : IsPath(items[i])
  BY <1>1, <1>2, ReaderFacts
<1>8. CASE StartWindow
  <2>1. r.pc = "idle" /\ \A t \in Walkers : th[t].pc = "done"
    BY <1>1, <1>8 DEF StartWindow, At
  <2>2. PICK q : q = [r EXCEPT !.pc = "item"]
    OBVIOUS
  <2>3. th' = [th EXCEPT ![Reader] = q]
    <3>1. th = [u \in Threads |-> th[u]]
      BY DEF CatalogInvariant, ThreadsFit
    <3> QED BY <1>1, <1>8, <2>2, <3>1 DEF StartWindow, Goto
  <2>4. q.pc = "item" /\ q.path = r.path /\ q.stack = r.stack /\ IsThread(q)
    BY <1>7, <2>2 DEF IsThread
  <2>5. AnswerFits(cat, faults', q) /\ Later(q) = "item"
    BY <2>4, UnaskedFits DEF Asks, Returns
  <2>6. ReaderFits(cat, faults', items, DOMAIN inodes', q)
    BY <1>4, <1>7, <2>4, <2>5 DEF ReaderFits
  <2> QED BY <1>1, <1>2, <1>4, <1>5, <2>1, <2>3, <2>4, <2>5, <2>6, ReaderGoes
<1>9. CASE ResolveItem
  <2>1. PICK p, q : p = items[Position] /\ q = Resolving(r, p)
    OBVIOUS
  <2>2. th' = [th EXCEPT ![Reader] = q] /\ r.pc = "item"
    BY <1>1, <1>9, <2>1 DEF ResolveItem, At
  <2>3. Len(r.stack) < WindowOf(items) /\ p = items[Len(r.stack) + 1] /\ IsPath(p)
    <3>1. Position = Len(r.stack) + 1 /\ Position <= WindowLen
      BY <1>1, <1>9 DEF ResolveItem, Position
    <3>2. Len(r.stack) < WindowLen /\ Len(r.stack) + 1 \in 1..WindowLen
      BY <1>7, <3>1
    <3> QED BY <1>7, <2>1, <3>1, <3>2
  <2>4. q.pc = "direct" /\ q.path = p /\ q.stack = r.stack /\ IsThread(q)
    BY <1>7, <2>1, ResolvingIs
  <2>5. AnswerFits(cat, faults', q) /\ Later(q) = "direct"
    BY <2>4, UnaskedFits DEF Asks, Returns
  <2>6. ResolveFits(cat, DOMAIN oids', q)
    BY <2>3, <2>4, <2>5 DEF ResolveFits
  <2>7. ReaderFits(cat, faults', items, DOMAIN inodes', q)
    BY <1>4, <1>7, <2>3, <2>4, <2>5 DEF ReaderFits
  <2>8. Later(th[Reader]) # "idle"
    BY <1>1, <1>6, <2>2
  <2> QED BY <1>2, <1>4, <1>5, <2>2, <2>4, <2>5, <2>6, <2>7, <2>8, ReaderMoves
<1>10. CASE ItemResolved
  <2>1. PICK stack : stack = Append(r.stack, r.oid)
    OBVIOUS
  <2>2. PICK q : q = WithStack(r, "item", stack)
    OBVIOUS
  <2>3. th' = [th EXCEPT ![Reader] = q] /\ r.pc = "resolved"
    BY <1>1, <1>10, <2>1, <2>2 DEF ItemResolved, At, WithStack
  <2>4. PICK n \in Nat : n = Len(r.stack) /\ n < WindowOf(items) /\ r.path = items[n + 1]
    BY <1>6, <1>7, <2>3 DEF ReaderFits
  <2>5. r.oid = OidIn(cat, items[n + 1])
    BY <1>6, <1>7, <2>3, <2>4 DEF ResolveFits, ReaderFits
  <2>6. /\ stack \in Seq(Range(stack)) /\ Len(stack) = n + 1
        /\ \A i \in 1..n : stack[i] = r.stack[i]
        /\ stack[n + 1] = r.oid
    <3>1. PICK T : T = Range(r.stack) \cup {r.oid}
      OBVIOUS
    <3>2. r.stack \in Seq(T) /\ r.oid \in T
      <4>1. PICK R : R = Range(r.stack) /\ R \subseteq T
        BY <3>1
      <4>2. r.stack \in Seq(R)
        BY <1>7, <4>1 DEF ReaderFits
      <4> QED BY <3>1, <4>1, <4>2
    <3>3. PICK s \in Seq(T) : s = r.stack
      BY <3>2
    <3>4. PICK a : a = Append(s, r.oid) /\ a \in Seq(T)
      <4>1. Append(s, r.oid) \in Seq(T)
        BY <3>2, <3>3
      <4> QED BY <4>1
    <3>5. Len(a) = n + 1 /\ a[n + 1] = r.oid /\ \A i \in 1..n : a[i] = s[i]
      BY <2>4, <3>2, <3>3, <3>4
    <3> QED BY <2>1, <3>3, <3>4, <3>5, InRange
  <2>7. q.pc = "item" /\ q.path = r.path /\ q.stack = stack /\ IsThread(q)
    BY <1>7, <2>2, WithStackIs
  <2>8. AnswerFits(cat, faults', q) /\ Later(q) = "item"
    BY <2>7, UnaskedFits DEF Asks, Returns
  <2>9. \A i \in 1..Len(stack) : stack[i] = OidIn(cat, items[i]) \/ (stack[i] = 0 /\ faults > 0)
    <3>1. \A i \in 1..(n + 1) : i \in 1..n \/ i = n + 1
      OBVIOUS
    <3>2. \A i \in 1..n : r.stack[i] = OidIn(cat, items[i]) \/ (r.stack[i] = 0 /\ faults > 0)
      BY <1>7, <2>4 DEF ReaderFits
    <3> QED BY <2>5, <2>6, <3>1, <3>2
  <2>10. Len(stack) <= WindowOf(items)
    BY <1>7, <2>4, <2>6
  <2>11. ReaderFits(cat, faults', items, DOMAIN inodes', q)
    BY <1>4, <2>6, <2>7, <2>8, <2>9, <2>10 DEF ReaderFits
  <2>12. Later(r) # "idle"
    BY <1>6, <2>3
  <2> QED BY <1>1, <1>2, <1>4, <1>5, <2>3, <2>7, <2>8, <2>11, <2>12, ReaderGoes
<1> QED BY <1>8, <1>9, <1>10

(* An item whose inode is in no cache, if there is one.                      *)
LEMMA LeastMissing ==
  ASSUME Missing # {}, WindowLen \in Nat
  PROVE  /\ Min(Missing) \in 1..WindowLen
         /\ th[Reader].stack[Min(Missing)] \notin DOMAIN inodes \cup {0}
<1>1. PICK M : M = Missing
  OBVIOUS
<1>2. M \in SUBSET Nat /\ M # {}
  BY <1>1 DEF Missing
<1>3. \E n \in M : \A m \in M : n <= m
  BY <1>2, Least
<1>4. Min(M) \in M
  BY <1>3 DEF Min
<1> QED BY <1>1, <1>4 DEF Missing

(* The inodes of the items are found or the items lost.                      *)
LEMMA InodesStep ==
  ASSUME CatalogInvariant, BatchInodes \/ LookUpInode \/ InodeRead \/ BatchExtents
  PROVE  CatalogInvariant' /\ phase' = "catalog"
<1>1. PICK r : r = th[Reader]
  OBVIOUS
<1>2. /\ phase = "catalog" /\ phase' = "catalog" /\ r.pc \in {"item", "inode", "inodeRead"}
      /\ UNCHANGED <<cat, entry, oids, extents, blocks, items, faults>>
  BY <1>1 DEF BatchInodes, LookUpInode, InodeRead, BatchExtents, At, vars, caches
<1>3. SUFFICES CatalogInvariant'
  BY <1>2
<1>4. oids' = oids /\ faults' = faults
  BY <1>2
<1>5. EntriesTyped'
  BY <1>2 DEF CatalogInvariant, EntriesTyped
<1>6. Later(r) = r.pc /\ Later(r) # "idle"
  BY <1>2 DEF Later, Asks
<1>7. /\ IsThread(r) /\ AnswerFits(cat, faults, r)
      /\ ReaderFits(cat, faults, items, DOMAIN inodes, r) /\ IsCatalog(cat)
      /\ WindowLen = WindowOf(items) /\ WindowLen \in Nat
      /\ Len(r.stack) \in Nat /\ Len(r.stack) <= WindowLen
      /\ \A i \in 1..Len(r.stack) : r.stack[i] # 0 =>
           r.stack[i] = OidIn(cat, items[i]) /\ r.stack[i] \in DOMAIN cat
      /\ 0 \notin DOMAIN cat
  BY <1>1, <1>2, ReaderFacts
<1>8. \A o \in DOMAIN inodes : o \in DOMAIN cat /\ inodes[o] = InodeIn(cat, o)
  BY DEF CatalogInvariant, CachesFit, InodesFit
<1>9. OidsFit' /\ BlocksFit'
  BY <1>2 DEF CatalogInvariant, CachesFit, OidsFit, BlocksFit
<1>10. ASSUME InodesFit', ExtentsFit' PROVE Onward
  BY <1>2, <1>9, <1>10 DEF Onward, CatalogInvariant, CachesFit
<1>11. ASSUME UNCHANGED batch PROVE ExtentsFit'
  BY <1>2, <1>11 DEF CatalogInvariant, CachesFit, ExtentsFit
<1>12. ASSUME NEW q, th' = [th EXCEPT ![Reader] = q], q.path = r.path, IsThread(q),
              AnswerFits(cat, faults', q), Later(q) \in {"inode", "inodeRead", "slot"}, Onward,
              ReaderFits(cat, faults', items, DOMAIN inodes', q), Later(q) = "slot" => q.oid = 1
       PROVE  CatalogInvariant'
  <2>1. Later(q) \in {"slot", "extentsRead"} =>
          \A f \in 1..(q.oid - 1) : SlotFits(cat, faults', items, entry'[f], f)
    BY <1>12
  <2> QED BY <1>1, <1>2, <1>5, <1>6, <1>12, <2>1, ReaderGoes
<1>13. CASE BatchInodes
  <2>1. /\ r.pc = "item" /\ Position > WindowLen /\ UNCHANGED batch
        /\ inodes' = Over(inodes, InodesInRange(ResolvedOids)) \/ inodes' = inodes
    BY <1>1, <1>13 DEF BatchInodes, At
  <2>2. Len(r.stack) = WindowOf(items)
    <3>1. Len(r.stack) + 1 > WindowLen
      BY <1>1, <2>1 DEF Position
    <3> QED BY <1>7, <3>1
  <2>3. InodesFit' /\ DOMAIN inodes \subseteq DOMAIN inodes'
    <3>1. PICK new, after : new = InodesInRange(ResolvedOids) /\ after = inodes'
      OBVIOUS
    <3>2. \A o \in DOMAIN new : o \in DOMAIN cat /\ new[o] = InodeIn(cat, o)
      BY <3>1, InodesFound
    <3>3. /\ \A o \in DOMAIN Over(inodes, new) : o \in DOMAIN cat /\ Over(inodes, new)[o] = InodeIn(cat, o)
          /\ DOMAIN inodes \subseteq DOMAIN Over(inodes, new)
      BY <1>8, <3>2, InodesEntered
    <3>4. (\A o \in DOMAIN after : o \in DOMAIN cat /\ after[o] = InodeIn(cat, o))
          /\ DOMAIN inodes \subseteq DOMAIN after
      BY <1>8, <2>1, <3>1, <3>3
    <3> QED BY <1>2, <3>1, <3>4 DEF InodesFit
  <2>4. PICK q : q = WithWant(r, "inode", 1)
    OBVIOUS
  <2>5. th' = [th EXCEPT ![Reader] = q]
    BY <1>1, <1>13, <2>4 DEF BatchInodes, WithWant
  <2>6. q.pc = "inode" /\ q.path = r.path /\ q.stack = r.stack /\ IsThread(q)
    BY <1>7, <2>4, WithWantIs
  <2>7. AnswerFits(cat, faults', q) /\ Later(q) = "inode"
    BY <2>6, UnaskedFits DEF Asks, Returns
  <2>8. ReaderFits(cat, faults', items, DOMAIN inodes', q)
    BY <1>4, <1>7, <2>2, <2>6, <2>7 DEF ReaderFits
  <2> QED BY <1>10, <1>11, <1>12, <2>1, <2>3, <2>5, <2>6, <2>7, <2>8
<1>14. CASE LookUpInode
  <2>1. r.pc = "inode" /\ Missing # {} /\ UNCHANGED <<batch, inodes>>
    BY <1>1, <1>14 DEF LookUpInode, At, caches
  <2>2. PICK i : i = Min(Missing)
    OBVIOUS
  <2>3. i \in 1..Len(r.stack) /\ r.stack[i] # 0 /\ Len(r.stack) = WindowOf(items)
    <3>1. i \in 1..WindowLen /\ r.stack[i] # 0
      BY <1>1, <1>7, <2>1, <2>2, LeastMissing
    <3>2. Len(r.stack) = WindowOf(items)
      BY <1>6, <1>7, <2>1 DEF ReaderFits
    <3> QED BY <1>7, <3>1, <3>2
  <2>4. PICK s, o : s = [r EXCEPT !.oid = i] /\ o = r.stack[i]
    OBVIOUS
  <2>5. s.oid = i /\ s.path = r.path /\ s.stack = r.stack /\ IsThread(s)
    BY <1>7, <2>4 DEF IsThread
  <2>6. PICK q : q = Asking(s, o, "inodeRead")
    OBVIOUS
  <2>7. th' = [th EXCEPT ![Reader] = q]
    BY <1>1, <1>14, <2>2, <2>4, <2>6 DEF LookUpInode
  <2>8. /\ AnswerFits(cat, faults', q) /\ IsThread(q) /\ Later(q) = "inodeRead"
        /\ q.pc = "get" /\ q.path = r.path /\ q.stack = r.stack /\ q.oid = i
    <3>1. q.stack = r.stack /\ q.oid = i /\ q.pc = "get" /\ q.ret = "inodeRead"
      BY <2>5, <2>6, AskingIs
    <3>2. Wanted(cat, q) = o
      BY <2>4, <3>1 DEF Wanted, Later, Asks
    <3>3. "inodeRead" \in Returns /\ o \in DOMAIN cat
      BY <1>7, <2>3, <2>4 DEF Returns
    <3> QED BY <2>5, <2>6, <3>1, <3>2, <3>3, AskingFits
  <2>9. ReaderFits(cat, faults', items, DOMAIN inodes', q)
    BY <1>4, <1>7, <2>1, <2>3, <2>8 DEF ReaderFits
  <2>10. InodesFit'
    BY <1>2, <1>8, <2>1 DEF InodesFit
  <2> QED BY <1>10, <1>11, <1>12, <2>1, <2>7, <2>8, <2>9, <2>10
<1>15. CASE InodeRead
  <2>1. r.pc = "inodeRead" /\ UNCHANGED batch
    BY <1>1, <1>15 DEF InodeRead, At
  <2>2. PICK i, o : i = r.oid /\ o = r.stack[i]
    OBVIOUS
  <2>3. i \in 1..Len(r.stack) /\ o # 0 /\ Len(r.stack) = WindowOf(items) /\ o \in DOMAIN cat
    BY <1>6, <1>7, <2>1, <2>2 DEF ReaderFits
  <2>4. r.answer = o \/ (r.answer = NoAnswer /\ faults > 0)
    <3>1. Wanted(cat, r) = o
      BY <1>6, <2>1, <2>2 DEF Wanted
    <3> QED BY <1>7, <2>1, <3>1 DEF AnswerFits, Returns
  <2>5. CASE r.answer # NoAnswer
    <3>1. inodes' = Entered(o, InodeIn(cat, o), inodes) /\ Goto(Reader, "inode")
      BY <1>1, <1>15, <2>2, <2>4, <2>5 DEF InodeRead, Answered
    <3>2. PICK q : q = [r EXCEPT !.pc = "inode"]
      OBVIOUS
    <3>3. th' = [th EXCEPT ![Reader] = q]
      <4>1. th = [u \in Threads |-> th[u]]
        BY DEF CatalogInvariant, ThreadsFit
      <4> QED BY <1>1, <3>1, <3>2, <4>1 DEF Goto
    <3>4. q.pc = "inode" /\ q.path = r.path /\ q.stack = r.stack /\ IsThread(q)
      BY <1>7, <3>2 DEF IsThread
    <3>5. AnswerFits(cat, faults', q) /\ Later(q) = "inode"
      BY <3>4, UnaskedFits DEF Asks, Returns
    <3>6. ReaderFits(cat, faults', items, DOMAIN inodes', q)
      BY <1>4, <1>7, <2>3, <3>4, <3>5 DEF ReaderFits
    <3>7. InodesFit'
      <4>1. PICK new, after : new = [x \in {o} |-> InodeIn(cat, o)] /\ after = inodes'
        OBVIOUS
      <4>2. \A x \in DOMAIN new : x \in DOMAIN cat /\ new[x] = InodeIn(cat, x)
        BY <2>3, <4>1
      <4>3. after = Over(new, inodes)
        BY <3>1, <4>1 DEF Entered
      <4>4. \A x \in DOMAIN Over(new, inodes) : x \in DOMAIN cat /\ Over(new, inodes)[x] = InodeIn(cat, x)
        BY <1>8, <4>2, InodesEntered
      <4> QED BY <1>2, <4>1, <4>3, <4>4 DEF InodesFit
    <3> QED BY <1>10, <1>11, <1>12, <2>1, <3>3, <3>4, <3>5, <3>6, <3>7
  <2>6. CASE r.answer = NoAnswer
    <3>1. faults > 0
      BY <1>7, <2>3, <2>4, <2>6 DEF NoAnswer
    <3>2. PICK stack : stack = [r.stack EXCEPT ![i] = 0]
      OBVIOUS
    <3>3. PICK q : q = WithStack(r, "inode", stack)
      OBVIOUS
    <3>4. inodes' = inodes /\ th' = [th EXCEPT ![Reader] = q]
      <4>1. /\ th' = [th EXCEPT ![Reader] = [th[Reader] EXCEPT !.pc = "inode", !.stack[th[Reader].oid] = 0]]
            /\ inodes' = inodes
        BY <1>1, <1>15, <2>6 DEF InodeRead, Answered
      <4>2. [r EXCEPT !.pc = "inode", !.stack[i] = 0] = q
        <5>1. PICK one : one = [r EXCEPT !.pc = "inode"]
          OBVIOUS
        <5>2. one.stack = r.stack
          BY <1>7, <5>1 DEF IsThread
        <5>3. q = [one EXCEPT !.stack = stack]
          BY <3>3, <5>1 DEF WithStack
        <5>4. [r EXCEPT !.pc = "inode", !.stack[i] = 0] = [one EXCEPT !.stack[i] = 0]
          BY <5>1
        <5>5. [one EXCEPT !.stack[i] = 0] = [one EXCEPT !.stack = stack]
          BY <3>2, <5>2
        <5> QED BY <5>3, <5>4, <5>5
      <4> QED BY <1>1, <2>2, <4>1, <4>2
    <3>5. q.pc = "inode" /\ q.path = r.path /\ q.stack = stack /\ IsThread(q)
      BY <1>7, <3>3, WithStackIs
    <3>6. AnswerFits(cat, faults', q) /\ Later(q) = "inode"
      BY <3>5, UnaskedFits DEF Asks, Returns
    <3>7. stack \in Seq(Range(stack)) /\ Len(stack) = Len(r.stack)
      <4>1. PICK T : T = Range(r.stack) \cup {0}
        OBVIOUS
      <4>2. r.stack \in Seq(T)
        <5>1. PICK R : R = Range(r.stack) /\ R \subseteq T
          BY <4>1
        <5>2. r.stack \in Seq(R)
          BY <1>7, <5>1 DEF ReaderFits
        <5> QED BY <5>1, <5>2
      <4>3. PICK s \in Seq(T) : s = r.stack
        BY <4>2
      <4>4. [s EXCEPT ![i] = 0] \in Seq(T) /\ Len([s EXCEPT ![i] = 0]) = Len(s)
        <5>1. i \in 1..Len(s) /\ 0 \in T
          BY <2>3, <4>1, <4>3
        <5> QED BY <5>1, ExceptSeq
      <4> QED BY <3>2, <4>3, <4>4, InRange
    <3>8. \A j \in 1..Len(stack) : stack[j] = OidIn(cat, items[j]) \/ (stack[j] = 0 /\ faults > 0)
      <4>1. \A j \in 1..Len(r.stack) : stack[j] = IF j = i THEN 0 ELSE r.stack[j]
        <5>1. DOMAIN r.stack = 1..Len(r.stack)
          <6>1. PICK T : r.stack \in Seq(T)
            BY <1>7 DEF ReaderFits
          <6> QED BY <6>1, LenProperties
        <5> QED BY <3>2, <5>1
      <4>2. \A j \in 1..Len(r.stack) : r.stack[j] = OidIn(cat, items[j]) \/ (r.stack[j] = 0 /\ faults > 0)
        BY <1>7 DEF ReaderFits
      <4> QED BY <3>1, <3>7, <4>1, <4>2
    <3>9. ReaderFits(cat, faults', items, DOMAIN inodes', q)
      BY <1>4, <1>7, <2>3, <3>5, <3>6, <3>7, <3>8 DEF ReaderFits
    <3>10. InodesFit'
      BY <1>2, <1>8, <3>4 DEF InodesFit
    <3> QED BY <1>10, <1>11, <1>12, <2>1, <3>4, <3>5, <3>6, <3>9, <3>10
  <2> QED BY <2>5, <2>6
<1>16. CASE BatchExtents
  <2>1. r.pc = "inode" /\ Missing = {} /\ UNCHANGED inodes
    BY <1>1, <1>16 DEF BatchExtents, At
  <2>2. ExtentsFit'
    <3>1. PICK after : after = batch'
      OBVIOUS
    <3>2. \A p \in DOMAIN after : after[p] = Stream(cat, p)
      BY <1>16, <3>1 DEF BatchExtents
    <3> QED BY <1>2, <3>1, <3>2 DEF CatalogInvariant, CachesFit, ExtentsFit
  <2>3. PICK q : q = WithOid(r, "slot", 1)
    OBVIOUS
  <2>4. th' = [th EXCEPT ![Reader] = q]
    BY <1>1, <1>16, <2>3 DEF BatchExtents, WithOid
  <2>5. q.pc = "slot" /\ q.path = r.path /\ q.stack = r.stack /\ q.oid = 1 /\ IsThread(q)
    BY <1>7, <2>3, WithOidIs
  <2>6. AnswerFits(cat, faults', q) /\ Later(q) = "slot"
    BY <2>5, UnaskedFits DEF Asks, Returns
  <2>7. Len(r.stack) = WindowOf(items) /\ \A i \in 1..Len(r.stack) : r.stack[i] \in DOMAIN inodes \cup {0}
    <3>1. Len(r.stack) = WindowOf(items)
      BY <1>6, <1>7, <2>1 DEF ReaderFits
    <3>2. \A i \in 1..WindowLen : r.stack[i] \in DOMAIN inodes \cup {0}
      BY <1>1, <2>1 DEF Missing
    <3> QED BY <1>7, <3>1, <3>2
  <2>8. 1 \in 1..(Len(r.stack) + 1)
    BY <1>7
  <2>9. ReaderFits(cat, faults', items, DOMAIN inodes', q)
    BY <1>4, <1>7, <2>1, <2>5, <2>6, <2>7, <2>8 DEF ReaderFits
  <2>10. InodesFit'
    BY <1>2, <1>8, <2>1 DEF InodesFit
  <2> QED BY <1>10, <1>12, <2>2, <2>4, <2>5, <2>6, <2>9, <2>10
<1> QED BY <1>13, <1>14, <1>15, <1>16

(* A slot as the catalog has it is one of a window.                          *)
LEMMA ExpectedIsEntry ==
  ASSUME IsCatalog(cat), NEW o \in DOMAIN cat
  PROVE  ExpectedIn(cat, o) \in Entries
<1>1. {} \in ExtentSets
  BY DEF ExtentSets
<1>2. 0 \in 0..(MaxBlocks * Block)
  <2>1. MaxBlocks * Block \in Nat
    BY WindowAssumption
  <2> QED BY <2>1
<1>3. \A k : \A m \in Mtimes : EmptyEntry(k, m) \in Entries
  BY <1>1, <1>2 DEF EmptyEntry, Entries
<1>6. cat[o].mtime \in Mtimes
  BY DEF IsCatalog
<1>4. CASE cat[o].kind = "regular" /\ cat[o].size > 0
  <2>1. cat[o].size \in 0..(MaxBlocks * Block) /\ cat[o].extents \in ExtentSets
    BY <1>4 DEF IsCatalog
  <2>2. ExpectedIn(cat, o) = [kind |-> "regular", size |-> cat[o].size, extents |-> cat[o].extents,
                              mtime |-> cat[o].mtime]
    BY <1>4 DEF ExpectedIn
  <2> QED BY <1>6, <2>1, <2>2 DEF Entries
<1>5. CASE ~ (cat[o].kind = "regular" /\ cat[o].size > 0)
  BY <1>3, <1>5, <1>6 DEF ExpectedIn
<1> QED BY <1>4, <1>5

(* The records under an inode's private id are its extents, whoever else has *)
(* them.                                                                     *)
LEMMA StreamIsOwn ==
  ASSUME IsCatalog(cat), NEW o \in DOMAIN cat, cat[o].kind = "regular"
  PROVE  cat[o].pid \in DOMAIN cat /\ Stream(cat, cat[o].pid) = cat[o].extents
<1>1. PICK p : p = cat[o].pid /\ p \in DOMAIN cat
  BY DEF IsCatalog
<1>2. \A x \in DOMAIN cat : cat[x].kind = "regular" /\ cat[x].pid = p => cat[x].extents = cat[o].extents
  BY <1>1 DEF IsCatalog
<1> QED BY <1>1, <1>2 DEF Stream

LEMMA SlotFilled ==
  ASSUME CatalogInvariant, phase = "catalog", phase' = "catalog", NEW r, r = th[Reader],
         Later(r) \in {"slot", "extentsRead"}, r.pc \notin Asks, r.oid <= Len(r.stack),
         NEW e \in Entries, entry' = [entry EXCEPT ![r.oid] = e],
         SlotFits(cat, faults, items, e, r.oid), NextSlot, ExtentsFit',
         UNCHANGED <<cat, oids, inodes, blocks, items, faults>>
  PROVE  CatalogInvariant'
<1>1. /\ IsThread(r) /\ ReaderFits(cat, faults, items, DOMAIN inodes, r)
      /\ WindowLen = WindowOf(items) /\ WindowLen \in Nat
      /\ Len(r.stack) \in Nat /\ \A i \in 1..WindowLen : i \in Files
  BY ReaderFacts
<1>2. PICK k \in Nat : k = r.oid /\ k \in 1..Len(r.stack) /\ Len(r.stack) = WindowLen
  <2>1. r.oid \in 1..(Len(r.stack) + 1) /\ Len(r.stack) = WindowOf(items)
    BY <1>1 DEF ReaderFits
  <2>2. r.oid \in Nat /\ r.oid \in 1..Len(r.stack)
    BY <1>1, <2>1
  <2> QED BY <1>1, <2>1, <2>2
<1>3. PICK q : q = WithOid(r, "slot", k + 1)
  OBVIOUS
<1>4. th' = [th EXCEPT ![Reader] = q]
  BY <1>2, <1>3 DEF NextSlot, WithOid
<1>5. q.pc = "slot" /\ q.path = r.path /\ q.stack = r.stack /\ q.oid = k + 1 /\ IsThread(q)
  BY <1>1, <1>3, WithOidIs
<1>6. AnswerFits(cat, faults', q) /\ Later(q) = "slot"
  BY <1>5, UnaskedFits DEF Asks, Returns
<1>7. Onward
  <2>1. OidsFit' /\ InodesFit' /\ BlocksFit'
    BY DEF CatalogInvariant, CachesFit, OidsFit, InodesFit, BlocksFit
  <2> QED BY <2>1 DEF Onward, CatalogInvariant, CachesFit
<1>8. ReaderFits(cat, faults', items, DOMAIN inodes', q)
  <2>1. k + 1 \in 1..(Len(r.stack) + 1)
    BY <1>1, <1>2
  <2>2. \A i \in 1..Len(r.stack) : r.stack[i] \in DOMAIN inodes \cup {0}
    BY <1>1 DEF ReaderFits
  <2> QED BY <1>1, <1>2, <1>5, <1>6, <2>1, <2>2 DEF ReaderFits
<1>9. k \in Files /\ entry \in [Files -> Entries]
  BY <1>1, <1>2 DEF CatalogInvariant, EntriesTyped
<1>10. EntriesTyped'
  BY <1>2, <1>9 DEF EntriesTyped, Files, Entries
<1>11. \A f \in 1..(q.oid - 1) : SlotFits(cat, faults', items, entry'[f], f)
  <2>1. \A f \in 1..(k - 1) : SlotFits(cat, faults, items, entry[f], f)
    BY <1>2 DEF CatalogInvariant, ReaderFit
  <2>2. ASSUME NEW f \in 1..k PROVE SlotFits(cat, faults, items, entry'[f], f)
    <3>1. CASE f = k
      <4>1. entry'[f] = e
        BY <1>2, <1>9, <3>1
      <4> QED BY <1>2, <3>1, <4>1
    <3>2. CASE f # k
      <4>1. entry'[f] = entry[f] /\ f \in 1..(k - 1)
        BY <1>2, <1>9, <3>2
      <4> QED BY <2>1, <4>1
    <3> QED BY <3>1, <3>2
  <2>3. q.oid - 1 = k
    BY <1>5
  <2> QED BY <2>2, <2>3
<1>12. Later(r) # "idle"
  OBVIOUS
<1> QED BY <1>4, <1>5, <1>6, <1>7, <1>8, <1>10, <1>11, <1>12, ReaderGoes

(* Each slot is as the catalog has the item, or is lost to a failed read.    *)
LEMMA SlotsStep ==
  ASSUME CatalogInvariant,
         SlotWithoutExtents \/ SlotFromCache \/ SlotFromBatch \/ LookUpExtents \/ ExtentsRead
  PROVE  CatalogInvariant' /\ phase' = "catalog"
<1>1. PICK r : r = th[Reader]
  OBVIOUS
<1>2. /\ phase = "catalog" /\ phase' = "catalog" /\ r.pc \in {"slot", "extentsRead"}
      /\ UNCHANGED <<cat, oids, inodes, extents, blocks, items, faults>>
  BY <1>1 DEF SlotWithoutExtents, SlotFromCache, SlotFromBatch, LookUpExtents, ExtentsRead, NeedsExtents,
              AtSlot, At, vars, caches, Slot, WithList
<1>3. SUFFICES CatalogInvariant'
  BY <1>2
<1>4. Later(r) = r.pc /\ Later(r) # "idle" /\ r.pc \notin Asks
  BY <1>2 DEF Later, Asks
<1>5. /\ IsThread(r) /\ AnswerFits(cat, faults, r)
      /\ ReaderFits(cat, faults, items, DOMAIN inodes, r) /\ IsCatalog(cat)
      /\ WindowLen = WindowOf(items) /\ WindowLen \in Nat
      /\ Len(r.stack) \in Nat /\ Len(r.stack) = WindowLen
      /\ r.oid \in Nat /\ r.oid \in 1..(Len(r.stack) + 1)
      /\ \A i \in 1..Len(r.stack) : r.stack[i] # 0 =>
           r.stack[i] = OidIn(cat, items[i]) /\ r.stack[i] \in DOMAIN cat
      /\ 0 \notin DOMAIN cat
  <2>1. r.oid \in 1..(Len(r.stack) + 1) /\ Len(r.stack) = WindowOf(items)
    BY <1>1, <1>2, <1>4, ReaderFacts DEF ReaderFits
  <2> QED BY <1>1, <1>2, <2>1, ReaderFacts
<1>6. r.oid <= Len(r.stack) /\ r.oid \in 1..Len(r.stack)
  <2>1. r.oid <= WindowLen \/ r.pc = "extentsRead"
    BY <1>1 DEF SlotWithoutExtents, SlotFromCache, SlotFromBatch, LookUpExtents, ExtentsRead, NeedsExtents,
                AtSlot, At
  <2>2. r.oid <= Len(r.stack)
    BY <1>4, <1>5, <2>1 DEF ReaderFits
  <2> QED BY <1>5, <2>2
<1>7. PICK o : o = r.stack[r.oid] /\ o = SlotOid
  BY <1>1 DEF SlotOid
<1>8. o # 0 => /\ o = OidIn(cat, items[r.oid]) /\ o \in DOMAIN cat
               /\ o \in DOMAIN inodes /\ inodes[o] = InodeIn(cat, o)
  <2>1. o \in DOMAIN inodes \cup {0}
    BY <1>2, <1>4, <1>5, <1>6, <1>7 DEF ReaderFits
  <2> QED BY <1>5, <1>6, <1>7, <2>1 DEF CatalogInvariant, CachesFit, InodesFit
<1>9. ASSUME NEW e, Slot(r.oid, e), NextSlot, ExtentsFit', e \in Entries,
             SlotFits(cat, faults, items, e, r.oid)
      PROVE  CatalogInvariant'
  <2>1. entry' = [entry EXCEPT ![r.oid] = e]
    BY <1>9 DEF Slot
  <2> QED BY <1>1, <1>2, <1>4, <1>6, <1>9, <2>1, SlotFilled
<1>17. ASSUME o # 0, Slot(r.oid, ExpectedIn(cat, o)), NextSlot, ExtentsFit'
       PROVE  CatalogInvariant'
  <2>1. PICK e : e = ExpectedIn(cat, o)
    OBVIOUS
  <2>2. e \in Entries
    BY <1>5, <1>8, <1>17, <2>1, ExpectedIsEntry
  <2>3. SlotFits(cat, faults, items, e, r.oid)
    BY <1>8, <1>17, <2>1 DEF SlotFits
  <2>4. Slot(r.oid, e)
    BY <1>17, <2>1
  <2> QED BY <1>9, <1>17, <2>2, <2>3, <2>4
<1>18. ASSUME NEW e, Slot(r.oid, e), NextSlot, ExtentsFit', e \in Entries,
              e.kind \in {"lost", "special"}, faults > 0
       PROVE  CatalogInvariant'
  <2>1. SlotFits(cat, faults, items, e, r.oid)
    BY <1>18 DEF SlotFits
  <2> QED BY <1>9, <1>18, <2>1
<1>10. ASSUME UNCHANGED batch PROVE ExtentsFit'
  BY <1>2, <1>10 DEF CatalogInvariant, CachesFit, ExtentsFit
<1>11. ASSUME o # 0, inodes[o].kind = "regular", inodes[o].size > 0
       PROVE  /\ cat[o].kind = "regular" /\ cat[o].size > 0
              /\ ExpectedIn(cat, o) = [kind |-> "regular", size |-> inodes[o].size,
                                        extents |-> cat[o].extents, mtime |-> inodes[o].mtime]
              /\ inodes[o].pid = cat[o].pid /\ inodes[o].pid \in DOMAIN cat
              /\ Stream(cat, inodes[o].pid) = cat[o].extents
  <2>1. inodes[o].kind = cat[o].kind /\ inodes[o].size = IF IsDir(cat, o) THEN 0 ELSE cat[o].size
    BY <1>8, <1>11 DEF InodeIn
  <2>2. cat[o].kind = "regular" /\ cat[o].size > 0 /\ cat[o].size = inodes[o].size
    BY <1>11, <2>1 DEF IsDir
  <2>3. inodes[o].pid = cat[o].pid /\ inodes[o].mtime = cat[o].mtime
    BY <1>8, <1>11 DEF InodeIn
  <2>4. cat[o].pid \in DOMAIN cat /\ Stream(cat, cat[o].pid) = cat[o].extents
    BY <1>5, <1>8, <1>11, <2>2, StreamIsOwn
  <2> QED BY <2>2, <2>3, <2>4 DEF ExpectedIn
<1>12. CASE SlotWithoutExtents
  <2>1. ExtentsFit' /\ NextSlot
    BY <1>10, <1>12 DEF SlotWithoutExtents, caches
  <2>2. CASE o = 0 /\ Slot(r.oid, Lost)
    <3>1. faults > 0
      <4>1. o = OidIn(cat, items[r.oid]) \/ faults > 0
        BY <1>5, <1>6, <1>7 DEF ReaderFits
      <4>2. OidIn(cat, items[r.oid]) \in DOMAIN cat
        BY <1>1, <1>2, <1>5, <1>6, ReaderFacts
      <4> QED BY <1>5, <2>2, <4>1, <4>2
    <3>2. Lost \in Entries /\ Lost.kind = "lost"
      BY WindowAssumption DEF Lost, Entries
    <3> QED BY <1>18, <2>1, <2>2, <3>1, <3>2
  <2>3. CASE /\ o # 0 /\ (inodes[o].kind = "special" \/ inodes[o].size = 0)
             /\ Slot(r.oid, EmptyEntry(inodes[o].kind, inodes[o].mtime))
    <3>1. inodes[o].kind = cat[o].kind /\ inodes[o].mtime = cat[o].mtime /\ inodes[o].size = IF IsDir(cat, o) THEN 0 ELSE cat[o].size
      BY <1>8, <2>3 DEF InodeIn
    <3>2. ~ (cat[o].kind = "regular" /\ cat[o].size > 0)
      BY <2>3, <3>1 DEF IsDir
    <3>3. EmptyEntry(inodes[o].kind, inodes[o].mtime) = ExpectedIn(cat, o)
      BY <3>1, <3>2 DEF ExpectedIn
    <3>4. Slot(r.oid, ExpectedIn(cat, o))
      BY <2>3, <3>3
    <3> QED BY <1>17, <2>1, <2>3, <3>4
  <2> QED BY <1>1, <1>7, <1>12, <2>2, <2>3 DEF SlotWithoutExtents, SlotTime
<1>13. CASE SlotFromCache
  <2>1. PICK p : /\ p = inodes[o].pid /\ p \in DOMAIN extents
                 /\ o # 0 /\ inodes[o].kind = "regular" /\ inodes[o].size > 0
                 /\ Slot(r.oid, [kind |-> "regular", size |-> inodes[o].size,
                                 extents |-> extents[p], mtime |-> inodes[o].mtime])
                 /\ NextSlot /\ UNCHANGED batch
    BY <1>1, <1>7, <1>13 DEF SlotFromCache, NeedsExtents, WithList, SlotPid, SlotTime, caches
  <2>2. extents[p] = cat[o].extents
    BY <1>11, <2>1 DEF CatalogInvariant, CachesFit, ExtentsFit
  <2>3. ExpectedIn(cat, o) = [kind |-> "regular", size |-> inodes[o].size,
                              extents |-> extents[p], mtime |-> inodes[o].mtime]
    BY <1>11, <2>1, <2>2
  <2>4. Slot(r.oid, ExpectedIn(cat, o))
    BY <2>1, <2>3
  <2> QED BY <1>17, <1>10, <2>1, <2>4
<1>14. CASE SlotFromBatch
  <2>1. PICK p : /\ p = inodes[o].pid /\ p \in DOMAIN batch
                 /\ o # 0 /\ inodes[o].kind = "regular" /\ inodes[o].size > 0
                 /\ Slot(r.oid, [kind |-> "regular", size |-> inodes[o].size,
                                 extents |-> batch[p], mtime |-> inodes[o].mtime])
                 /\ NextSlot /\ batch' = AfterTaking(p)
    BY <1>1, <1>7, <1>14 DEF SlotFromBatch, NeedsExtents, WithList, SlotPid, SlotTime
  <2>2. batch[p] = cat[o].extents
    BY <1>11, <2>1 DEF CatalogInvariant, CachesFit, ExtentsFit
  <2>3. ExtentsFit'
    <3>1. PICK after : after = batch' /\ after = [x \in DOMAIN batch \ {p} |-> batch[x]]
      BY <2>1 DEF AfterTaking
    <3>2. \A x \in DOMAIN after : after[x] = Stream(cat, x)
      BY <3>1 DEF CatalogInvariant, CachesFit, ExtentsFit
    <3> QED BY <1>2, <3>1, <3>2 DEF CatalogInvariant, CachesFit, ExtentsFit
  <2>4. ExpectedIn(cat, o) = [kind |-> "regular", size |-> inodes[o].size,
                              extents |-> batch[p], mtime |-> inodes[o].mtime]
    BY <1>11, <2>1, <2>2
  <2>5. Slot(r.oid, ExpectedIn(cat, o))
    BY <2>1, <2>4
  <2> QED BY <1>17, <2>1, <2>3, <2>5
<1>15. CASE LookUpExtents
  <2>1. /\ r.pc = "slot" /\ o # 0 /\ inodes[o].kind = "regular" /\ inodes[o].size > 0
        /\ UNCHANGED <<entry, batch>>
    BY <1>1, <1>7, <1>15 DEF LookUpExtents, NeedsExtents, AtSlot, At, vars, caches
  <2>2. PICK p, q : p = inodes[o].pid /\ q = Asking(r, p, "extentsRead")
    OBVIOUS
  <2>3. th' = [th EXCEPT ![Reader] = q]
    BY <1>1, <1>7, <1>15, <2>2 DEF LookUpExtents, SlotPid
  <2>4. /\ AnswerFits(cat, faults', q) /\ IsThread(q) /\ Later(q) = "extentsRead"
        /\ q.pc = "get" /\ q.path = r.path /\ q.stack = r.stack /\ q.oid = r.oid
    <3>1. q.stack = r.stack /\ q.oid = r.oid /\ q.pc = "get" /\ q.ret = "extentsRead"
      BY <1>5, <2>2, AskingIs
    <3>2. p = cat[o].pid /\ p \in DOMAIN cat
      BY <1>11, <2>1, <2>2
    <3>4. Wanted(cat, q) = p
      BY <1>7, <3>1, <3>2 DEF Wanted, Later, Asks
    <3>3. "extentsRead" \in Returns
      BY DEF Returns
    <3> QED BY <1>5, <2>2, <3>1, <3>2, <3>3, <3>4, AskingFits
  <2>5. Onward
    BY <1>2, <2>1, NothingEntered
  <2>6. cat[o].kind = "regular" /\ cat[o].size > 0
    BY <1>11, <2>1
  <2>7. ReaderFits(cat, faults', items, DOMAIN inodes', q)
    <3>1. \A i \in 1..Len(r.stack) : r.stack[i] \in DOMAIN inodes \cup {0}
      BY <1>4, <1>5, <2>1 DEF ReaderFits
    <3> QED BY <1>2, <1>5, <1>6, <1>7, <2>1, <2>4, <2>6, <3>1 DEF ReaderFits
  <2>8. \A f \in 1..(q.oid - 1) : SlotFits(cat, faults', items, entry'[f], f)
    BY <1>1, <1>2, <1>4, <2>1, <2>4 DEF CatalogInvariant, ReaderFit
  <2>9. EntriesTyped'
    BY <2>1 DEF CatalogInvariant, EntriesTyped
  <2> QED BY <1>1, <1>2, <1>4, <2>3, <2>4, <2>5, <2>7, <2>8, <2>9, ReaderGoes
<1>16. CASE ExtentsRead
  <2>1. /\ r.pc = "extentsRead" /\ NextSlot /\ UNCHANGED batch
        /\ IF r.answer # NoAnswer THEN WithList(Stream(cat, r.answer))
           ELSE Slot(r.oid, EmptyEntry("special", inodes[o].mtime))
    BY <1>1, <1>7, <1>16 DEF ExtentsRead, At, Answered, SlotTime, caches
  <2>2. o # 0 /\ cat[o].kind = "regular" /\ cat[o].size > 0
    BY <1>4, <1>5, <1>7, <2>1 DEF ReaderFits
  <2>6. /\ inodes[o].size = cat[o].size /\ inodes[o].mtime = cat[o].mtime
        /\ cat[o].pid \in DOMAIN cat /\ Stream(cat, cat[o].pid) = cat[o].extents
        /\ cat[o].mtime \in Mtimes
    <3>1. inodes[o].size = cat[o].size /\ inodes[o].mtime = cat[o].mtime
      BY <1>8, <2>2 DEF InodeIn, IsDir
    <3>2. cat[o].mtime \in Mtimes
      BY <1>5, <1>8, <2>2 DEF IsCatalog
    <3> QED BY <1>5, <1>8, <2>2, <3>1, <3>2, StreamIsOwn
  <2>3. r.answer = cat[o].pid \/ (r.answer = NoAnswer /\ faults > 0)
    <3>1. Wanted(cat, r) = cat[o].pid
      BY <1>4, <1>7, <2>1 DEF Wanted
    <3> QED BY <1>5, <2>1, <3>1 DEF AnswerFits, Returns
  <2>4. CASE r.answer # NoAnswer
    <3>1. Stream(cat, r.answer) = cat[o].extents
      BY <2>3, <2>4, <2>6
    <3>2. Slot(r.oid, [kind |-> "regular", size |-> cat[o].size, extents |-> cat[o].extents,
                       mtime |-> cat[o].mtime])
      BY <1>1, <1>7, <2>1, <2>4, <2>6, <3>1 DEF WithList, SlotTime
    <3>3. ExpectedIn(cat, o) = [kind |-> "regular", size |-> cat[o].size,
                                extents |-> cat[o].extents, mtime |-> cat[o].mtime]
      BY <2>2 DEF ExpectedIn
    <3>4. Slot(r.oid, ExpectedIn(cat, o))
      BY <3>2, <3>3
    <3> QED BY <1>17, <1>10, <2>1, <2>2, <3>4
  <2>5. CASE r.answer = NoAnswer
    <3>1. PICK e : e = EmptyEntry("special", inodes[o].mtime)
      OBVIOUS
    <3>2. e \in Entries /\ e.kind = "special"
      BY <2>6, <3>1 DEF EmptyEntry, Entries
    <3>3. faults > 0
      BY <1>5, <2>3, <2>5, <2>6 DEF NoAnswer
    <3>4. Slot(r.oid, e)
      BY <2>1, <2>5, <3>1
    <3> QED BY <1>18, <1>10, <2>1, <3>2, <3>3, <3>4
  <2> QED BY <2>4, <2>5
<1> QED BY <1>12, <1>13, <1>14, <1>15, <1>16

(* The window that is found is the catalog's.                                *)
LEMMA FoundStep ==
  ASSUME CatalogInvariant, WindowIsFound
  PROVE  CatalogInvariant' /\ phase = "catalog" /\ phase' = "prepare"
<1>1. PICK r : r = th[Reader]
  OBVIOUS
<1>2. /\ phase = "catalog" /\ phase' = "prepare" /\ r.pc = "slot" /\ r.oid > WindowLen
      /\ UNCHANGED <<cat, entry, oids, inodes, extents, batch, blocks, items, faults>>
      /\ th' = [th EXCEPT ![Reader].pc = "done"]
  BY <1>1 DEF WindowIsFound, At, Goto, vars, caches
<1>3. Later(r) = "slot"
  BY <1>2 DEF Later, Asks
<1>4. \A f \in 1..WindowOf(items) : SlotFits(cat, faults, items, entry[f], f)
  <2>1. PICK n \in Nat : n = WindowLen /\ n = WindowOf(items) /\ n = Len(r.stack)
    BY <1>1, <1>2, <1>3, ReaderFacts DEF ReaderFits
  <2>2. r.oid \in 1..(n + 1)
    BY <1>1, <1>2, <1>3, <2>1, ReaderFacts DEF ReaderFits
  <2>3. r.oid - 1 = n
    BY <1>2, <2>1, <2>2
  <2>4. \A f \in 1..(r.oid - 1) : SlotFits(cat, faults, items, entry[f], f)
    BY <1>1, <1>2, <1>3 DEF CatalogInvariant, ReaderFit
  <2> QED BY <2>1, <2>3, <2>4
<1>5. WindowFits'
  BY <1>2, <1>4 DEF WindowFits
<1>6. ThreadsFit'
  <2>1. th = [t \in Threads |-> th[t]]
    BY DEF CatalogInvariant, ThreadsFit
  <2>2. th' = [t \in Threads |-> th'[t]]
    BY <1>2, <2>1
  <2> QED BY <1>2, <2>2 DEF ThreadsFit
<1>7. WalkersFit' /\ ReaderFit' /\ IsCatalog(cat') /\ faults' \in Nat /\ EntriesTyped'
  BY <1>2 DEF CatalogInvariant, WalkersFit, ReaderFit, EntriesTyped
<1>8. CachesFit'
  BY <1>2 DEF CatalogInvariant, CachesFit, OidsFit, InodesFit, ExtentsFit, BlocksFit
<1> QED BY <1>2, <1>5, <1>6, <1>7, <1>8 DEF CatalogInvariant


-----------------------------------------------------------------------------
(* Both starts are in order: no path is known, nothing was asked.            *)
LEMMA CatalogStarts ==
  ASSUME RawInit
  PROVE  CatalogInvariant
<1>1. /\ oids = <<>> /\ batch = <<>> /\ items = <<>> /\ faults = 0
      /\ DOMAIN oids = {} /\ DOMAIN batch = {} /\ Len(items) = 0 /\ items \in Seq({})
  <2>1. oids = <<>> /\ batch = <<>> /\ items = <<>> /\ faults = 0
    BY DEF RawInit, CatalogInit, AnyWindow
  <2> QED BY <2>1
<1>2. WindowOf(items) = 0
  BY <1>1, WindowAssumption DEF WindowOf, Smaller
<1>3. WindowFits
  <2>1. 1..WindowOf(items) = {}
    BY <1>2
  <2> QED BY <2>1 DEF WindowFits
<1>4. OidsFit
  BY <1>1 DEF OidsFit
<1>5. IsPath(<<>>)
  BY DEF IsPath
<1>6. CASE CatalogInit
  <2>1. /\ cat \in Layouts /\ IsCatalog(cat) /\ phase = "catalog" /\ roots \in [Walkers -> RootPaths]
        /\ entry = [f \in Files |-> Lost]
        /\ th = [t \in Threads |-> IF t = Reader THEN Idle
                                   ELSE [Idle EXCEPT !.pc = "root", !.path = roots[t]]]
        /\ blocks = [s \in 0..(Shards - 1) |-> [map |-> <<>>, order |-> <<>>]]
    BY <1>6, CatalogAssumption DEF CatalogInit, Lost
  <2>2. EntriesTyped
    <3>1. Lost \in Entries
      BY WindowAssumption DEF Lost, Entries
    <3> QED BY <2>1, <3>1 DEF EntriesTyped
  <2>3. PICK started : started = [t \in Walkers |-> [Idle EXCEPT !.pc = "root", !.path = roots[t]]]
    OBVIOUS
  <2>4. th[Reader] = Idle /\ \A t \in Walkers : th[t] = started[t]
    BY <2>1, <2>3 DEF Threads, Walkers, Reader
  <2>5. \A t \in Walkers : /\ IsThread(started[t]) /\ started[t].pc = "root" /\ started[t].stack = <<>>
                           /\ started[t].path = roots[t] /\ IsPath(roots[t])
    BY <2>1, <2>3, CatalogAssumption DEF Idle, IsThread, IsPath
  <2>6. IsThread(Idle) /\ Idle.pc = "idle" /\ Idle.stack = <<>> /\ Idle.path = <<>>
    BY DEF Idle, IsThread
  <2>7. ASSUME NEW r, r.pc \in {"idle", "root"}, IsPath(r.path)
        PROVE  AnswerFits(cat, faults, r) /\ ResolveFits(cat, DOMAIN oids, r) /\ Later(r) = r.pc
    BY <2>7 DEF AnswerFits, ResolveFits, Later, Asks, Returns
  <2>8. ThreadsFit
    <3>1. \A t \in Threads : t = Reader \/ t \in Walkers
      BY DEF Threads
    <3>2. ASSUME NEW t \in Threads
          PROVE  IsThread(th[t]) /\ th[t].pc \in {"idle", "root"} /\ IsPath(th[t].path)
      BY <1>5, <2>4, <2>5, <2>6, <3>1
    <3>3. th = [t \in Threads |-> th[t]]
      BY <2>1
    <3> QED BY <2>7, <3>2, <3>3 DEF ThreadsFit
  <2>9. WalkersFit
    <3>1. ASSUME NEW t \in Walkers PROVE WalkerFits(cat, th[t])
      <4>1. Later(th[t]) = "root" /\ th[t].stack = <<>>
        BY <2>4, <2>5, <2>7
      <4> QED BY <4>1 DEF WalkerFits
    <3> QED BY <3>1 DEF WalkersFit
  <2>10. ReaderFit
    <3>1. Later(th[Reader]) = "idle" /\ th[Reader].stack = <<>> /\ Len(th[Reader].stack) = 0
      BY <1>5, <2>4, <2>6, <2>7
    <3>2. ReaderFits(cat, faults, items, DOMAIN inodes, th[Reader])
      BY <1>2, <3>1 DEF ReaderFits
    <3> QED BY <2>1, <3>1, <3>2 DEF ReaderFit
  <2>11. InodesFit /\ ExtentsFit
    <3>1. PICK scanned \in BOOLEAN :
            /\ inodes = [o \in IF scanned THEN DOMAIN cat ELSE {} |-> InodeIn(cat, o)]
            /\ extents = [p \in IF scanned THEN Streams(cat) ELSE {} |-> Stream(cat, p)]
      BY <1>6 DEF CatalogInit
    <3> QED BY <1>1, <3>1 DEF InodesFit, ExtentsFit
  <2>12. BlocksFit
    <3>1. PICK none : none = [map |-> <<>>, order |-> <<>>]
      OBVIOUS
    <3>2. DOMAIN blocks = 0..(Shards - 1) /\ \A s \in DOMAIN blocks : blocks[s] = none
      BY <2>1, <3>1
    <3>3. DOMAIN none.map = {}
      BY <3>1
    <3> QED BY <3>2, <3>3 DEF BlocksFit
  <2> QED BY <1>1, <1>3, <1>4, <2>1, <2>2, <2>8, <2>9, <2>10, <2>11, <2>12 DEF CatalogInvariant, CachesFit
<1>7. CASE AnyWindow
  <2>1. /\ phase = "prepare" /\ entry \in [Files -> Entries]
        /\ cat = <<[kind |-> "dir", names |-> <<>>, pid |-> RootOid, mtime |-> Epoch]>>
        /\ DOMAIN inodes = {} /\ DOMAIN extents = {} /\ DOMAIN blocks = {}
        /\ th = [t \in Threads |-> [Idle EXCEPT !.pc = "done"]]
    BY <1>7 DEF AnyWindow, Init
  <2>2. IsCatalog(cat)
    <3>1. PICK d : d = [kind |-> "dir", names |-> <<>>, pid |-> RootOid, mtime |-> Epoch]
      OBVIOUS
    <3>2. /\ cat = <<d>> /\ DOMAIN cat = {1} /\ cat[1] = d /\ d.kind = "dir" /\ d.names = <<>>
          /\ d.pid = 1 /\ d.mtime \in Mtimes
      BY <2>1, <3>1, WindowAssumption DEF RootOid
    <3>3. Range(cat) = {d} /\ cat \in Seq({d})
      BY <3>2 DEF Range
    <3>4. DOMAIN d.names = {} /\ Range(d.names) = {}
      BY <3>2 DEF Range
    <3>5. IsFiniteSet(DOMAIN d.names)
      BY <3>4, FS_EmptySet
    <3> QED BY <3>2, <3>3, <3>4, <3>5 DEF IsCatalog, RootOid
  <2>3. InodesFit /\ ExtentsFit /\ BlocksFit /\ WalkersFit /\ ReaderFit /\ ThreadsFit
    <3>1. th = [t \in Threads |-> th[t]]
      BY <2>1
    <3> QED BY <1>1, <2>1, <3>1 DEF InodesFit, ExtentsFit, BlocksFit, WalkersFit, ReaderFit, ThreadsFit
  <2> QED BY <1>1, <1>3, <1>4, <2>1, <2>2, <2>3 DEF CatalogInvariant, CachesFit, EntriesTyped
<1> QED BY <1>6, <1>7 DEF RawInit

(* Once the window is found the catalog rests, and the window's entries with *)
(* it.                                                                       *)
LEMMA CatalogRests ==
  ASSUME CatalogInvariant, UNCHANGED <<catalogVars, entry>>,
         phase' = phase \/ (phase # "catalog" /\ phase' # "catalog")
  PROVE  CatalogInvariant'
<1>1. UNCHANGED <<cat, th, oids, inodes, extents, batch, blocks, items, faults>>
  BY DEF catalogVars, caches
<1>2. IsCatalog(cat') /\ faults' \in Nat /\ EntriesTyped' /\ WindowFits' /\ ThreadsFit' /\ WalkersFit' /\ ReaderFit'
  BY <1>1 DEF CatalogInvariant, EntriesTyped, WindowFits, ThreadsFit, WalkersFit, ReaderFit
<1>3. CachesFit'
  BY <1>1 DEF CatalogInvariant, CachesFit, OidsFit, InodesFit, ExtentsFit, BlocksFit
<1> QED BY <1>2, <1>3 DEF CatalogInvariant

LEMMA WindowKeepsEntries ==
  ASSUME Next
  PROVE  UNCHANGED entry /\ phase # "catalog" /\ phase' # "catalog"
<1>1. CASE Prepare \/ StartRun \/ ExtendTouching \/ ExtendOverGap \/ ReadRun \/ ReadFails
  BY <1>1 DEF Prepare, StartRun, ExtendTouching, ExtendOverGap, ReadRun, ReadFails, RunIsComplete
<1>2. CASE CopyTask
  BY <1>2 DEF CopyTask, Ship
<1>3. CASE RunsEnd \/ RestSkips \/ RestShipsEmpty \/ RestShipsSpecial \/ WindowDone
  BY <1>3 DEF RunsEnd, RestSkips, RestShipsEmpty, RestShipsSpecial, Ship, WindowDone
<1>4. CASE Returned
  BY <1>4 DEF Returned, vars
<1> QED BY <1>1, <1>2, <1>3, <1>4 DEF Next

(* Until then the window's own state is untouched.                           *)
LEMMA CatalogActionFacts ==
  ASSUME (\E t \in Threads : Resolve(t) \/ ReadBlock(t) \/ Walk(t)) \/ FindWindow
  PROVE  phase = "catalog" /\ UNCHANGED <<tasks, slots, run, next, rest, shipped>>
<1>1. ASSUME NEW t \in Threads, Resolve(t) \/ ReadBlock(t)
      PROVE  phase = "catalog" /\ UNCHANGED vars
  BY <1>1 DEF Resolve, ReadBlock, DirectHit, ParentHit, ParentOpened, ParentListed, LookedUp, At,
              CacheGet, DeviceRead, DeviceFails, CachePut
<1>2. ASSUME NEW t \in Threads, Walk(t)
      PROVE  phase = "catalog" /\ UNCHANGED <<tasks, slots, run, next, rest, shipped>>
  BY <1>2 DEF Walk, OpenRoot, RootOpened, RootIsFile, ListDir, DirListed, WalkFails, At, vars
<1>3. ASSUME FindWindow
      PROVE  phase = "catalog" /\ UNCHANGED <<tasks, slots, run, next, rest, shipped>>
  <2>1. CASE StartWindow \/ ResolveItem \/ ItemResolved \/ BatchInodes \/ LookUpInode \/ InodeRead
             \/ BatchExtents \/ LookUpExtents
    BY <2>1 DEF StartWindow, ResolveItem, ItemResolved, BatchInodes, LookUpInode, InodeRead,
                BatchExtents, LookUpExtents, NeedsExtents, AtSlot, At, vars
  <2>2. CASE SlotWithoutExtents \/ SlotFromCache \/ SlotFromBatch \/ ExtentsRead \/ WindowIsFound
    BY <2>2 DEF SlotWithoutExtents, SlotFromCache, SlotFromBatch, ExtentsRead, WindowIsFound,
                NeedsExtents, AtSlot, At, WithList, Slot
  <2> QED BY <1>3, <2>1, <2>2 DEF FindWindow
<1> QED BY <1>1, <1>2, <1>3 DEF vars

LEMMA WindowStutters ==
  ASSUME WindowInvariant, UNCHANGED <<entry, tasks, slots, run, next, rest, shipped, phase>>
  PROVE  WindowInvariant'
<1>1. /\ AllTasks' = AllTasks /\ Before' = Before /\ EntriesTyped'
      /\ \A f : TasksOf(f)' = TasksOf(f) /\ Contents(f)' = Contents(f)
  BY EntryIsKept DEF WindowInvariant
<1>2. UNCHANGED <<remaining, data, sent>>
  BY DEF slots
<1>3. NotBegun' /\ TasksInOrder' /\ RunSpans' /\ RestIsSent'
  BY <1>1, <1>2 DEF WindowInvariant, NotBegun, TasksInOrder, RunSpans, RestIsSent, Reading
<1>4. Counted' /\ CopiedIsSent'
  BY <1>1, <1>2 DEF WindowInvariant, Counted, CopiedIsSent, Lengths, Uncopied, Reading
<1>5. CopiedSoFar'
  BY <1>1, <1>2 DEF WindowInvariant, CopiedSoFar, CellIs, Covers, Reading
<1>6. SentIsShipped' /\ ShippedIsComplete'
  BY <1>1, <1>2 DEF WindowInvariant, SentIsShipped, ShippedIsComplete
<1> QED BY <1>1, <1>3, <1>4, <1>5, <1>6 DEF WindowInvariant

(* The whole of it: the shards, the catalog with its caches, the window.     *)
RawInvariant == ShardsSound /\ CatalogInvariant /\ WindowInvariant

(* From the first block read to the last file sent, with any catalog, roots, *)
(* faults and interleaving of the walks with each other: threads, caches,    *)
(* window, tasks and slots are as RawInvariant has them.                     *)
THEOREM RawIsInvariant == RawSpec => []RawInvariant
<1>1. RawInit => CatalogInvariant /\ WindowInvariant
  BY CatalogStarts, WindowStarts DEF CatalogInvariant
<1>2. ShardsSound /\ CatalogInvariant /\ WindowInvariant /\ [RawNext]_allVars
        => (CatalogInvariant /\ WindowInvariant)'
  <2> SUFFICES ASSUME ShardsSound, CatalogInvariant, WindowInvariant, [RawNext]_allVars
               PROVE  CatalogInvariant' /\ WindowInvariant'
    OBVIOUS
  <2>1. CASE (\E t \in Threads : Resolve(t) \/ ReadBlock(t) \/ Walk(t)) \/ FindWindow
    <3>1. CatalogInvariant' /\ phase' \in {"catalog", "prepare", "error"}
      <4>1. CASE \E t \in Threads : Resolve(t) \/ ReadBlock(t) \/ Walk(t)
        BY <4>1, ResolveStep, ReadStep, WalkStep
      <4>2. CASE FindWindow
        BY <4>2, ItemsStep, InodesStep, SlotsStep, FoundStep DEF FindWindow
      <4> QED BY <2>1, <4>1, <4>2
    <3>2. EntriesTyped'
      BY <3>1 DEF CatalogInvariant
    <3> QED BY <2>1, <3>1, <3>2, CatalogActionFacts, CatalogLeavesWindow
  <2>2. CASE Next /\ UNCHANGED catalogVars
    BY <2>2, WindowStep, WindowKeepsEntries, CatalogRests
  <2>3. CASE UNCHANGED allVars
    <3>1. UNCHANGED <<entry, tasks, slots, run, next, rest, shipped, phase, catalogVars>>
      BY <2>3 DEF allVars, vars
    <3>2. CatalogInvariant'
      BY <3>1, CatalogRests
    <3>3. WindowInvariant'
      BY <3>1, WindowStutters
    <3> QED BY <3>2, <3>3
  <2> QED BY <2>1, <2>2, <2>3 DEF RawNext
<1> QED BY <1>1, <1>2, CacheInvariant, PTL DEF RawSpec, RawInvariant

(* Whatever the extents and the runs they are coalesced into, `remaining` is *)
(* the sum of what is still to be copied of a file.                          *)
THEOREM RemainingIsExact == RawSpec => []RemainingIsUncopied
<1>1. WindowInvariant => RemainingIsUncopied
  <2> SUFFICES ASSUME WindowInvariant, Reading, NEW f \in Files
               PROVE  remaining[f] = SumFunctionOnSet([k \in DOMAIN tasks |-> tasks[k].len], Uncopied(f))
    BY DEF RemainingIsUncopied, Reading
  <2>1. remaining = [g \in Files |-> SumFunctionOnSet(Lengths, Uncopied(g))]
    BY DEF WindowInvariant, Counted
  <2>2. remaining[f] = SumFunctionOnSet(Lengths, Uncopied(f))
    BY <2>1
  <2> QED BY <2>2 DEF Lengths
<1> QED BY <1>1, RawIsInvariant, PTL DEF RawInvariant

(* A file with data on the device is sent with every cell where its extents  *)
(* put it, for any extents, block size, run length and gap.                  *)
THEOREM FilesAreSentWhole == RawSpec => []ShippedIsComplete
<1> QED BY RawIsInvariant, PTL DEF RawInvariant, WindowInvariant

(* No slot is sent twice, and a window that is done has sent every slot that *)
(* was found.                                                                *)
THEOREM FilesAreSentOnce == RawSpec => []ShippedOnce
<1>1. WindowInvariant => ShippedOnce
  <2> SUFFICES ASSUME WindowInvariant PROVE ShippedOnce
    OBVIOUS
  <2>1. \A j, k \in DOMAIN shipped : j # k => shipped[j].file # shipped[k].file
    BY DEF WindowInvariant, SentIsShipped
  <2>2. ASSUME phase = "done"
        PROVE  {shipped[k].file : k \in DOMAIN shipped} = {f \in Files : entry[f].kind # "lost"}
    <3>1. \A f \in Files : f < rest
      BY <2>2, WindowAssumption DEF WindowInvariant, RestIsSent, Files
    <3>2. \A f \in Files : entry[f].kind = "lost" \/ sent[f]
      BY <2>2, <3>1 DEF WindowInvariant, RestIsSent
    <3>3. \A f \in Files : sent[f] <=> \E k \in DOMAIN shipped : shipped[k].file = f
      BY <2>2 DEF WindowInvariant, SentIsShipped
    <3>4. \A k \in DOMAIN shipped : shipped[k].file \in Files /\ entry[shipped[k].file].kind # "lost"
      BY DEF WindowInvariant, SentIsShipped
    <3> QED BY <3>2, <3>3, <3>4
  <2> QED BY <2>1, <2>2 DEF ShippedOnce
<1> QED BY <1>1, RawIsInvariant, PTL DEF RawInvariant

(* A path in the oid cache leads to its oid in any catalog, whichever thread *)
(* entered it and from whichever block.                                      *)
THEOREM OidsAlwaysAnswer == RawSpec => []OidsAnswerTheirPaths
<1>1. CatalogInvariant => OidsAnswerTheirPaths
  BY DEF CatalogInvariant, CachesFit, OidsFit, OidsAnswerTheirPaths, OidAt
<1> QED BY <1>1, RawIsInvariant, PTL DEF RawInvariant

(* The window has every item as the catalog does, from whichever cache,      *)
(* batch or lookup; only a failed read loses a file or leaves it to the      *)
(* point read.                                                               *)
THEOREM WindowIsTheCatalogs == RawSpec => []WindowIsFaithful
<1>1. CatalogInvariant => WindowIsFaithful
  <2> SUFFICES ASSUME CatalogInvariant, phase # "catalog", NEW f \in 1..WindowLen
               PROVE  \/ entry[f] = Expected(OidAt(items[f]))
                      \/ faults > 0 /\ entry[f].kind \in {"lost", "special"}
    BY DEF WindowIsFaithful
  <2>1. f \in 1..WindowOf(items)
    BY DEF WindowLen, WindowOf
  <2>2. SlotFits(cat, faults, items, entry[f], f)
    BY <2>1 DEF CatalogInvariant, WindowFits
  <2>3. Expected(OidAt(items[f])) = ExpectedIn(cat, OidIn(cat, items[f]))
    BY DEF Expected, ExpectedIn, OidAt
  <2> QED BY <2>2, <2>3 DEF SlotFits
<1> QED BY <1>1, RawIsInvariant, PTL DEF RawInvariant

-----------------------------------------------------------------------------
(* Prefixes of paths, position by position.                                  *)
LEMMA PrefixIs ==
  ASSUME NEW s, NEW t, IsPath(s), IsPath(t)
  PROVE  /\ Len(s) \in Nat /\ Len(t) \in Nat
         /\ IsPrefix(s, t) <=> Len(s) <= Len(t) /\ \A i \in 1..Len(s) : s[i] = t[i]
         /\ s = t <=> Len(s) = Len(t) /\ \A i \in 1..Len(s) : s[i] = t[i]
<1>1. PICK S : S = Range(s) \cup Range(t)
  OBVIOUS
<1>2. s \in Seq(S) /\ t \in Seq(S)
  <2>1. PICK A, B : A = Range(s) /\ B = Range(t) /\ A \subseteq S /\ B \subseteq S
    BY <1>1
  <2>2. s \in Seq(A) /\ t \in Seq(B)
    BY <2>1 DEF IsPath
  <2> QED BY <2>1, <2>2
<1>3. PICK n, m : n = Len(s) /\ m = Len(t)
  OBVIOUS
<1>4. /\ n \in Nat /\ m \in Nat
      /\ \A i \in 1..n : s[i] \in S /\ \A j \in 1..m : t[j] \in S
  BY <1>2, <1>3
<1>5. s = t <=> n = m /\ \A i \in 1..n : s[i] = t[i]
  BY <1>2, <1>3, SeqEqual
<1>6. ASSUME n <= m PROVE SubSeq(s, 1, n) = SubSeq(t, 1, n) <=> \A i \in 1..n : s[i] = t[i]
  <2>1. PICK a, b : a = SubSeq(s, 1, n) /\ b = SubSeq(t, 1, n)
    OBVIOUS
  <2>2. \A i \in 1..n : s[i] \in S /\ t[i] \in S
    BY <1>4, <1>6, <1>2, <1>3
  <2>3. /\ a \in Seq(S) /\ Len(a) = IF 1 <= n THEN n - 1 + 1 ELSE 0
        /\ \A i \in 1..(n - 1 + 1) : a[i] = s[1 + i - 1]
    BY <1>4, <2>1, <2>2, SubSeqProperties
  <2>4. /\ b \in Seq(S) /\ Len(b) = IF 1 <= n THEN n - 1 + 1 ELSE 0
        /\ \A i \in 1..(n - 1 + 1) : b[i] = t[1 + i - 1]
    BY <1>4, <2>1, <2>2, SubSeqProperties
  <2>5. Len(a) = n /\ Len(b) = n /\ \A i \in 1..n : a[i] = s[i] /\ b[i] = t[i]
    BY <1>4, <2>3, <2>4
  <2>6. a = b <=> \A i \in 1..n : a[i] = b[i]
    BY <2>3, <2>4, <2>5, SeqEqual
  <2> QED BY <2>1, <2>5, <2>6
<1> QED BY <1>3, <1>4, <1>5, <1>6 DEF IsPrefix

(* What a path is with a name more.                                          *)
LEMMA ChildIs ==
  ASSUME NEW d, IsPath(d)
  PROVE  /\ Len(d) \in Nat
         /\ \A n : /\ IsPath(ChildPath(d, n)) /\ Len(ChildPath(d, n)) = Len(d) + 1
                  /\ ChildPath(d, n)[Len(d) + 1] = n /\ \A i \in 1..Len(d) : ChildPath(d, n)[i] = d[i]
         /\ \A n, m : ChildPath(d, n) = ChildPath(d, m) => n = m
         /\ d # <<>> => IsPath(Front(d)) /\ d = ChildPath(Front(d), Last(d))
<1>1. ASSUME NEW n
      PROVE  /\ IsPath(Append(d, n)) /\ Len(d) \in Nat /\ Len(Append(d, n)) = Len(d) + 1
             /\ Append(d, n)[Len(d) + 1] = n /\ \A i \in 1..Len(d) : Append(d, n)[i] = d[i]
  <2>1. IsPath(Append(d, n))
    BY PathParts
  <2>2. PICK T : T = Range(d) \cup {n}
    OBVIOUS
  <2>3. d \in Seq(T) /\ n \in T
    <3>1. PICK A : A = Range(d) /\ A \subseteq T
      BY <2>2
    <3>2. d \in Seq(A)
      BY <3>1 DEF IsPath
    <3> QED BY <2>2, <3>1, <3>2
  <2> QED BY <2>1, <2>3
<1>2. Len(d) \in Nat
  BY PrefixIs
<1>3. \A n, m : ChildPath(d, n) = ChildPath(d, m) => n = m
  BY PathParts DEF ChildPath
<1>4. d # <<>> => IsPath(Front(d)) /\ d = ChildPath(Front(d), Last(d))
  BY PathParts DEF ChildPath
<1>5. \A n : /\ IsPath(ChildPath(d, n)) /\ Len(ChildPath(d, n)) = Len(d) + 1
             /\ ChildPath(d, n)[Len(d) + 1] = n /\ \A i \in 1..Len(d) : ChildPath(d, n)[i] = d[i]
  BY <1>1 DEF ChildPath
<1> QED BY <1>2, <1>3, <1>4, <1>5

LEMMA ChildLeads ==
  ASSUME NEW c, IsCatalog(c), NEW d, IsPath(d), NEW n
  PROVE  OidIn(c, ChildPath(d, n)) = ChildOf(c, OidIn(c, d), n)
BY WhatPathsLeadTo DEF ChildPath

LEMMA PrefixesOrder ==
  ASSUME NEW a, NEW b, NEW p, IsPath(a), IsPath(b), IsPath(p)
  PROVE  /\ IsPrefix(p, p)
         /\ IsPrefix(a, b) /\ IsPrefix(b, p) => IsPrefix(a, p)
         /\ IsPrefix(a, b) /\ IsPrefix(b, a) => a = b
         /\ IsPrefix(a, p) /\ IsPrefix(b, p) => IsPrefix(a, b) \/ IsPrefix(b, a)
<1>1. PICK k, l, m : k = Len(a) /\ l = Len(b) /\ m = Len(p)
  OBVIOUS
<1>2. k \in Nat /\ l \in Nat /\ m \in Nat
  BY <1>1, PrefixIs
<1>3. /\ IsPrefix(p, p)
      /\ IsPrefix(a, b) <=> k <= l /\ \A i \in 1..k : a[i] = b[i]
      /\ IsPrefix(b, a) <=> l <= k /\ \A i \in 1..l : b[i] = a[i]
      /\ IsPrefix(a, p) <=> k <= m /\ \A i \in 1..k : a[i] = p[i]
      /\ IsPrefix(b, p) <=> l <= m /\ \A i \in 1..l : b[i] = p[i]
      /\ a = b <=> k = l /\ \A i \in 1..k : a[i] = b[i]
  BY <1>1, <1>2, PrefixIs
<1>4. (k <= l => 1..k \subseteq 1..l) /\ (l <= k => 1..l \subseteq 1..k) /\ (k <= l \/ l <= k)
  BY <1>2
<1>5. ASSUME IsPrefix(a, b), IsPrefix(b, p) PROVE IsPrefix(a, p)
  <2>1. k <= m
    BY <1>2, <1>3, <1>5
  <2>2. \A i \in 1..k : a[i] = p[i]
    BY <1>3, <1>4, <1>5
  <2> QED BY <1>3, <2>1, <2>2
<1>6. ASSUME IsPrefix(a, b), IsPrefix(b, a) PROVE a = b
  <2>1. k = l
    BY <1>2, <1>3, <1>6
  <2> QED BY <1>3, <1>6, <2>1
<1>7. ASSUME IsPrefix(a, p), IsPrefix(b, p) PROVE IsPrefix(a, b) \/ IsPrefix(b, a)
  BY <1>3, <1>4, <1>7
<1> QED BY <1>3, <1>5, <1>6, <1>7

(* The children of a directory, and what is below them.                      *)
LEMMA ChildPrefixes ==
  ASSUME NEW d, NEW p, IsPath(d), IsPath(p)
  PROVE  /\ \A n : IsPrefix(ChildPath(d, n), p) => IsPrefix(d, p) /\ p # d
         /\ IsPrefix(d, p) /\ p # d => \E n : IsPrefix(ChildPath(d, n), p)
         /\ \A n, m : IsPrefix(ChildPath(d, n), p) /\ IsPrefix(ChildPath(d, m), p) => n = m
         /\ \A n : IsPrefix(p, ChildPath(d, n)) => p = ChildPath(d, n) \/ IsPrefix(p, d)
         /\ \A n : IsPrefix(d, ChildPath(d, n)) /\ d # ChildPath(d, n)
<1>1. PICK k, m : k = Len(d) /\ m = Len(p)
  OBVIOUS
<1>2. k \in Nat /\ m \in Nat /\ k + 1 \in 1..(k + 1) /\ 1..k \subseteq 1..(k + 1)
      /\ \A i \in 1..(k + 1) : i = k + 1 \/ i \in 1..k
  <2>1. k \in Nat /\ m \in Nat
    BY <1>1, PrefixIs
  <2> QED BY <2>1
<1>3. /\ IsPrefix(d, p) <=> k <= m /\ \A i \in 1..k : d[i] = p[i]
      /\ IsPrefix(p, d) <=> m <= k /\ \A i \in 1..m : p[i] = d[i]
      /\ p = d <=> k = m /\ \A i \in 1..k : d[i] = p[i]
  BY <1>1, PrefixIs
<1>4. ASSUME NEW n
      PROVE  \E c : /\ c = ChildPath(d, n)
                    /\ c[k + 1] = n /\ \A i \in 1..k : c[i] = d[i]
                    /\ IsPrefix(c, p) <=> k + 1 <= m /\ \A i \in 1..(k + 1) : c[i] = p[i]
                    /\ IsPrefix(p, c) <=> m <= k + 1 /\ \A i \in 1..m : p[i] = c[i]
                    /\ IsPrefix(d, c) <=> k <= k + 1 /\ \A i \in 1..k : d[i] = c[i]
                    /\ p = c <=> m = k + 1 /\ \A i \in 1..m : p[i] = c[i]
                    /\ d = c <=> k = k + 1 /\ \A i \in 1..k : d[i] = c[i]
  <2>1. PICK c : c = ChildPath(d, n)
    OBVIOUS
  <2>2. IsPath(c) /\ Len(c) = k + 1 /\ c[k + 1] = n /\ \A i \in 1..k : c[i] = d[i]
    BY <1>1, <2>1, ChildIs
  <2>3. /\ IsPrefix(c, p) <=> k + 1 <= m /\ \A i \in 1..(k + 1) : c[i] = p[i]
        /\ IsPrefix(p, c) <=> m <= k + 1 /\ \A i \in 1..m : p[i] = c[i]
        /\ IsPrefix(d, c) <=> k <= k + 1 /\ \A i \in 1..k : d[i] = c[i]
        /\ p = c <=> m = k + 1 /\ \A i \in 1..m : p[i] = c[i]
        /\ d = c <=> k = k + 1 /\ \A i \in 1..k : d[i] = c[i]
    BY <1>1, <2>2, PrefixIs
  <2> QED BY <2>1, <2>2, <2>3
<1>5. ASSUME NEW n, IsPrefix(ChildPath(d, n), p) PROVE IsPrefix(d, p) /\ p # d /\ p[k + 1] = n
  <2>1. k + 1 <= m /\ p[k + 1] = n /\ \A i \in 1..k : d[i] = p[i]
    <3>1. PICK c : /\ c = ChildPath(d, n)
                   /\ c[k + 1] = n /\ \A i \in 1..k : c[i] = d[i]
                   /\ IsPrefix(c, p) <=> k + 1 <= m /\ \A i \in 1..(k + 1) : c[i] = p[i]
      BY <1>4
    <3> QED BY <1>2, <1>5, <3>1
  <2>2. k <= m /\ k # m
    BY <1>2, <2>1
  <2> QED BY <1>3, <2>1, <2>2
<1>6. ASSUME IsPrefix(d, p), p # d PROVE \E n : IsPrefix(ChildPath(d, n), p)
  <2>1. PICK n : n = p[k + 1]
    OBVIOUS
  <2>2. PICK c : /\ c = ChildPath(d, n)
                 /\ c[k + 1] = n /\ \A i \in 1..k : c[i] = d[i]
                 /\ IsPrefix(c, p) <=> k + 1 <= m /\ \A i \in 1..(k + 1) : c[i] = p[i]
    BY <1>4
  <2>3. k + 1 <= m
    <3>1. k <= m /\ ~ (k = m)
      BY <1>3, <1>6
    <3> QED BY <1>2, <3>1
  <2>4. \A i \in 1..k : d[i] = p[i]
    BY <1>3, <1>6
  <2>5. ASSUME NEW i \in 1..(k + 1) PROVE c[i] = p[i]
    <3>1. CASE i = k + 1
      BY <2>1, <2>2, <3>1
    <3>2. CASE i # k + 1
      BY <1>2, <2>2, <2>4, <3>2
    <3> QED BY <3>1, <3>2
  <2>6. IsPrefix(ChildPath(d, n), p)
    BY <2>2, <2>3, <2>5
  <2> QED BY <2>6
<1>7. ASSUME NEW n, IsPrefix(p, ChildPath(d, n)) PROVE p = ChildPath(d, n) \/ IsPrefix(p, d)
  <2>1. PICK c : /\ c = ChildPath(d, n) /\ \A i \in 1..k : c[i] = d[i]
                 /\ IsPrefix(p, c) <=> m <= k + 1 /\ \A i \in 1..m : p[i] = c[i]
                 /\ p = c <=> m = k + 1 /\ \A i \in 1..m : p[i] = c[i]
    BY <1>4
  <2>2. m <= k + 1 /\ \A i \in 1..m : p[i] = c[i]
    BY <1>7, <2>1
  <2>3. CASE m = k + 1
    BY <2>1, <2>2, <2>3
  <2>4. CASE m # k + 1
    <3>1. m <= k /\ \A i \in 1..m : i \in 1..k
      BY <1>2, <2>2, <2>4
    <3>2. ASSUME NEW i \in 1..m PROVE p[i] = d[i]
      <4>1. i \in 1..k
        BY <3>1
      <4> QED BY <2>1, <2>2, <4>1
    <3> QED BY <1>3, <3>1, <3>2
  <2> QED BY <2>3, <2>4
<1>8. ASSUME NEW n PROVE IsPrefix(d, ChildPath(d, n)) /\ d # ChildPath(d, n)
  <2>1. k <= k + 1 /\ k # k + 1
    BY <1>2
  <2>2. PICK c : /\ c = ChildPath(d, n) /\ \A i \in 1..k : c[i] = d[i]
                 /\ IsPrefix(d, c) <=> k <= k + 1 /\ \A i \in 1..k : d[i] = c[i]
                 /\ d = c <=> k = k + 1 /\ \A i \in 1..k : d[i] = c[i]
    BY <1>4
  <2> QED BY <2>1, <2>2
<1> QED BY <1>5, <1>6, <1>7, <1>8

(* Only a directory has anything below it.                                   *)
LEMMA DirsAreAbove ==
  ASSUME NEW c, IsCatalog(c), NEW q, IsPath(q), NEW p, IsPath(p),
         IsPrefix(q, p), q # p, OidIn(c, p) # 0
  PROVE  OidIn(c, q) \in DOMAIN c /\ IsDir(c, OidIn(c, q))
<1> DEFINE Bad(x) == IsPath(x) /\ IsPrefix(q, x) /\ q # x /\ OidIn(c, x) # 0
           B == {n \in Nat : \E x : Bad(x) /\ Len(x) = n}
<1>1. SUFFICES ASSUME ~ (OidIn(c, q) \in DOMAIN c /\ IsDir(c, OidIn(c, q))) PROVE FALSE
  OBVIOUS
<1>2. PICK n \in B : \A m \in B : n <= m
  <2>1. B \in SUBSET Nat /\ B # {}
    <3>1. Len(p) \in Nat
      BY PrefixIs
    <3> QED BY <3>1
  <2> HIDE DEF B
  <2> QED BY <2>1, Least
<1>3. PICK x : Bad(x) /\ Len(x) = n
  BY <1>2
<1>4. x # <<>>
  <2>1. IsPath(<<>>)
    BY PathParts
  <2>2. Len(x) \in Nat /\ Len(q) <= Len(x)
    BY <1>3, PrefixIs
  <2>3. CASE x = <<>>
    <3>1. IsPrefix(x, q)
      <4>1. Len(x) = 0 /\ Len(q) \in Nat /\ 1..Len(x) = {}
        <5>1. Len(<<>>) = 0
          OBVIOUS
        <5> QED BY <2>3, <5>1, PrefixIs
      <4> QED BY <1>3, <4>1, PrefixIs
    <3> QED BY <1>3, <3>1, PrefixesOrder
  <2> QED BY <2>3
<1>5. PICK f, name : f = Front(x) /\ name = Last(x) /\ IsPath(f) /\ x = ChildPath(f, name)
  BY <1>3, <1>4, ChildIs
<1>6. OidIn(c, x) = ChildOf(c, OidIn(c, f), name)
  BY <1>5, ChildLeads
<1>7. OidIn(c, f) \in DOMAIN c /\ IsDir(c, OidIn(c, f))
  <2>1. DOMAIN <<>> = {}
    OBVIOUS
  <2>2. NamesIn(c, OidIn(c, f)) # <<>>
    BY <1>3, <1>6, <2>1 DEF ChildOf
  <2> QED BY <2>2 DEF NamesIn
<1>8. IsPrefix(q, f)
  <2>1. IsPrefix(q, x) /\ q # x
    BY <1>3
  <2> HIDE DEF Bad
  <2> QED BY <1>5, <2>1, ChildPrefixes
<1>9. q # f
  BY <1>1, <1>7
<1>10. OidIn(c, f) # 0
  BY <1>7, WhatPathsLeadTo
<1>11. Len(f) \in Nat /\ n = Len(f) + 1
  BY <1>3, <1>5, ChildIs
<1>12. Len(f) \in B
  BY <1>5, <1>8, <1>9, <1>10, <1>11
<1> QED BY <1>2, <1>11, <1>12

-----------------------------------------------------------------------------
(* What the walks have sent.  A walk that finds its root no directory sends  *)
(* the root or nothing; any other has the directories on its stack before it *)
(* and what is below them, and each file under its root that it has not      *)
(* before it has been sent.  These are of a walker's thread r and its root.  *)
Searches == Resolves \cup {"root", "rootOpened"}

LeadsToDir(c, p) == OidIn(c, p) \in DOMAIN c /\ IsDir(c, OidIn(c, p))

SearchFits(c, known, root, r) ==
  /\ r.path = root
  /\ Later(r) \in Searches \cup {"done"} => r.stack = <<>>
  /\ Later(r) \in Resolves => ~ LeadsToDir(c, root)
  /\ Later(r) = "again" => (OidIn(c, root) # 0 => root \in known)
  /\ Later(r) = "resolved" => r.oid = OidIn(c, root)

(* No directory of the stack is below another.                               *)
StackFits(root, s) ==
  /\ \A i \in DOMAIN s : IsPrefix(root, s[i].path)
  /\ \A i, j \in DOMAIN s : i # j => ~ IsPrefix(s[i].path, s[j].path)

ToCome(r, p) == Later(r) \in Searches \/ \E i \in DOMAIN r.stack : IsPrefix(r.stack[i].path, p)

(* How often a walk has come past p.                                         *)
Passes(root, r, p) == IF IsPrefix(root, p) /\ ~ ToCome(r, p) THEN 1 ELSE 0

WalksFit ==
  \A t \in Walkers :
    SearchFits(cat, DOMAIN oids, roots[t], th[t]) /\ StackFits(roots[t], th[t].stack)

SentIs(p, n) == Times(items, p) = IF IsFile(cat, OidIn(cat, p)) THEN n ELSE 0

FilesCounted ==
  \A p : IsPath(p) => SentIs(p, Passes(roots[1], th[1], p) + Passes(roots[2], th[2], p))

(* All of this while no read has failed: a walk that fails ends the run.     *)
WalksCounted == phase = "catalog" /\ faults = 0 => WalksFit /\ FilesCounted

ReaderRests == phase # "catalog" => th[Reader].pc \in {"idle", "done"}

WalkInvariant == WalksCounted /\ ReaderRests

(* A step of one walk, by what it sends and what it comes past.              *)
LEMMA WalkMoves ==
  ASSUME CatalogInvariant, WalksCounted, phase = "catalog", faults = 0,
         UNCHANGED <<cat, roots>>, DOMAIN oids \subseteq DOMAIN oids',
         NEW t \in Walkers, NEW q, th' = [th EXCEPT ![t] = q],
         SearchFits(cat, DOMAIN oids', roots[t], q), StackFits(roots[t], q.stack),
         \A p : IsPath(p) =>
           Times(items', p) = Times(items, p) +
             IF IsFile(cat, OidIn(cat, p)) THEN Passes(roots[t], q, p) - Passes(roots[t], th[t], p) ELSE 0
  PROVE  WalksCounted'
<1>1. WalksFit /\ FilesCounted
  BY DEF WalksCounted
<1>2. PICK u \in Walkers : u # t /\ Walkers = {t, u}
  BY DEF Walkers
<1>3. th'[t] = q /\ th'[u] = th[u]
  <2>1. th = [v \in Threads |-> th[v]] /\ t \in Threads /\ u \in Threads
    BY DEF CatalogInvariant, ThreadsFit, Threads
  <2> QED BY <1>2, <2>1
<1>4. WalksFit'
  <2>1. SearchFits(cat, DOMAIN oids', roots[u], th[u]) /\ StackFits(roots[u], th[u].stack)
    BY <1>1 DEF WalksFit, SearchFits
  <2>2. SearchFits(cat', DOMAIN oids', roots'[t], th'[t]) /\ StackFits(roots'[t], th'[t].stack)
    BY <1>3
  <2>3. SearchFits(cat', DOMAIN oids', roots'[u], th'[u]) /\ StackFits(roots'[u], th'[u].stack)
    BY <1>3, <2>1
  <2> QED BY <1>2, <2>2, <2>3 DEF WalksFit
<1>5. ASSUME NEW p, IsPath(p)
      PROVE  Times(items', p) = IF IsFile(cat, OidIn(cat, p))
                                  THEN Passes(roots[1], th'[1], p) + Passes(roots[2], th'[2], p) ELSE 0
  <2>1. PICK a, b, d : /\ a = Passes(roots[t], th[t], p) /\ b = Passes(roots[u], th[u], p)
                       /\ d = Passes(roots[t], q, p)
    OBVIOUS
  <2>2. a \in {0, 1} /\ b \in {0, 1} /\ d \in {0, 1}
    BY <2>1 DEF Passes
  <2>3. Passes(roots[1], th[1], p) + Passes(roots[2], th[2], p) = a + b
    <3>1. (t = 1 /\ u = 2) \/ (t = 2 /\ u = 1)
      BY <1>2 DEF Walkers
    <3> QED BY <2>1, <2>2, <3>1
  <2>4. Passes(roots[1], th'[1], p) + Passes(roots[2], th'[2], p) = d + b
    <3>1. (t = 1 /\ u = 2) \/ (t = 2 /\ u = 1)
      BY <1>2 DEF Walkers
    <3>2. Passes(roots[t], th'[t], p) = d /\ Passes(roots[u], th'[u], p) = b
      BY <1>3, <2>1
    <3> QED BY <2>2, <3>1, <3>2
  <2>5. Times(items, p) = IF IsFile(cat, OidIn(cat, p)) THEN a + b ELSE 0
    BY <1>1, <1>5, <2>3 DEF FilesCounted, SentIs
  <2>6. Times(items', p) = Times(items, p) + IF IsFile(cat, OidIn(cat, p)) THEN d - a ELSE 0
    BY <1>5, <2>1
  <2>7. CASE IsFile(cat, OidIn(cat, p))
    <3>1. Times(items', p) = (a + b) + (d - a)
      BY <2>5, <2>6, <2>7
    <3>2. (a + b) + (d - a) = d + b
      BY <2>2
    <3> QED BY <2>4, <2>7, <3>1, <3>2
  <2>8. CASE ~ IsFile(cat, OidIn(cat, p))
    <3>1. Times(items', p) = 0 + 0
      BY <2>5, <2>6, <2>8
    <3> QED BY <2>8, <3>1
  <2> QED BY <2>7, <2>8
<1>6. FilesCounted'
  BY <1>5 DEF FilesCounted, SentIs
<1> QED BY <1>4, <1>6 DEF WalksCounted

(* What others do leaves the walks as they are.                              *)
LEMMA WalksRest ==
  ASSUME WalksCounted, phase = "catalog", faults' = 0 => faults = 0,
         UNCHANGED <<cat, roots, items>>, DOMAIN oids \subseteq DOMAIN oids',
         \A u \in Walkers : th'[u] = th[u]
  PROVE  WalksCounted'
<1> SUFFICES ASSUME faults' = 0 PROVE WalksFit' /\ FilesCounted'
  BY DEF WalksCounted
<1>1. WalksFit /\ FilesCounted
  BY DEF WalksCounted
<1>2. WalksFit'
  <2>1. ASSUME NEW u \in Walkers
        PROVE  SearchFits(cat', DOMAIN oids', roots'[u], th'[u]) /\ StackFits(roots'[u], th'[u].stack)
    <3>1. SearchFits(cat, DOMAIN oids', roots[u], th[u]) /\ StackFits(roots[u], th[u].stack)
      BY <1>1 DEF WalksFit, SearchFits
    <3> QED BY <3>1
  <2> QED BY <2>1 DEF WalksFit
<1>3. th'[1] = th[1] /\ th'[2] = th[2]
  BY DEF Walkers
<1>4. FilesCounted'
  BY <1>1, <1>3 DEF FilesCounted, SentIs
<1> QED BY <1>2, <1>4

(* A walk that still looks for its root has sent nothing of it.              *)
LEMMA SearchMoves ==
  ASSUME CatalogInvariant, WalksCounted, phase = "catalog", faults = 0,
         UNCHANGED <<cat, roots, items>>, DOMAIN oids \subseteq DOMAIN oids',
         NEW t \in Walkers, NEW q, th' = [th EXCEPT ![t] = q],
         Later(th[t]) \in Searches, Later(q) \in Searches, q.path = th[t].path, q.stack = th[t].stack,
         Later(q) \in Resolves => Later(th[t]) \in Resolves \/ ~ LeadsToDir(cat, roots[t]),
         Later(q) = "again" => (OidIn(cat, roots[t]) # 0 => roots[t] \in DOMAIN oids'),
         Later(q) = "resolved" => q.oid = OidIn(cat, roots[t])
  PROVE  WalksCounted'
<1>1. SearchFits(cat, DOMAIN oids, roots[t], th[t]) /\ StackFits(roots[t], th[t].stack)
  BY DEF WalksCounted, WalksFit
<1>2. SearchFits(cat, DOMAIN oids', roots[t], q)
  BY <1>1 DEF SearchFits
<1>3. ASSUME NEW p, IsPath(p)
      PROVE  Times(items', p) = Times(items, p) +
               IF IsFile(cat, OidIn(cat, p)) THEN Passes(roots[t], q, p) - Passes(roots[t], th[t], p) ELSE 0
  <2>1. Passes(roots[t], q, p) = 0 /\ Passes(roots[t], th[t], p) = 0
    BY DEF Passes, ToCome
  <2>2. Times(items, p) \in Nat
    BY <1>3 DEF WalksCounted, FilesCounted, SentIs, Passes
  <2> QED BY <2>1, <2>2
<1> QED BY <1>1, <1>2, <1>3, WalkMoves

LEMMA EnteredKeeps ==
  /\ \A new, old : DOMAIN old \subseteq DOMAIN Over(new, old)
  /\ \A key, value, old : DOMAIN old \subseteq DOMAIN Entered(key, value, old)
<1>1. ASSUME NEW new, NEW old PROVE DOMAIN old \subseteq DOMAIN Over(new, old)
  <2>1. DOMAIN Over(new, old) = DOMAIN new \cup DOMAIN old
    BY OverHas
  <2> QED BY <2>1
<1> QED BY <1>1 DEF Entered

(* A path that no read failed on opens if it leads to a directory.           *)
LEMMA UnopenedIs ==
  ASSUME IsCatalog(cat), NEW t, NEW p, IsPath(p), th[t].answer = OpeningIn(cat, p), Opened(t, p) = 0
  PROVE  ~ LeadsToDir(cat, p)
<1> SUFFICES ASSUME LeadsToDir(cat, p) PROVE FALSE
  OBVIOUS
<1>1. PICK a, o : a = th[t].answer /\ o = OidIn(cat, p)
  OBVIOUS
<1>2. o \in DOMAIN cat /\ IsDir(cat, o) /\ o # 0
  BY <1>1, WhatPathsLeadTo DEF LeadsToDir
<1>3. a # NoAnswer
  BY <1>1, OpeningIsKnown, WhatPathsLeadTo DEF NoAnswer
<1>4. CASE p = <<>>
  <2>1. a = o
    BY <1>1, <1>4, WhatPathsLeadTo DEF OpeningIn
  <2> QED BY <1>1, <1>2, <1>3, <1>4, <2>1 DEF Opened, Answered
<1>5. CASE p # <<>>
  <2>1. PICK f, n : f = Front(p) /\ n = Last(p) /\ IsPath(f) /\ p = ChildPath(f, n)
    BY <1>5, ChildIs
  <2>2. o = ChildOf(cat, OidIn(cat, f), n)
    BY <1>1, <2>1, ChildLeads
  <2>3. OidIn(cat, f) # 0
    <3>1. DOMAIN <<>> = {}
      OBVIOUS
    <3>2. OidIn(cat, f) \in DOMAIN cat
      BY <1>2, <2>2, <3>1 DEF ChildOf, NamesIn
    <3> QED BY <3>2, WhatPathsLeadTo
  <2>4. a = OidIn(cat, f)
    BY <1>1, <1>5, <2>1, <2>3 DEF OpeningIn
  <2> QED BY <1>1, <1>2, <1>3, <1>5, <2>1, <2>2, <2>3, <2>4 DEF Opened, Answered, OidAt
<1> QED BY <1>4, <1>5

LEMMA ResolveCounts ==
  ASSUME CatalogInvariant, WalksCounted, NEW t \in Walkers, Resolve(t), faults' = 0
  PROVE  WalksCounted'
<1>1. PICK r, root : r = th[t] /\ root = roots[t]
  OBVIOUS
<1>2. /\ phase = "catalog" /\ faults = 0 /\ UNCHANGED <<cat, roots, items>>
      /\ r.pc \in {"direct", "parent", "opened", "listed", "again"}
      /\ UNCHANGED <<inodes, extents, batch, blocks, faults>> /\ phase' = "catalog"
  BY <1>1 DEF Resolve, DirectHit, ParentHit, ParentOpened, ParentListed, LookedUp, At, vars, caches
<1>3. /\ IsThread(r) /\ AnswerFits(cat, faults, r) /\ ResolveFits(cat, DOMAIN oids, r)
      /\ IsCatalog(cat) /\ OidsFit
  BY <1>1, <1>2 DEF CatalogInvariant, ThreadsFit, CachesFit, Threads
<1>4. Later(r) = r.pc /\ Later(r) \in Resolves /\ Later(r) \in Searches
  BY <1>2 DEF Later, Asks, Resolves, Searches
<1>5. r.path = root /\ ~ LeadsToDir(cat, root) /\ IsPath(root)
      /\ (r.pc = "again" => (OidIn(cat, root) # 0 => root \in DOMAIN oids))
  BY <1>1, <1>2, <1>3, <1>4 DEF WalksCounted, WalksFit, SearchFits, ResolveFits
<1>6. PICK dir : dir = Parent(root)
  OBVIOUS
<1>7. /\ IsPath(dir) /\ root # <<>>
      /\ \E n : root = ChildPath(dir, n) /\ OidIn(cat, root) = ChildOf(cat, OidIn(cat, dir), n)
  <2>1. root # <<>>
    BY <1>3, <1>5, WhatPathsLeadTo DEF LeadsToDir
  <2>2. PICK n : IsPath(dir) /\ root = ChildPath(dir, n)
    BY <1>5, <1>6, <2>1, ChildIs DEF Parent
  <2>3. OidIn(cat, root) = ChildOf(cat, OidIn(cat, dir), n)
    BY <1>3, <2>2, ChildLeads
  <2> QED BY <2>1, <2>2, <2>3
<1>8. ASSUME NEW q, th' = [th EXCEPT ![t] = q], DOMAIN oids \subseteq DOMAIN oids',
             Later(q) \in Resolves, q.path = r.path, q.stack = r.stack,
             Later(q) = "again" => (OidIn(cat, root) # 0 => root \in DOMAIN oids'),
             Later(q) = "resolved" => q.oid = OidIn(cat, root)
      PROVE  WalksCounted'
  <2>1. Later(q) \in Searches
    BY <1>8 DEF Searches
  <2> QED BY <1>1, <1>2, <1>4, <1>8, <2>1, SearchMoves
<1>9. ASSUME NEW o, th' = [th EXCEPT ![t] = Resolved(r, o)], UNCHANGED oids, o = OidIn(cat, root)
      PROVE  WalksCounted'
  <2>1. PICK q : q = Resolved(r, o)
    OBVIOUS
  <2>2. q.pc = "resolved" /\ q.path = r.path /\ q.oid = o /\ q.stack = r.stack
    BY <1>3, <2>1, ResolvedIs
  <2>3. Later(q) = "resolved" /\ Later(q) \in Resolves
    BY <2>2 DEF Later, Asks, Resolves
  <2> QED BY <1>8, <1>9, <2>1, <2>2, <2>3
<1>10. ASSUME NEW s, IsThread(s), s.path = r.path, s.stack = r.stack, NEW o, NEW ret \in {"listed", "opened"},
              th' = [th EXCEPT ![t] = Asking(s, o, ret)], DOMAIN oids \subseteq DOMAIN oids'
       PROVE  WalksCounted'
  <2>1. PICK q : q = Asking(s, o, ret)
    OBVIOUS
  <2>2. q.pc = "get" /\ q.ret = ret /\ q.path = r.path /\ q.stack = r.stack
    BY <1>10, <2>1, AskingIs
  <2>3. Later(q) = ret /\ Later(q) \in Resolves /\ Later(q) # "again" /\ Later(q) # "resolved"
    BY <2>2 DEF Later, Asks, Resolves
  <2> QED BY <1>8, <1>10, <2>1, <2>2, <2>3
<1>11. ASSUME NEW pc \in {"parent", "again"}, th' = [th EXCEPT ![t] = [r EXCEPT !.pc = pc]],
              DOMAIN oids \subseteq DOMAIN oids',
              pc = "again" => (OidIn(cat, root) # 0 => root \in DOMAIN oids')
       PROVE  WalksCounted'
  <2>1. PICK q : q = [r EXCEPT !.pc = pc]
    OBVIOUS
  <2>2. q.pc = pc /\ q.path = r.path /\ q.stack = r.stack
    BY <1>3, <2>1 DEF IsThread
  <2>3. Later(q) = pc /\ Later(q) \in Resolves /\ Later(q) # "resolved"
    BY <2>2 DEF Later, Asks, Resolves
  <2> QED BY <1>8, <1>11, <2>1, <2>2, <2>3
<1>12. CASE DirectHit(t)
  <2>1. oids' = oids
    BY <1>12 DEF DirectHit, caches
  <2>2. CASE root \in DOMAIN oids
    <3>1. PICK o : o = oids[root]
      OBVIOUS
    <3>2. th' = [th EXCEPT ![t] = Resolved(r, o)]
      BY <1>1, <1>5, <1>12, <2>2, <3>1 DEF DirectHit
    <3>3. o = OidIn(cat, root)
      BY <1>3, <2>2, <3>1 DEF OidsFit
    <3> QED BY <1>9, <2>1, <3>2, <3>3
  <2>3. CASE root \notin DOMAIN oids
    <3>1. th' = [th EXCEPT ![t] = [r EXCEPT !.pc = "parent"]]
      BY <1>1, <1>5, <1>12, <2>3 DEF DirectHit
    <3> QED BY <1>11, <2>1, <3>1
  <2> QED BY <2>2, <2>3
<1>13. CASE ParentHit(t)
  <2>1. oids' = oids
    BY <1>13 DEF ParentHit, caches
  <2>2. CASE dir \in DOMAIN oids
    <3>1. PICK o, s : o = oids[dir] /\ s = [r EXCEPT !.oid = o]
      OBVIOUS
    <3>2. s.path = r.path /\ s.stack = r.stack /\ IsThread(s)
      BY <1>3, <3>1 DEF IsThread
    <3>3. th' = [th EXCEPT ![t] = Asking(s, o, "listed")]
      BY <1>1, <1>5, <1>6, <1>13, <2>2, <3>1 DEF ParentHit
    <3> QED BY <1>10, <2>1, <3>2, <3>3
  <2>3. CASE dir \notin DOMAIN oids
    <3>1. PICK o : o = OpeningBlock(dir)
      OBVIOUS
    <3>2. th' = [th EXCEPT ![t] = Asking(r, o, "opened")]
      BY <1>1, <1>5, <1>6, <1>13, <2>3, <3>1 DEF ParentHit
    <3> QED BY <1>3, <1>10, <2>1, <3>2
  <2> QED BY <2>2, <2>3
<1>14. CASE ParentOpened(t)
  <2>1. r.pc = "opened"
    BY <1>1, <1>14 DEF ParentOpened, At
  <2>2. th[t].answer = OpeningIn(cat, dir)
    <3>1. Wanted(cat, r) = OpeningIn(cat, dir)
      BY <1>4, <1>5, <1>6, <2>1 DEF Wanted
    <3> QED BY <1>1, <1>2, <1>3, <2>1, <3>1 DEF AnswerFits, Returns
  <2>3. PICK o : o = Opened(t, dir)
    OBVIOUS
  <2>4. CASE o = 0
    <3>1. th' = [th EXCEPT ![t] = Resolved(r, 0)] /\ oids' = oids
      BY <1>1, <1>5, <1>6, <1>14, <2>3, <2>4 DEF ParentOpened
    <3>2. ~ LeadsToDir(cat, dir)
      BY <1>3, <1>7, <2>2, <2>3, <2>4, UnopenedIs
    <3>3. OidIn(cat, root) = 0
      <4>1. DOMAIN <<>> = {}
        OBVIOUS
      <4>2. NamesIn(cat, OidIn(cat, dir)) = <<>>
        BY <3>2 DEF LeadsToDir, NamesIn
      <4> QED BY <1>7, <4>1, <4>2 DEF ChildOf
    <3> QED BY <1>9, <3>1, <3>3
  <2>5. CASE o # 0
    <3>1. PICK s : s = [r EXCEPT !.oid = o]
      OBVIOUS
    <3>2. s.path = r.path /\ s.stack = r.stack /\ IsThread(s)
      BY <1>3, <3>1 DEF IsThread
    <3>3. th' = [th EXCEPT ![t] = Asking(s, o, "listed")] /\ oids' = Entered(dir, o, oids)
      BY <1>1, <1>5, <1>6, <1>14, <2>3, <2>5, <3>1 DEF ParentOpened
    <3>4. DOMAIN oids \subseteq DOMAIN oids'
      BY <3>3, EnteredKeeps
    <3> QED BY <1>10, <3>2, <3>3, <3>4
  <2> QED BY <2>4, <2>5
<1>15. CASE ParentListed(t)
  <2>1. r.pc = "listed"
    BY <1>1, <1>15 DEF ParentListed, At
  <2>2. r.answer = OidIn(cat, dir) /\ r.answer # NoAnswer
    <3>1. Wanted(cat, r) = r.oid /\ r.oid = OidIn(cat, dir)
      BY <1>3, <1>4, <1>5, <1>6, <2>1 DEF Wanted, ResolveFits
    <3>2. r.answer = OidIn(cat, dir) /\ r.answer \in DOMAIN cat
      BY <1>2, <1>3, <1>4, <2>1, <3>1 DEF AnswerFits, Returns
    <3> QED BY <1>3, <3>2, WhatPathsLeadTo DEF NoAnswer
  <2>3. PICK new : new = Listing(dir, r.answer)
    OBVIOUS
  <2>4. th' = [th EXCEPT ![t] = [r EXCEPT !.pc = "again"]] /\ oids' = Over(new, oids)
    BY <1>1, <1>5, <1>6, <1>15, <2>2, <2>3 DEF ParentListed, Answered
  <2>5. DOMAIN oids' = DOMAIN new \cup DOMAIN oids
    BY <2>4, OverHas
  <2>6. ASSUME OidIn(cat, root) # 0 PROVE root \in DOMAIN new
    <3>1. PICK n : root = ChildPath(dir, n) /\ OidIn(cat, root) = ChildOf(cat, r.answer, n)
      BY <1>7, <2>2
    <3>2. n \in DOMAIN NamesIn(cat, r.answer)
      BY <2>6, <3>1 DEF ChildOf
    <3> QED BY <2>3, <3>1, <3>2 DEF Listing
  <2> QED BY <1>11, <2>4, <2>5, <2>6
<1>16. CASE LookedUp(t)
  <2>1. oids' = oids /\ r.pc = "again"
    BY <1>1, <1>16 DEF LookedUp, caches, At
  <2>2. PICK o : o = IF root \in DOMAIN oids THEN oids[root] ELSE 0
    OBVIOUS
  <2>3. th' = [th EXCEPT ![t] = Resolved(r, o)]
    BY <1>1, <1>5, <1>16, <2>2 DEF LookedUp
  <2>4. o = OidIn(cat, root)
    BY <1>3, <1>5, <2>1, <2>2 DEF OidsFit
  <2> QED BY <1>9, <2>1, <2>3, <2>4
<1> QED BY <1>12, <1>13, <1>14, <1>15, <1>16 DEF Resolve

(* A directory that was listed: its files are sent, and it gives way to its  *)
(* subdirectories.                                                           *)
Stacked(s) == s \in Seq(Range(s)) /\ s # <<>> /\ \A i \in DOMAIN s : IsPath(s[i].path)

AreChildren(S, dir, names) ==
  /\ IsFiniteSet(S)
  /\ \A d \in S : \E n \in names : d.path = ChildPath(dir, n)
  /\ \A d, e \in S : d.path = e.path => d = e

Descends(root, dir, names, S, s, new) ==
  /\ StackFits(root, new) /\ IsPath(dir) /\ IsPrefix(root, dir)
  /\ \A i \in DOMAIN new :
       \/ \E n \in names : new[i].path = ChildPath(dir, n)
       \/ \E j \in DOMAIN s : new[i] = s[j] /\ ~ IsPrefix(dir, s[j].path) /\ ~ IsPrefix(s[j].path, dir)
  /\ \A d \in S : \E i \in DOMAIN new : new[i] = d
  /\ \A j \in DOMAIN s : s[j].path # dir => \E i \in DOMAIN new : new[i] = s[j]
  /\ \E j \in DOMAIN s : s[j].path = dir

LEMMA StackDescends ==
  ASSUME NEW S, NEW s, Stacked(s), NEW root, IsPath(root), StackFits(root, s),
         NEW dir, dir = Head(s).path, NEW names, AreChildren(S, dir, names)
  PROVE  Descends(root, dir, names, S, s, Descend(S, s))
<1>0. /\ IsFiniteSet(S) /\ s \in Seq(Range(s)) /\ s # <<>> /\ \A i \in DOMAIN s : IsPath(s[i].path)
      /\ \A d \in S : \E n \in names : d.path = ChildPath(dir, n)
      /\ \A d, e \in S : d.path = e.path => d = e
  BY DEF Stacked, AreChildren
<1> SUFFICES ASSUME NEW new, new = Descend(S, s) PROVE Descends(root, dir, names, S, s, new)
  OBVIOUS
<1>1. PICK T : T = S \cup Range(s)
  OBVIOUS
<1>2. PICK a, b : a = SetToSeq(S) /\ b = Tail(s)
  OBVIOUS
<1>3. PICK R : R = Range(s)
  OBVIOUS
<1>4. s \in Seq(R) /\ Len(s) \in Nat /\ Len(s) # 0 /\ DOMAIN s = 1..Len(s)
  BY <1>0, <1>3, EmptySeq
<1>5. PICK k, m \in Nat : k = Len(a) /\ m = Len(b) /\ Len(s) = m + 1
  <2>1. Len(b) = Len(s) - 1 /\ Len(s) - 1 \in Nat /\ (Len(s) - 1) + 1 = Len(s)
    BY <1>2, <1>4, HeadTailProperties
  <2>2. Len(a) \in Nat
    BY <1>0, <1>2, SetToSeqHasAll, FS_CardinalityType
  <2> QED BY <2>1, <2>2
<1>6. /\ b \in Seq(R) /\ Head(s) = s[1] /\ \A j \in 1..m : b[j] = s[j + 1] /\ j + 1 \in DOMAIN s /\ j + 1 # 1
      /\ 1 \in DOMAIN s /\ DOMAIN b = 1..m
      /\ \A j \in DOMAIN s : j = 1 \/ (\E i \in 1..m : j = i + 1)
  <2>1. b \in Seq(R) /\ Len(b) = Len(s) - 1 /\ \A i \in 1..(Len(s) - 1) : b[i] = s[i + 1]
    BY <1>2, <1>4, HeadTailProperties
  <2>2. Len(s) - 1 = m /\ \A j \in 1..m : j + 1 \in 1..Len(s) /\ j + 1 # 1
    BY <1>5
  <2>3. 1 \in DOMAIN s /\ DOMAIN b = 1..m
    BY <1>4, <1>5, <2>1
  <2>4. \A j \in 1..(m + 1) : j = 1 \/ (j - 1 \in 1..m /\ j = (j - 1) + 1)
    OBVIOUS
  <2>5. \A j \in DOMAIN s : j = 1 \/ (\E i \in 1..m : j = i + 1)
    BY <1>4, <1>5, <2>4
  <2>6. Head(s) = s[1]
    BY <1>4
  <2> QED BY <1>4, <2>1, <2>2, <2>3, <2>5, <2>6
<1>7. /\ a \in Seq(S) /\ DOMAIN a = 1..k /\ \A i \in 1..k : a[i] \in S
      /\ \A d \in S : \E i \in 1..k : a[i] = d
      /\ \A i, j \in 1..k : a[i] = a[j] => i = j
  <2>1. a \in Seq(S)
    BY <1>0, <1>2, SetToSeqHasAll
  <2>2. DOMAIN a = 1..k
    BY <1>5, <2>1
  <2>3. /\ \A d \in S : \E i \in DOMAIN a : a[i] = d
        /\ \A i, j \in DOMAIN a : a[i] = a[j] => i = j
    BY <1>0, <1>2, SetToSeqHasAll
  <2>4. \A i \in DOMAIN a : a[i] \in S
    BY <2>1
  <2> QED BY <2>1, <2>2, <2>3, <2>4
<1>8. /\ DOMAIN new = 1..(k + m)
      /\ \A i \in 1..(k + m) : new[i] = IF i <= k THEN a[i] ELSE b[i - k]
  <2>1. a \in Seq(T) /\ b \in Seq(T)
    <3>1. S \subseteq T /\ R \subseteq T
      BY <1>1, <1>3
    <3> QED BY <1>6, <1>7, <3>1
  <2>2. new = a \o b
    BY <1>2 DEF Descend
  <2> QED BY <1>5, <2>1, <2>2, ConcatProperties
<1>9. \A i \in 1..(k + m) : \/ i \in 1..k /\ i <= k
                            \/ i - k \in 1..m /\ ~ (i <= k)
  OBVIOUS
<1>10. ASSUME NEW i \in DOMAIN new
       PROVE  \/ i \in 1..k /\ new[i] = a[i] /\ new[i] \in S
              \/ ~ (i <= k) /\ i - k \in 1..m /\ (i - k) + 1 \in DOMAIN s /\ (i - k) + 1 # 1 /\ new[i] = s[(i - k) + 1]
  BY <1>6, <1>7, <1>8, <1>9
<1>11. IsPath(dir) /\ IsPrefix(root, dir) /\ s[1].path = dir
  BY <1>0, <1>6 DEF StackFits
<1>12. \A j \in DOMAIN s : j # 1 => ~ IsPrefix(dir, s[j].path) /\ ~ IsPrefix(s[j].path, dir)
  BY <1>6, <1>11 DEF StackFits
<1>13. \A i \in DOMAIN new :
         \/ \E n \in names : new[i].path = ChildPath(dir, n)
         \/ \E j \in DOMAIN s : new[i] = s[j] /\ ~ IsPrefix(dir, s[j].path) /\ ~ IsPrefix(s[j].path, dir)
  BY <1>0, <1>10, <1>12
<1>14. \A d \in S : \E i \in DOMAIN new : new[i] = d
  <2>1. \A i \in 1..k : i \in 1..(k + m) /\ i <= k
    OBVIOUS
  <2> QED BY <1>7, <1>8, <2>1
<1>15. ASSUME NEW j \in DOMAIN s, s[j].path # dir PROVE \E i \in DOMAIN new : new[i] = s[j]
  <2>1. PICK i \in 1..m : j = i + 1
    BY <1>6, <1>11, <1>15
  <2>2. k + i \in 1..(k + m) /\ ~ (k + i <= k) /\ (k + i) - k = i
    OBVIOUS
  <2>3. new[k + i] = s[j]
    BY <1>6, <1>8, <2>1, <2>2
  <2> QED BY <1>8, <2>2, <2>3
<1>16. ASSUME NEW i \in DOMAIN new PROVE IsPrefix(root, new[i].path)
  <2>1. CASE \E n \in names : new[i].path = ChildPath(dir, n)
    <3>1. PICK n : new[i].path = ChildPath(dir, n)
      BY <2>1
    <3>2. IsPath(ChildPath(dir, n)) /\ IsPrefix(dir, ChildPath(dir, n))
      BY <1>11, ChildIs, ChildPrefixes
    <3>3. PICK c : c = ChildPath(dir, n)
      OBVIOUS
    <3> QED BY <1>11, <3>1, <3>2, <3>3, PrefixesOrder
  <2>2. CASE \E j \in DOMAIN s : new[i] = s[j]
    BY <2>2 DEF StackFits
  <2> QED BY <1>13, <2>1, <2>2
<1>17. ASSUME NEW i \in DOMAIN new, NEW j \in DOMAIN new, i # j
       PROVE  ~ IsPrefix(new[i].path, new[j].path)
  <2>1. ASSUME NEW n, NEW e, IsPath(e), ~ IsPrefix(dir, e), ~ IsPrefix(e, dir)
        PROVE  ~ IsPrefix(ChildPath(dir, n), e) /\ ~ IsPrefix(e, ChildPath(dir, n))
    <3>1. ~ IsPrefix(ChildPath(dir, n), e)
      BY <1>11, <2>1, ChildPrefixes
    <3>2. ASSUME IsPrefix(e, ChildPath(dir, n)) PROVE FALSE
      <4>1. e = ChildPath(dir, n)
        BY <1>11, <2>1, <3>2, ChildPrefixes
      <4> QED BY <1>11, <2>1, <4>1, ChildPrefixes
    <3> QED BY <3>1, <3>2
  <2>2. CASE i \in 1..k /\ j \in 1..k
    <3>1. new[i] \in S /\ new[j] \in S /\ new[i] = a[i] /\ new[j] = a[j]
      <4>1. i <= k /\ j <= k /\ i \in 1..(k + m) /\ j \in 1..(k + m)
        BY <2>2
      <4> QED BY <1>7, <1>8, <2>2, <4>1
    <3>2. new[i] # new[j]
      BY <1>7, <1>17, <2>2, <3>1
    <3>3. PICK n, l : new[i].path = ChildPath(dir, n) /\ new[j].path = ChildPath(dir, l)
      <4>1. PICK n : new[i].path = ChildPath(dir, n)
        BY <1>0, <3>1
      <4>2. PICK l : new[j].path = ChildPath(dir, l)
        BY <1>0, <3>1
      <4> QED BY <4>1, <4>2
    <3>4. n # l
      BY <1>0, <3>1, <3>2, <3>3
    <3>5. IsPath(ChildPath(dir, l)) /\ IsPrefix(ChildPath(dir, l), ChildPath(dir, l))
      BY <1>11, ChildIs, PrefixesOrder
    <3>6. PICK c : c = ChildPath(dir, l)
      OBVIOUS
    <3> QED BY <1>11, <3>3, <3>4, <3>5, <3>6, ChildPrefixes
  <2>3. CASE i \in 1..k /\ j \notin 1..k
    <3>1. PICK n : new[i].path = ChildPath(dir, n)
      <4>1. new[i] \in S
        BY <1>10, <2>3
      <4> QED BY <1>0, <4>1
    <3>2. PICK l \in DOMAIN s : l # 1 /\ new[j] = s[l]
      BY <1>10, <2>3
    <3> QED BY <1>0, <1>12, <2>1, <3>1, <3>2
  <2>4. CASE i \notin 1..k /\ j \in 1..k
    <3>1. PICK n : new[j].path = ChildPath(dir, n)
      <4>1. new[j] \in S
        BY <1>10, <2>4
      <4> QED BY <1>0, <4>1
    <3>2. PICK l \in DOMAIN s : l # 1 /\ new[i] = s[l]
      BY <1>10, <2>4
    <3> QED BY <1>0, <1>12, <2>1, <3>1, <3>2
  <2>5. CASE i \notin 1..k /\ j \notin 1..k
    <3>1. /\ (i - k) + 1 \in DOMAIN s /\ new[i] = s[(i - k) + 1]
          /\ (j - k) + 1 \in DOMAIN s /\ new[j] = s[(j - k) + 1]
      BY <1>10, <2>5
    <3>2. (i - k) + 1 # (j - k) + 1
      BY <1>8, <1>17
    <3> QED BY <3>1, <3>2 DEF StackFits
  <2> QED BY <2>2, <2>3, <2>4, <2>5
<1>18. StackFits(root, new)
  BY <1>16, <1>17 DEF StackFits
<1> QED BY <1>6, <1>11, <1>13, <1>14, <1>15, <1>18 DEF Descends

LEMMA ListedCounts ==
  ASSUME CatalogInvariant, WalksCounted, NEW t \in Walkers, DirListed(t), faults' = 0
  PROVE  WalksCounted'
<1>1. PICK r, root : r = th[t] /\ root = roots[t]
  OBVIOUS
<1>2. /\ phase = "catalog" /\ r.pc = "dirListed" /\ r.answer # NoAnswer /\ faults = 0
      /\ UNCHANGED <<cat, roots>>
  BY <1>1 DEF DirListed, At, Answered, vars
<1>3. Later(r) = "dirListed" /\ Later(r) \notin Searches
  BY <1>2 DEF Later, Asks, Searches, Resolves
<1>4. /\ IsThread(r) /\ AnswerFits(cat, faults, r) /\ IsCatalog(cat) /\ OidsFit
      /\ WalkerFits(cat, r) /\ r.stack # <<>>
  <2>1. WalkerFits(cat, r) /\ IsThread(r) /\ AnswerFits(cat, faults, r)
    BY <1>1, <1>2 DEF CatalogInvariant, ThreadsFit, WalkersFit, Threads
  <2> QED BY <1>3, <2>1 DEF CatalogInvariant, CachesFit, WalkerFits
<1>5. SearchFits(cat, DOMAIN oids, root, r) /\ StackFits(root, r.stack)
  BY <1>1, <1>2 DEF WalksCounted, WalksFit
<1>6. IsPath(root)
  BY <1>1, <1>2, <1>5 DEF SearchFits, CatalogInvariant, ThreadsFit, ResolveFits, Threads
<1>7. PICK dir, a, names : dir = Head(r.stack).path /\ a = r.answer /\ names = NamesIn(cat, a)
  OBVIOUS
<1>8. DirFits(cat, Head(r.stack))
  BY <1>4, HeadFits DEF WalkerFits
<1>9. /\ IsPath(dir) /\ a = OidIn(cat, dir) /\ a \in DOMAIN cat /\ IsDir(cat, a)
  <2>1. Wanted(cat, r) = Head(r.stack).oid
    BY <1>3 DEF Wanted
  <2>2. a = Head(r.stack).oid
    BY <1>2, <1>4, <1>7, <2>1 DEF AnswerFits, Returns
  <2> QED BY <1>7, <1>8, <2>2 DEF DirFits
<1>10. PICK F, D, paths, subdirs :
        /\ F = {m \in DOMAIN names : IsDir(cat, names[m]) = FALSE}
        /\ D = {m \in DOMAIN names : IsDir(cat, names[m]) = TRUE}
        /\ paths = {ChildPath(dir, n) : n \in F}
        /\ subdirs = {[path |-> ChildPath(dir, n), oid |-> names[n]] : n \in D}
  OBVIOUS
<1>11. PICK new, q : new = Descend(subdirs, r.stack) /\ q = WithStack(r, "dir", new)
  OBVIOUS
<1>12. /\ oids' = Over(Listing(dir, a), oids)
       /\ items' = items \o SetToSeq(paths)
       /\ th' = [th EXCEPT ![t] = q]
  BY <1>1, <1>7, <1>10, <1>11 DEF DirListed, WithStack
<1>13. q.pc = "dir" /\ q.path = r.path /\ q.stack = new
  BY <1>4, <1>11, WithStackIs
<1>14. Later(q) = "dir" /\ Later(q) \notin Searches \cup {"done"}
  BY <1>13 DEF Later, Asks, Searches, Resolves
<1>15. IsFiniteSet(F) /\ IsFiniteSet(D) /\ IsFiniteSet(paths) /\ IsFiniteSet(subdirs)
  <2>1. IsFiniteSet(F) /\ IsFiniteSet(D)
    BY <1>4, <1>7, <1>10, NamesAreFinite, FS_Subset
  <2>2. PICK f, g : /\ f = [n \in F |-> ChildPath(dir, n)]
                    /\ g = [n \in D |-> [path |-> ChildPath(dir, n), oid |-> names[n]]]
    OBVIOUS
  <2>3. paths = {f[n] : n \in F} /\ subdirs = {g[n] : n \in D}
    BY <1>10, <2>2
  <2> QED BY <2>1, <2>3, ImageIsFinite
<1>16. /\ StackFits(root, new) /\ IsPrefix(root, dir)
       /\ \A i \in DOMAIN new :
            \/ \E n \in D : new[i].path = ChildPath(dir, n)
            \/ \E j \in DOMAIN r.stack : new[i] = r.stack[j] /\ ~ IsPrefix(dir, r.stack[j].path)
                                           /\ ~ IsPrefix(r.stack[j].path, dir)
       /\ \A d \in subdirs : \E i \in DOMAIN new : new[i] = d
       /\ \A j \in DOMAIN r.stack : r.stack[j].path # dir => \E i \in DOMAIN new : new[i] = r.stack[j]
       /\ \E j \in DOMAIN r.stack : r.stack[j].path = dir
  <2>1. r.stack \in Seq(Range(r.stack)) /\ \A i \in DOMAIN r.stack : IsPath(r.stack[i].path)
    BY <1>4 DEF WalkerFits, DirFits
  <2>2. \A d \in subdirs : \E n \in D : d.path = ChildPath(dir, n) /\ d.oid = names[n]
    BY <1>10
  <2>3. ASSUME NEW d \in subdirs, NEW e \in subdirs, d.path = e.path PROVE d = e
    <3>1. PICK n \in D : d = [path |-> ChildPath(dir, n), oid |-> names[n]]
      BY <1>10
    <3>2. PICK m \in D : e = [path |-> ChildPath(dir, m), oid |-> names[m]]
      BY <1>10
    <3>3. ChildPath(dir, n) = ChildPath(dir, m)
      BY <2>3, <3>1, <3>2
    <3>4. n = m
      BY <1>9, <3>3, ChildIs
    <3> QED BY <3>1, <3>2, <3>4
  <2>4. PICK s : s = r.stack
    OBVIOUS
  <2>5. Stacked(s) /\ StackFits(root, s) /\ IsPath(root) /\ dir = Head(s).path /\ new = Descend(subdirs, s)
    BY <1>4, <1>5, <1>6, <1>7, <1>11, <2>1, <2>4 DEF Stacked
  <2>6. AreChildren(subdirs, dir, D)
    BY <1>15, <2>2, <2>3 DEF AreChildren
  <2>7. Descends(root, dir, D, subdirs, s, new)
    BY <2>5, <2>6, StackDescends
  <2> QED BY <2>4, <2>7 DEF Descends
<1>17. SearchFits(cat, DOMAIN oids', root, q) /\ DOMAIN oids \subseteq DOMAIN oids'
  <2>1. DOMAIN oids \subseteq DOMAIN oids'
    BY <1>12, EnteredKeeps
  <2>2. Later(q) \notin Resolves /\ Later(q) # "again" /\ Later(q) # "resolved"
    BY <1>14 DEF Searches
  <2> QED BY <1>5, <1>13, <1>14, <2>1, <2>2 DEF SearchFits
<1>18. ASSUME NEW p, IsPath(p)
       PROVE  /\ Times(items', p) = Times(items, p) + IF p \in paths THEN 1 ELSE 0
              /\ Times(items, p) \in Nat
  <2>1. PICK S, s : S = DOMAIN oids \cup paths /\ s = SetToSeq(paths)
    OBVIOUS
  <2>2. s \in Seq(S)
    <3>1. s \in Seq(paths) /\ paths \subseteq S
      BY <1>15, <2>1, SetToSeqHasAll
    <3> QED BY <3>1
  <2>3. items \in Seq(S)
    <3>1. PICK T : T = DOMAIN oids /\ T \subseteq S
      BY <2>1
    <3>2. items \in Seq(T)
      BY <1>4, <3>1 DEF OidsFit
    <3> QED BY <3>1, <3>2
  <2>4. Times(items \o s, p) = Times(items, p) + Times(s, p) /\ Times(items, p) \in Nat
    BY <2>2, <2>3, TimesConcat
  <2>5. Times(s, p) = IF p \in paths THEN 1 ELSE 0
    BY <1>15, <2>1, TimesOfSet
  <2> QED BY <1>12, <2>1, <2>4, <2>5
<1>19. \A p : /\ ToCome(r, p) <=> \E i \in DOMAIN r.stack : IsPrefix(r.stack[i].path, p)
              /\ ToCome(q, p) <=> \E i \in DOMAIN new : IsPrefix(new[i].path, p)
  BY <1>3, <1>13, <1>14 DEF ToCome
<1>20. ASSUME NEW p, IsPath(p)
       PROVE  (IF p \in paths THEN 1 ELSE 0) =
                IF IsFile(cat, OidIn(cat, p)) THEN Passes(root, q, p) - Passes(root, r, p) ELSE 0
  <2>1. \A n \in F : p = ChildPath(dir, n) => p \in paths
    BY <1>10
  <2>2. p \in paths => \E n \in F : p = ChildPath(dir, n)
    BY <1>10
  <2>3. \A j \in DOMAIN r.stack : IsPath(r.stack[j].path)
    BY <1>4 DEF WalkerFits, DirFits
  <2>4. CASE ~ IsPrefix(dir, p)
    <3>1. p \notin paths
      <4>1. \A n : IsPrefix(dir, ChildPath(dir, n))
        BY <1>9, <1>20, ChildPrefixes
      <4> QED BY <2>2, <2>4, <4>1
    <3>2. ASSUME ToCome(r, p) PROVE ToCome(q, p)
      <4>1. PICK j \in DOMAIN r.stack : IsPrefix(r.stack[j].path, p)
        BY <1>19, <3>2
      <4>2. PICK i \in DOMAIN new : new[i] = r.stack[j]
        BY <1>16, <2>4, <4>1
      <4> QED BY <1>19, <4>1, <4>2
    <3>3. ASSUME ToCome(q, p) PROVE ToCome(r, p)
      <4>1. PICK i \in DOMAIN new : IsPrefix(new[i].path, p)
        BY <1>19, <3>3
      <4>2. ASSUME NEW n, new[i].path = ChildPath(dir, n) PROVE FALSE
        BY <1>9, <1>20, <2>4, <4>1, <4>2, ChildPrefixes
      <4>3. PICK j \in DOMAIN r.stack : new[i] = r.stack[j]
        BY <1>16, <4>2
      <4> QED BY <1>19, <4>1, <4>3
    <3>4. Passes(root, q, p) = Passes(root, r, p) /\ Passes(root, r, p) \in {0, 1}
      BY <3>2, <3>3 DEF Passes
    <3> QED BY <3>1, <3>4
  <2>5. CASE IsPrefix(dir, p)
    <3>1. ToCome(r, p)
      BY <1>16, <1>19, <2>5
    <3>2. IsPrefix(root, p)
      BY <1>6, <1>9, <1>16, <1>20, <2>5, PrefixesOrder
    <3>3. Passes(root, r, p) = 0 /\ Passes(root, q, p) = IF ToCome(q, p) THEN 0 ELSE 1
      BY <3>1, <3>2 DEF Passes
    <3>4. ASSUME ToCome(q, p) PROVE \E n \in D : IsPrefix(ChildPath(dir, n), p)
      <4>1. PICK i \in DOMAIN new : IsPrefix(new[i].path, p)
        BY <1>19, <3>4
      <4>2. CASE \E n \in D : new[i].path = ChildPath(dir, n)
        BY <4>1, <4>2
      <4>3. CASE \E j \in DOMAIN r.stack : new[i] = r.stack[j] /\ ~ IsPrefix(dir, r.stack[j].path)
                                             /\ ~ IsPrefix(r.stack[j].path, dir)
        <5>1. PICK j \in DOMAIN r.stack : new[i] = r.stack[j] /\ ~ IsPrefix(dir, r.stack[j].path)
                                             /\ ~ IsPrefix(r.stack[j].path, dir)
          BY <4>3
        <5>2. PICK e : e = r.stack[j].path /\ IsPath(e) /\ IsPrefix(e, p)
          BY <2>3, <4>1, <5>1
        <5> QED BY <1>9, <1>20, <2>5, <5>1, <5>2, PrefixesOrder
      <4> QED BY <1>16, <4>2, <4>3
    <3>5. ASSUME NEW n \in D, IsPrefix(ChildPath(dir, n), p) PROVE ToCome(q, p)
      <4>1. PICK d \in subdirs : d.path = ChildPath(dir, n)
        <5>1. PICK d : d = [path |-> ChildPath(dir, n), oid |-> names[n]]
          OBVIOUS
        <5>2. d \in subdirs /\ d.path = ChildPath(dir, n)
          BY <1>10, <5>1
        <5> QED BY <5>2
      <4>2. PICK i \in DOMAIN new : new[i] = d
        BY <1>16, <4>1
      <4> QED BY <1>19, <3>5, <4>1, <4>2
    <3>6. CASE p = dir
      <4>1. p \notin paths
        BY <1>9, <2>2, <3>6, ChildPrefixes
      <4>2. ~ IsFile(cat, OidIn(cat, p))
        BY <1>9, <3>6 DEF IsFile
      <4> QED BY <4>1, <4>2
    <3>7. CASE p # dir
      <4>1. PICK n : IsPrefix(ChildPath(dir, n), p)
        BY <1>9, <1>20, <2>5, <3>7, ChildPrefixes
      <4>2. \A m : IsPrefix(ChildPath(dir, m), p) => m = n
        BY <1>9, <1>20, <4>1, ChildPrefixes
      <4>3. \A m : p = ChildPath(dir, m) => m = n
        BY <1>20, <4>2, PrefixesOrder
      <4>4. PICK x : x = ChildPath(dir, n) /\ IsPath(x) /\ OidIn(cat, x) = ChildOf(cat, a, n)
        <5>1. IsPath(ChildPath(dir, n)) /\ OidIn(cat, ChildPath(dir, n)) = ChildOf(cat, a, n)
          BY <1>4, <1>9, ChildIs, ChildLeads
        <5> QED BY <5>1
      <4>5. p \in paths <=> n \in F /\ p = x
        BY <2>1, <2>2, <4>3, <4>4
      <4>6. ~ LeadsToDir(cat, x) /\ p # x => ~ IsFile(cat, OidIn(cat, p))
        <5>1. ASSUME ~ LeadsToDir(cat, x), p # x PROVE OidIn(cat, p) = 0
          BY <1>4, <1>20, <4>1, <4>4, <5>1, DirsAreAbove DEF LeadsToDir
        <5>2. 0 \notin DOMAIN cat
          BY <1>4, WhatPathsLeadTo
        <5> QED BY <5>1, <5>2 DEF IsFile
      <4>7. CASE n \in D
        <5>1. ToCome(q, p)
          BY <3>5, <4>1, <4>7
        <5>2. n \notin F
          BY <1>10, <4>7
        <5> QED BY <3>3, <4>5, <5>1, <5>2
      <4>8. CASE n \in F
        <5>1. ~ ToCome(q, p)
          <6>1. n \notin D
            BY <1>10, <4>8
          <6> QED BY <3>4, <4>2, <6>1
        <5>2. OidIn(cat, x) = names[n] /\ names[n] \in DOMAIN cat /\ ~ IsDir(cat, names[n])
          <6>1. n \in DOMAIN names /\ IsDir(cat, names[n]) = FALSE
            BY <1>10, <4>8
          <6>2. names[n] = ChildOf(cat, a, n) /\ names[n] \in DOMAIN cat
            BY <1>4, <1>7, <1>9, <6>1, ListingFits DEF ChildOf
          <6> QED BY <4>4, <6>1, <6>2
        <5>3. CASE p = x
          <6>1. IsFile(cat, OidIn(cat, p))
            BY <5>2, <5>3 DEF IsFile
          <6> QED BY <3>3, <4>5, <4>8, <5>1, <5>3, <6>1
        <5>4. CASE p # x
          <6>1. ~ LeadsToDir(cat, x)
            BY <5>2 DEF LeadsToDir
          <6> QED BY <4>5, <4>6, <5>4, <6>1
        <5> QED BY <5>3, <5>4
      <4>9. CASE n \notin D /\ n \notin F
        <5>1. OidIn(cat, x) = 0
          <6>1. n \notin DOMAIN names
            BY <1>10, <4>9 DEF IsDir
          <6> QED BY <1>7, <4>4, <6>1 DEF ChildOf
        <5>2. ~ LeadsToDir(cat, x) /\ ~ IsFile(cat, 0)
          BY <1>4, <5>1, WhatPathsLeadTo DEF LeadsToDir, IsFile
        <5>3. ~ IsFile(cat, OidIn(cat, p))
          BY <4>6, <5>1, <5>2
        <5> QED BY <4>5, <4>9, <5>3
      <4> QED BY <4>7, <4>8, <4>9
    <3> QED BY <3>6, <3>7
  <2> QED BY <2>4, <2>5
<1>21. \A p : IsPath(p) =>
         Times(items', p) = Times(items, p) +
           IF IsFile(cat, OidIn(cat, p)) THEN Passes(roots[t], q, p) - Passes(roots[t], th[t], p) ELSE 0
  BY <1>1, <1>18, <1>20
<1> QED BY <1>1, <1>2, <1>12, <1>13, <1>16, <1>17, <1>21, WalkMoves

(* A walk that stays before the directories it had.                          *)
LEMMA PassesStay ==
  ASSUME CatalogInvariant, WalksCounted, phase = "catalog", faults = 0,
         UNCHANGED <<cat, roots, items, oids>>,
         NEW t \in Walkers, NEW q, th' = [th EXCEPT ![t] = q],
         q.stack = th[t].stack, Later(q) \in Searches <=> Later(th[t]) \in Searches,
         SearchFits(cat, DOMAIN oids, roots[t], q)
  PROVE  WalksCounted'
<1>1. StackFits(roots[t], q.stack) /\ SearchFits(cat, DOMAIN oids', roots[t], q)
  BY DEF WalksCounted, WalksFit
<1>2. ASSUME NEW p, IsPath(p)
      PROVE  Times(items', p) = Times(items, p) +
               IF IsFile(cat, OidIn(cat, p)) THEN Passes(roots[t], q, p) - Passes(roots[t], th[t], p) ELSE 0
  <2>1. ToCome(q, p) <=> ToCome(th[t], p)
    BY DEF ToCome
  <2>2. Passes(roots[t], q, p) = Passes(roots[t], th[t], p) /\ Passes(roots[t], q, p) \in {0, 1}
    BY <2>1 DEF Passes
  <2>3. Times(items, p) \in Nat
    BY <1>2 DEF WalksCounted, FilesCounted, SentIs, Passes
  <2> QED BY <2>2, <2>3
<1> QED BY <1>1, <1>2, WalkMoves

LEMMA WalkCounts ==
  ASSUME CatalogInvariant, WalksCounted, NEW t \in Walkers, Walk(t), faults' = 0
  PROVE  WalksCounted'
<1>1. PICK r, root : r = th[t] /\ root = roots[t]
  OBVIOUS
<1>2. /\ phase = "catalog" /\ faults = 0 /\ UNCHANGED <<cat, roots>>
      /\ r.pc \in {"root", "rootOpened", "resolved", "dir", "dirListed"}
  BY <1>1 DEF Walk, OpenRoot, RootOpened, RootIsFile, ListDir, DirListed, WalkFails, At, Goto,
              vars, caches, catalogVars
<1>3. /\ IsThread(r) /\ AnswerFits(cat, faults, r) /\ ResolveFits(cat, DOMAIN oids, r)
      /\ IsCatalog(cat) /\ OidsFit
  BY <1>1, <1>2 DEF CatalogInvariant, ThreadsFit, CachesFit, Threads
<1>4. Later(r) = r.pc /\ (r.pc \in {"root", "rootOpened", "resolved"} => Later(r) \in Searches)
  BY <1>2 DEF Later, Asks, Searches, Resolves
<1>5. SearchFits(cat, DOMAIN oids, root, r) /\ StackFits(root, r.stack) /\ r.path = root /\ IsPath(root)
  BY <1>1, <1>2, <1>3 DEF WalksCounted, WalksFit, SearchFits, ResolveFits
<1>6. \A p : IsPath(p) => Times(items, p) \in Nat
  BY <1>2 DEF WalksCounted, FilesCounted, SentIs, Passes
<1>7. CASE OpenRoot(t)
  <2>1. PICK o, q : o = OpeningBlock(root) /\ q = Asking(r, o, "rootOpened")
    OBVIOUS
  <2>2. th' = [th EXCEPT ![t] = q] /\ oids' = oids /\ items' = items /\ r.pc = "root"
    BY <1>1, <1>5, <1>7, <2>1 DEF OpenRoot, caches, At
  <2>3. q.pc = "get" /\ q.ret = "rootOpened" /\ q.path = r.path /\ q.stack = r.stack
    BY <1>3, <2>1, AskingIs
  <2>4. Later(q) = "rootOpened" /\ Later(q) \in Searches /\ Later(q) \notin Resolves
    BY <2>3 DEF Later, Asks, Searches, Resolves
  <2> QED BY <1>1, <1>2, <1>4, <2>2, <2>3, <2>4, SearchMoves
<1>8. CASE RootOpened(t)
  <2>1. r.pc = "rootOpened" /\ items' = items
    BY <1>1, <1>8 DEF RootOpened, At
  <2>2. th[t].answer = OpeningIn(cat, root)
    <3>1. Wanted(cat, r) = OpeningIn(cat, root)
      BY <1>4, <1>5, <2>1 DEF Wanted
    <3> QED BY <1>1, <1>2, <1>3, <2>1, <3>1 DEF AnswerFits, Returns
  <2>3. PICK o : o = Opened(t, root)
    OBVIOUS
  <2>4. CASE o = 0
    <3>1. PICK q : q = Resolving(r, root)
      OBVIOUS
    <3>2. th' = [th EXCEPT ![t] = q] /\ oids' = oids
      BY <1>1, <1>5, <1>8, <2>3, <2>4, <3>1 DEF RootOpened
    <3>3. q.pc = "direct" /\ q.path = r.path /\ q.stack = r.stack
      BY <1>3, <1>5, <3>1, ResolvingIs
    <3>4. Later(q) = "direct" /\ Later(q) \in Searches
      BY <3>3 DEF Later, Asks, Searches, Resolves
    <3>5. ~ LeadsToDir(cat, root)
      BY <1>3, <1>5, <2>2, <2>3, <2>4, UnopenedIs
    <3> QED BY <1>1, <1>2, <1>4, <2>1, <3>2, <3>3, <3>4, <3>5, SearchMoves
  <2>5. CASE o # 0
    <3>1. PICK d, q : d = [path |-> root, oid |-> o] /\ q = WithStack(r, "dir", <<d>>)
      OBVIOUS
    <3>2. th' = [th EXCEPT ![t] = q] /\ oids' = Entered(root, o, oids)
      BY <1>1, <1>5, <1>8, <2>3, <2>5, <3>1 DEF RootOpened, WithStack
    <3>3. q.pc = "dir" /\ q.path = r.path /\ q.stack = <<d>>
      BY <1>3, <3>1, WithStackIs
    <3>4. Later(q) = "dir" /\ Later(q) \notin Searches \cup {"done"}
      BY <3>3 DEF Later, Asks, Searches, Resolves
    <3>5. DOMAIN oids \subseteq DOMAIN oids'
      BY <3>2, EnteredKeeps
    <3>6. SearchFits(cat, DOMAIN oids', root, q)
      BY <1>5, <3>3, <3>4 DEF SearchFits, Searches, Resolves
    <3>7. DOMAIN <<d>> = {1} /\ <<d>>[1] = d
      OBVIOUS
    <3>8. StackFits(root, q.stack)
      BY <1>5, <3>1, <3>3, <3>7, PrefixesOrder DEF StackFits
    <3>9. ASSUME NEW p, IsPath(p) PROVE Passes(root, q, p) = 0 /\ Passes(root, r, p) = 0
      <4>1. ToCome(r, p)
        BY <1>4, <2>1 DEF ToCome
      <4>2. ToCome(q, p) <=> IsPrefix(root, p)
        BY <3>1, <3>3, <3>4, <3>7 DEF ToCome
      <4> QED BY <4>1, <4>2 DEF Passes
    <3>10. \A p : IsPath(p) =>
             Times(items', p) = Times(items, p) +
               IF IsFile(cat, OidIn(cat, p)) THEN Passes(roots[t], q, p) - Passes(roots[t], th[t], p) ELSE 0
      BY <1>1, <1>6, <2>1, <3>9
    <3> QED BY <1>1, <1>2, <3>2, <3>5, <3>6, <3>8, <3>10, WalkMoves
  <2> QED BY <2>4, <2>5
<1>9. CASE RootIsFile(t)
  <2>1. PICK q : q = [r EXCEPT !.pc = "done"]
    OBVIOUS
  <2>2. /\ r.pc = "resolved" /\ oids' = oids /\ th' = [th EXCEPT ![t] = q]
        /\ items' = IF r.oid = 0 THEN items ELSE Append(items, root)
    BY <1>1, <1>5, <1>9, <2>1 DEF RootIsFile, At, Goto, caches
  <2>3. q.pc = "done" /\ q.path = r.path /\ q.stack = r.stack /\ r.stack = <<>>
    BY <1>3, <1>4, <1>5, <2>1, <2>2 DEF IsThread, SearchFits
  <2>4. Later(q) = "done" /\ Later(q) \notin Searches /\ DOMAIN q.stack = {}
    BY <2>3 DEF Later, Asks, Searches, Resolves
  <2>5. SearchFits(cat, DOMAIN oids', root, q) /\ StackFits(root, q.stack)
    BY <1>5, <2>3, <2>4 DEF SearchFits, StackFits, Searches, Resolves
  <2>6. r.oid = OidIn(cat, root) /\ ~ LeadsToDir(cat, root)
    BY <1>4, <1>5, <2>2 DEF SearchFits, Resolves
  <2>7. ASSUME NEW p, IsPath(p), IsPrefix(root, p), p # root PROVE ~ IsFile(cat, OidIn(cat, p))
    <3>1. OidIn(cat, p) = 0
      BY <1>3, <1>5, <2>6, <2>7, DirsAreAbove DEF LeadsToDir
    <3> QED BY <1>3, <3>1, WhatPathsLeadTo DEF IsFile
  <2>8. IsFile(cat, OidIn(cat, root)) <=> r.oid # 0
    BY <1>3, <1>5, <2>6, WhatPathsLeadTo DEF IsFile, LeadsToDir
  <2>9. IsPrefix(root, root)
    BY <1>5, PrefixesOrder
  <2>10. ASSUME NEW p, IsPath(p)
         PROVE  /\ Passes(root, r, p) = 0
                /\ Passes(root, q, p) = IF IsPrefix(root, p) THEN 1 ELSE 0
    BY <1>4, <2>2, <2>4 DEF Passes, ToCome
  <2>11. ASSUME NEW p, IsPath(p)
         PROVE  Times(items', p) = Times(items, p) + IF p = root /\ r.oid # 0 THEN 1 ELSE 0
    <3>1. CASE r.oid = 0
      BY <1>6, <2>2, <2>11, <3>1
    <3>2. CASE r.oid # 0
      <4>1. PICK S : S = DOMAIN oids \cup {root}
        OBVIOUS
      <4>2. items \in Seq(S) /\ root \in S
        <5>1. PICK T : T = DOMAIN oids /\ T \subseteq S
          BY <4>1
        <5>2. items \in Seq(T)
          BY <1>3, <5>1 DEF OidsFit
        <5> QED BY <4>1, <5>1, <5>2
      <4>3. Times(Append(items, root), p) = Times(items, p) + IF root = p THEN 1 ELSE 0
        BY <4>2, TimesAppend
      <4> QED BY <2>2, <3>2, <4>3
    <3> QED BY <3>1, <3>2
  <2>12. ASSUME NEW p, IsPath(p)
         PROVE  Times(items', p) = Times(items, p) +
                  IF IsFile(cat, OidIn(cat, p)) THEN Passes(root, q, p) - Passes(root, r, p) ELSE 0
    <3>1. CASE p = root
      <4>1. Passes(root, q, p) - Passes(root, r, p) = 1
        BY <2>9, <2>10, <2>12, <3>1
      <4> QED BY <2>8, <2>11, <2>12, <3>1, <4>1
    <3>2. CASE p # root
      <4>1. IsFile(cat, OidIn(cat, p)) => Passes(root, q, p) - Passes(root, r, p) = 0
        BY <2>7, <2>10, <2>12, <3>2
      <4> QED BY <2>11, <2>12, <3>2, <4>1
    <3> QED BY <3>1, <3>2
  <2> QED BY <1>1, <1>2, <2>2, <2>5, <2>12, WalkMoves
<1>10. CASE ListDir(t)
  <2>1. r.pc = "dir" /\ oids' = oids /\ items' = items
    BY <1>1, <1>10 DEF ListDir, At, caches
  <2>2. Later(r) = "dir" /\ Later(r) \notin Searches
    BY <1>4, <2>1 DEF Searches, Resolves
  <2>3. CASE r.stack = <<>>
    <3>1. PICK q : q = [r EXCEPT !.pc = "done"]
      OBVIOUS
    <3>2. th' = [th EXCEPT ![t] = q]
      BY <1>1, <1>10, <2>3, <3>1 DEF ListDir
    <3>3. q.pc = "done" /\ q.path = r.path /\ q.stack = r.stack
      BY <1>3, <3>1 DEF IsThread
    <3>4. Later(q) = "done" /\ Later(q) \notin Searches
      BY <3>3 DEF Later, Asks, Searches, Resolves
    <3>5. SearchFits(cat, DOMAIN oids, root, q)
      BY <1>5, <2>3, <3>3, <3>4 DEF SearchFits, Searches, Resolves
    <3> QED BY <1>1, <1>2, <2>1, <2>2, <3>2, <3>3, <3>4, <3>5, PassesStay
  <2>4. CASE r.stack # <<>>
    <3>1. PICK o, q : o = Head(r.stack).oid /\ q = Asking(r, o, "dirListed")
      OBVIOUS
    <3>2. th' = [th EXCEPT ![t] = q]
      BY <1>1, <1>10, <2>4, <3>1 DEF ListDir
    <3>3. q.pc = "get" /\ q.ret = "dirListed" /\ q.path = r.path /\ q.stack = r.stack
      BY <1>3, <3>1, AskingIs
    <3>4. Later(q) = "dirListed" /\ Later(q) \notin Searches
      BY <3>3 DEF Later, Asks, Searches, Resolves
    <3>5. SearchFits(cat, DOMAIN oids, root, q)
      BY <1>5, <3>3, <3>4 DEF SearchFits, Searches, Resolves
    <3> QED BY <1>1, <1>2, <2>1, <2>2, <3>2, <3>3, <3>4, <3>5, PassesStay
  <2> QED BY <2>3, <2>4
<1>11. CASE WalkFails(t)
  <2>1. phase' # "catalog"
    BY <1>11 DEF WalkFails
  <2> QED BY <2>1 DEF WalksCounted
<1> QED BY <1>7, <1>8, <1>9, <1>10, <1>11, ListedCounts DEF Walk

(* A walk that reads a block, or has read it.                                *)
LEMMA ReadCounts ==
  ASSUME CatalogInvariant, WalksCounted, NEW t \in Walkers, ReadBlock(t), faults' = 0
  PROVE  WalksCounted'
<1>1. PICK r : r = th[t]
  OBVIOUS
<1>2. phase = "catalog" /\ r.pc \in Asks /\ UNCHANGED <<cat, roots, items, oids>>
  BY <1>1 DEF ReadBlock, CacheGet, DeviceRead, DeviceFails, CachePut, At, Asks, vars, caches
<1>3. /\ faults = 0 /\ IsThread(r)
      /\ r.ret \in Returns /\ Later(r) = r.ret
  <2>1. t \in Threads /\ faults \in Nat
    BY DEF Threads, CatalogInvariant
  <2>2. faults = 0
    BY <2>1 DEF ReadBlock, CacheGet, DeviceRead, DeviceFails, CachePut
  <2> QED BY <1>1, <1>2, <2>1, <2>2 DEF CatalogInvariant, ThreadsFit, AnswerFits, Later
<1>4. SearchFits(cat, DOMAIN oids, roots[t], r)
  BY <1>1, <1>2, <1>3 DEF WalksCounted, WalksFit
<1>5. ASSUME NEW q, th' = [th EXCEPT ![t] = q], Later(q) = r.ret,
             q.path = r.path, q.oid = r.oid, q.stack = r.stack
      PROVE  WalksCounted'
  <2>1. SearchFits(cat, DOMAIN oids, roots[t], q)
    BY <1>3, <1>4, <1>5 DEF SearchFits
  <2> QED BY <1>1, <1>2, <1>3, <1>5, <2>1, PassesStay
<1>6. ASSUME NEW a, th' = [th EXCEPT ![t] = Return(r, a)]
      PROVE  WalksCounted'
  <2>1. PICK q : q = Return(r, a)
    OBVIOUS
  <2>2. q.pc = r.ret /\ q.path = r.path /\ q.oid = r.oid /\ q.stack = r.stack
    BY <1>3, <2>1, ReturnIs
  <2>3. Later(q) = r.ret
    BY <1>3, <2>2 DEF Later, Asks, Returns
  <2> QED BY <1>5, <1>6, <2>1, <2>2, <2>3
<1>7. CASE CacheGet(t)
  <2>1. PICK b, s : b = r.want /\ s = blocks[ShardOf(b)]
    OBVIOUS
  <2>2. CASE b \in DOMAIN s.map
    <3>1. PICK a : a = s.map[b]
      OBVIOUS
    <3>2. th' = [th EXCEPT ![t] = Return(r, a)]
      BY <1>1, <1>7, <2>1, <2>2, <3>1 DEF CacheGet
    <3> QED BY <1>6, <3>2
  <2>3. CASE b \notin DOMAIN s.map
    <3>1. PICK q : q = [r EXCEPT !.pc = "device"]
      OBVIOUS
    <3>2. th' = [th EXCEPT ![t] = q]
      BY <1>1, <1>7, <2>1, <2>3, <3>1 DEF CacheGet
    <3>3. /\ q.pc = "device" /\ q.ret = r.ret
          /\ q.path = r.path /\ q.oid = r.oid /\ q.stack = r.stack
      BY <1>3, <3>1 DEF IsThread
    <3>4. Later(q) = r.ret
      BY <3>3 DEF Later, Asks
    <3> QED BY <1>5, <3>2, <3>3, <3>4
  <2> QED BY <2>2, <2>3
<1>8. CASE DeviceRead(t)
  <2>1. PICK b, l : b = r.want /\ l = Smaller(b + Ahead - 1, Len(cat))
    OBVIOUS
  <2>2. PICK q : q = Fetched(r, b, l)
    OBVIOUS
  <2>3. th' = [th EXCEPT ![t] = q]
    BY <1>1, <1>8, <2>1, <2>2 DEF DeviceRead, Fetched
  <2>4. q.pc = "put" /\ q.ret = r.ret /\ q.path = r.path /\ q.oid = r.oid /\ q.stack = r.stack
    BY <1>3, <2>2, FetchedIs
  <2>5. Later(q) = r.ret
    BY <2>4 DEF Later, Asks
  <2> QED BY <1>5, <2>3, <2>4, <2>5
<1>9. CASE DeviceFails(t)
  <2>1. faults' = 1
    BY <1>3, <1>9 DEF DeviceFails
  <2> QED BY <2>1
<1>10. CASE CachePut(t)
  <2>1. r.pc = "put"
    BY <1>1, <1>10 DEF CachePut, At
  <2>2. CASE r.want = r.last
    <3>1. PICK a : a = r.answer
      OBVIOUS
    <3>2. th' = [th EXCEPT ![t] = Return(r, a)]
      BY <1>1, <1>10, <2>2, <3>1 DEF CachePut
    <3> QED BY <1>6, <3>2
  <2>3. CASE r.want # r.last
    <3>1. PICK q : q = [r EXCEPT !.want = r.want + 1]
      OBVIOUS
    <3>2. th' = [th EXCEPT ![t] = q]
      BY <1>1, <1>10, <2>3, <3>1 DEF CachePut
    <3>3. /\ q.pc = "put" /\ q.ret = r.ret
          /\ q.path = r.path /\ q.oid = r.oid /\ q.stack = r.stack
      BY <1>3, <2>1, <3>1 DEF IsThread
    <3>4. Later(q) = r.ret
      BY <3>3 DEF Later, Asks
    <3> QED BY <1>5, <3>2, <3>3, <3>4
  <2> QED BY <2>2, <2>3
<1> QED BY <1>7, <1>8, <1>9, <1>10 DEF ReadBlock

(* The reader sends nothing and moves no walk.                               *)
LEMMA ReaderCounts ==
  ASSUME CatalogInvariant, WalksCounted,
         Resolve(Reader) \/ ReadBlock(Reader) \/ Walk(Reader) \/ FindWindow
  PROVE  WalksCounted'
<1>1. /\ th = [t \in Threads |-> th[t]] /\ faults \in Nat
      /\ Reader \in Threads /\ Walkers \subseteq Threads /\ Reader \notin Walkers
  BY DEF CatalogInvariant, ThreadsFit, Threads, Walkers, Reader
<1>2. CASE Resolve(Reader)
  <2>1. /\ phase = "catalog" /\ UNCHANGED <<cat, roots, items, faults>>
        /\ \A u \in Walkers : th'[u] = th[u]
    BY <1>1, <1>2 DEF Resolve, DirectHit, ParentHit, ParentOpened, ParentListed, LookedUp, At, caches
  <2>3. DOMAIN oids \subseteq DOMAIN oids'
    <3>1. CASE DirectHit(Reader) \/ ParentHit(Reader) \/ LookedUp(Reader)
      BY <3>1 DEF DirectHit, ParentHit, LookedUp, caches
    <3>2. CASE ParentOpened(Reader) \/ ParentListed(Reader)
      BY <3>2, EnteredKeeps DEF ParentOpened, ParentListed
    <3> QED BY <1>2, <3>1, <3>2 DEF Resolve
  <2> QED BY <2>1, <2>3, WalksRest
<1>3. CASE ReadBlock(Reader)
  <2>1. /\ phase = "catalog" /\ UNCHANGED <<cat, roots, items, oids>>
        /\ \A u \in Walkers : th'[u] = th[u]
    BY <1>1, <1>3 DEF ReadBlock, CacheGet, DeviceRead, DeviceFails, CachePut, At, caches
  <2>2. faults' = 0 => faults = 0
    BY <1>1, <1>3 DEF ReadBlock, CacheGet, DeviceRead, DeviceFails, CachePut
  <2> QED BY <2>1, <2>2, WalksRest
<1>4. CASE Walk(Reader)
  <2>1. phase = "catalog" /\ th[Reader].pc \in {"root", "rootOpened", "dir", "dirListed"}
    BY <1>1, <1>4 DEF Walk, OpenRoot, RootOpened, RootIsFile, ListDir, DirListed, WalkFails, At
  <2>2. Later(th[Reader]) = th[Reader].pc
    BY <2>1 DEF Later, Asks
  <2>3. Later(th[Reader]) \in {"idle", "item", "direct", "resolved", "inode", "inodeRead", "slot", "extentsRead"}
    BY <2>1 DEF CatalogInvariant, ReaderFit, ReaderFits
  <2> QED BY <2>1, <2>2, <2>3
<1>5. CASE FindWindow
  <2>1. phase = "catalog"
    BY <1>5, CatalogActionFacts
  <2>2. UNCHANGED <<cat, roots, items, oids, faults>> /\ \A u \in Walkers : th'[u] = th[u]
    <3>1. CASE StartWindow \/ ResolveItem \/ ItemResolved \/ BatchInodes
      BY <1>1, <3>1 DEF StartWindow, ResolveItem, ItemResolved, BatchInodes, Goto, caches
    <3>2. CASE LookUpInode \/ InodeRead \/ BatchExtents \/ LookUpExtents
      BY <1>1, <3>2 DEF LookUpInode, InodeRead, BatchExtents, LookUpExtents, Goto, caches
    <3>3. CASE SlotWithoutExtents \/ SlotFromCache \/ SlotFromBatch
      BY <1>1, <3>3 DEF SlotWithoutExtents, SlotFromCache, SlotFromBatch, NextSlot, caches
    <3>4. CASE ExtentsRead \/ WindowIsFound
      BY <1>1, <3>4 DEF ExtentsRead, WindowIsFound, NextSlot, Goto, caches
    <3> QED BY <1>5, <3>1, <3>2, <3>3, <3>4 DEF FindWindow
  <2> QED BY <2>1, <2>2, WalksRest
<1> QED BY <1>2, <1>3, <1>4, <1>5

(* The catalog is left by a reader that has not begun, or that is done.      *)
LEMMA ReaderLeaves ==
  ASSUME CatalogInvariant, ReaderRests, [RawNext]_allVars
  PROVE  ReaderRests'
<1>1. /\ th = [t \in Threads |-> th[t]] /\ Reader \in Threads
  BY DEF CatalogInvariant, ThreadsFit, Threads
<1>2. ASSUME NEW t \in Threads, Resolve(t) \/ ReadBlock(t)
      PROVE  phase' = "catalog"
  BY <1>2 DEF Resolve, ReadBlock, DirectHit, ParentHit, ParentOpened, ParentListed, LookedUp, At,
              CacheGet, DeviceRead, DeviceFails, CachePut, vars
<1>3. ASSUME NEW t \in Threads, OpenRoot(t) \/ RootOpened(t) \/ RootIsFile(t) \/ ListDir(t) \/ DirListed(t)
      PROVE  phase' = "catalog"
  BY <1>3 DEF OpenRoot, RootOpened, RootIsFile, ListDir, DirListed, At, vars
<1>4. ASSUME NEW t \in Threads, WalkFails(t)
      PROVE  th'[Reader].pc = "idle"
  <2>1. th' = th /\ phase = "catalog" /\ th[t].pc = "dirListed"
    BY <1>4 DEF WalkFails, At, catalogVars
  <2>2. Later(th[Reader]) \in {"idle", "item", "direct", "resolved", "inode", "inodeRead", "slot", "extentsRead"}
    BY <2>1 DEF CatalogInvariant, ReaderFit, ReaderFits
  <2>3. t # Reader
    BY <2>1, <2>2 DEF Later, Asks
  <2>4. t \in Walkers
    BY <2>3 DEF Threads
  <2>5. Later(th[Reader]) = "idle"
    BY <2>1, <2>4 DEF CatalogInvariant, ReaderFit
  <2>6. th[Reader].pc \in Asks => th[Reader].ret \in Returns
    BY <1>1, <2>1 DEF CatalogInvariant, ThreadsFit, AnswerFits
  <2> QED BY <2>1, <2>5, <2>6 DEF Later, Returns
<1>5. CASE FindWindow
  <2>1. CASE StartWindow \/ ResolveItem \/ ItemResolved \/ BatchInodes \/ LookUpInode \/ InodeRead
             \/ BatchExtents \/ LookUpExtents
    <3>1. phase' = "catalog"
      BY <2>1 DEF StartWindow, ResolveItem, ItemResolved, BatchInodes, LookUpInode, InodeRead,
                  BatchExtents, LookUpExtents, NeedsExtents, AtSlot, At, vars
    <3> QED BY <3>1 DEF ReaderRests
  <2>2. CASE SlotWithoutExtents \/ SlotFromCache \/ SlotFromBatch \/ ExtentsRead
    <3>1. phase' = "catalog"
      BY <2>2 DEF SlotWithoutExtents, SlotFromCache, SlotFromBatch, ExtentsRead,
                  NeedsExtents, AtSlot, At, WithList, Slot
    <3> QED BY <3>1 DEF ReaderRests
  <2>3. CASE WindowIsFound
    <3>1. PICK r : r = th[Reader]
      OBVIOUS
    <3>2. IsThread(r)
      BY <1>1, <2>3, <3>1 DEF WindowIsFound, At, CatalogInvariant, ThreadsFit
    <3>3. PICK q : q = [r EXCEPT !.pc = "done"]
      OBVIOUS
    <3>4. th' = [th EXCEPT ![Reader] = q] /\ q.pc = "done"
      BY <2>3, <3>1, <3>2, <3>3 DEF WindowIsFound, Goto, IsThread
    <3>5. th'[Reader].pc = "done"
      BY <1>1, <3>4
    <3> QED BY <3>5 DEF ReaderRests
  <2> QED BY <1>5, <2>1, <2>2, <2>3 DEF FindWindow
<1>6. CASE Next /\ UNCHANGED catalogVars
  <2>1. th' = th /\ phase # "catalog"
    BY <1>6, WindowKeepsEntries DEF catalogVars
  <2> QED BY <2>1 DEF ReaderRests
<1>7. CASE UNCHANGED allVars
  BY <1>7 DEF allVars, catalogVars, vars, ReaderRests
<1> QED BY <1>2, <1>3, <1>4, <1>5, <1>6, <1>7 DEF RawNext, Walk, ReaderRests

LEMMA WalksStart ==
  ASSUME RawInit
  PROVE  WalkInvariant
<1>1. CASE CatalogInit
  <2>1. /\ phase = "catalog" /\ roots \in [Walkers -> RootPaths] /\ items = <<>> /\ oids = <<>>
        /\ th = [t \in Threads |-> IF t = Reader THEN Idle
                                   ELSE [Idle EXCEPT !.pc = "root", !.path = roots[t]]]
    BY <1>1 DEF CatalogInit
  <2>2. ASSUME NEW t \in Walkers
        PROVE  th[t].path = roots[t] /\ th[t].stack = <<>> /\ th[t].pc = "root"
    <3>1. PICK r : r = [Idle EXCEPT !.pc = "root", !.path = roots[t]]
      OBVIOUS
    <3>2. t \in Threads /\ t # Reader
      BY DEF Threads, Walkers, Reader
    <3>3. th[t] = r
      BY <2>1, <3>1, <3>2
    <3> QED BY <3>1, <3>3 DEF Idle
  <2>3. ASSUME NEW t \in Walkers
        PROVE  Later(th[t]) = "root" /\ Later(th[t]) \in Searches /\ Later(th[t]) \notin Resolves
    BY <2>2 DEF Later, Asks, Searches, Resolves
  <2>4. DOMAIN <<>> = {}
    OBVIOUS
  <2>5. WalksFit
    BY <2>2, <2>3, <2>4 DEF WalksFit, SearchFits, StackFits, Resolves
  <2>6. ASSUME NEW p PROVE Times(items, p) = 0
    <3>1. {i \in DOMAIN items : items[i] = p} = {}
      BY <2>1, <2>4
    <3> QED BY <3>1, FS_EmptySet DEF Times
  <2>7. \A t \in Walkers : \A p : Passes(roots[t], th[t], p) = 0
    BY <2>3 DEF Passes, ToCome
  <2>8. FilesCounted
    BY <2>6, <2>7 DEF FilesCounted, SentIs, Walkers
  <2> QED BY <2>1, <2>5, <2>8 DEF WalkInvariant, WalksCounted, ReaderRests
<1>2. CASE AnyWindow
  <2>1. phase = "prepare" /\ th = [t \in Threads |-> [Idle EXCEPT !.pc = "done"]]
    BY <1>2 DEF AnyWindow, Init
  <2>2. th[Reader].pc = "done"
    BY <2>1 DEF Threads, Idle
  <2> QED BY <2>1, <2>2 DEF WalkInvariant, WalksCounted, ReaderRests
<1> QED BY <1>1, <1>2 DEF RawInit

(* Every walk has come past what it has sent and has the rest before it.     *)
THEOREM WalksAreCounted == RawSpec => []WalkInvariant
<1>1. CatalogInvariant /\ WalkInvariant /\ [RawNext]_allVars => WalkInvariant'
  <2> SUFFICES ASSUME CatalogInvariant, WalksCounted, ReaderRests, [RawNext]_allVars
               PROVE  WalksCounted'
    BY ReaderLeaves DEF WalkInvariant
  <2>1. CASE \E t \in Threads : Resolve(t) \/ ReadBlock(t) \/ Walk(t)
    <3>1. PICK t \in Threads : Resolve(t) \/ ReadBlock(t) \/ Walk(t)
      BY <2>1
    <3>2. CASE t = Reader
      BY <3>1, <3>2, ReaderCounts
    <3>3. CASE t # Reader /\ faults' = 0
      <4>1. t \in Walkers
        BY <3>3 DEF Threads
      <4> QED BY <3>1, <3>3, <4>1, ResolveCounts, ReadCounts, WalkCounts
    <3>4. CASE faults' # 0
      BY <3>4 DEF WalksCounted
    <3> QED BY <3>2, <3>3, <3>4
  <2>2. CASE FindWindow
    BY <2>2, ReaderCounts
  <2>3. CASE Next /\ UNCHANGED catalogVars
    <3>1. phase' # "catalog"
      BY <2>3, WindowKeepsEntries
    <3> QED BY <3>1 DEF WalksCounted
  <2>4. CASE UNCHANGED allVars
    <3>1. UNCHANGED <<phase, cat, roots, th, oids, items, faults>>
      BY <2>4 DEF allVars, vars, catalogVars, caches
    <3> QED BY <3>1 DEF WalksCounted, WalksFit, FilesCounted, SentIs
  <2> QED BY <2>1, <2>2, <2>3, <2>4 DEF RawNext
<1>2. RawInit => WalkInvariant
  BY WalksStart
<1>3. RawInvariant => CatalogInvariant
  BY DEF RawInvariant
<1> QED BY <1>1, <1>2, <1>3, RawIsInvariant, PTL DEF RawSpec

LEMMA SeqOfIsPath ==
  ASSUME NEW S, NEW n, NEW p \in SeqOf(S, n)
  PROVE  IsPath(p)
<1>1. PICK m \in 0..n : p \in [1..m -> S]
  BY DEF SeqOf
<1>2. DOMAIN p = 1..m /\ m \in Nat /\ \A i \in 1..m : p[i] \in Range(p)
  BY <1>1 DEF Range
<1> QED BY <1>1, <1>2 DEF IsPath

(* Without a failed read every file under a root has been sent once when the *)
(* reader starts, and nothing else, for any catalog, roots and interleaving  *)
(* of the walks: under two roots, once for each.                             *)
THEOREM RootsAreListedOnce == RawSpec => []WalkListsRoots
<1>1. CatalogInvariant /\ WalkInvariant => WalkListsRoots
  <2> SUFFICES ASSUME CatalogInvariant, WalkInvariant, th[Reader].pc \notin {"idle", "done"}, faults = 0,
                      NEW p \in SeqOf(Names, 2)
               PROVE  Cardinality({i \in DOMAIN items : items[i] = p}) =
                        IF IsFile(cat, OidAt(p)) THEN Cardinality({t \in Walkers : IsPrefix(roots[t], p)}) ELSE 0
    BY DEF WalkListsRoots
  <2>1. IsPath(p)
    BY SeqOfIsPath
  <2>2. phase = "catalog"
    BY DEF WalkInvariant, ReaderRests
  <2>3. WalksFit /\ FilesCounted
    BY <2>2 DEF WalkInvariant, WalksCounted
  <2>4. \A t \in Walkers : th[t].pc = "done"
    <3>1. th[Reader].pc \in Asks => th[Reader].ret \in Returns
      BY <2>2 DEF CatalogInvariant, ThreadsFit, AnswerFits, Threads
    <3>2. Later(th[Reader]) # "idle"
      BY <3>1 DEF Later, Returns
    <3> QED BY <2>2, <3>2 DEF CatalogInvariant, ReaderFit
  <2>5. ASSUME NEW t \in Walkers PROVE Passes(roots[t], th[t], p) = IF IsPrefix(roots[t], p) THEN 1 ELSE 0
    <3>1. Later(th[t]) = "done" /\ Later(th[t]) \notin Searches
      BY <2>4 DEF Later, Asks, Searches, Resolves
    <3>2. th[t].stack = <<>> /\ DOMAIN <<>> = {}
      BY <2>3, <3>1 DEF WalksFit, SearchFits
    <3> QED BY <3>1, <3>2 DEF Passes, ToCome
  <2>6. PICK A, a, b : /\ A = {t \in Walkers : IsPrefix(roots[t], p)}
                       /\ a = Passes(roots[1], th[1], p) /\ b = Passes(roots[2], th[2], p)
    OBVIOUS
  <2>7. Times(items, p) = IF IsFile(cat, OidIn(cat, p)) THEN a + b ELSE 0
    BY <2>1, <2>3, <2>6 DEF FilesCounted, SentIs
  <2>8. /\ (1 \in A <=> a = 1) /\ (2 \in A <=> b = 1)
        /\ a \in {0, 1} /\ b \in {0, 1} /\ A \subseteq {1, 2}
    BY <2>5, <2>6 DEF Walkers
  <2>9. Cardinality(A) = a + b
    <3>1. CASE a = 1 /\ b = 1
      <4>1. A = {1} \cup {2} /\ 2 \notin {1}
        <5>1. 1 \in A /\ 2 \in A /\ A \subseteq {1, 2}
          BY <2>8, <3>1
        <5>2. \A x : x \in A <=> x = 1 \/ x = 2
          BY <5>1
        <5>3. \A x : x \in {1} \cup {2} <=> x = 1 \/ x = 2
          OBVIOUS
        <5>4. 2 \notin {1}
          OBVIOUS
        <5> QED BY <5>2, <5>3, <5>4
      <4>2. Cardinality({1}) = 1 /\ IsFiniteSet({1})
        BY FS_Singleton
      <4>3. Cardinality({1} \cup {2}) = 1 + 1
        BY <4>1, <4>2, FS_AddElement
      <4> QED BY <3>1, <4>1, <4>3
    <3>2. CASE a = 1 /\ b = 0
      <4>1. A = {1}
        BY <2>8, <3>2
      <4>2. Cardinality({1}) = 1
        BY FS_Singleton
      <4> QED BY <3>2, <4>1, <4>2
    <3>3. CASE a = 0 /\ b = 1
      <4>1. A = {2}
        BY <2>8, <3>3
      <4>2. Cardinality({2}) = 1
        BY FS_Singleton
      <4> QED BY <3>3, <4>1, <4>2
    <3>4. CASE a = 0 /\ b = 0
      <4>1. A = {}
        BY <2>8, <3>4
      <4> QED BY <3>4, <4>1, FS_EmptySet
    <3> QED BY <2>8, <3>1, <3>2, <3>3, <3>4
  <2> QED BY <2>6, <2>7, <2>9 DEF Times, OidAt
<1>2. RawInvariant => CatalogInvariant
  BY DEF RawInvariant
<1> QED BY <1>1, <1>2, RawIsInvariant, WalksAreCounted, PTL
=============================================================================
