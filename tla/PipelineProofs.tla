--------------------------- MODULE PipelineProofs ---------------------------
(* Proofs, for every number of files, readers, workers and channel capacity, *)
(* of Pipeline's safety properties.                                          *)
EXTENDS PipelineInvariant, SequenceTheorems, TLAPS

-----------------------------------------------------------------------------
(* What Append and Tail do to the elements of a channel.                     *)

LEMMA AppendFacts ==
  ASSUME NEW S, NEW s \in Seq(S), NEW e \in S
  PROVE  /\ Range(Append(s, e)) = Range(s) \cup {e}
         /\ IsInjective(s) /\ e \notin Range(s) => IsInjective(Append(s, e))
         /\ Append(s, e) \in Seq(S)
         /\ Len(Append(s, e)) = Len(s) + 1
<1>1. /\ Len(s) \in Nat /\ DOMAIN s = 1..Len(s)
      /\ Append(s, e) \in Seq(S) /\ Len(Append(s, e)) = Len(s) + 1
      /\ DOMAIN Append(s, e) = 1..(Len(s) + 1)
      /\ \A i \in 1..Len(s) : Append(s, e)[i] = s[i]
      /\ Append(s, e)[Len(s) + 1] = e
  OBVIOUS
<1>2. \A i \in 1..(Len(s) + 1) : i = Len(s) + 1 \/ i \in 1..Len(s)
  BY <1>1
<1>3. Range(Append(s, e)) = Range(s) \cup {e}
  <2>1. Range(Append(s, e)) \subseteq Range(s) \cup {e}
    BY <1>1, <1>2 DEF Range
  <2>2. \A i \in 1..Len(s) : i \in 1..(Len(s) + 1)
    BY <1>1
  <2>3. Len(s) + 1 \in 1..(Len(s) + 1)
    BY <1>1
  <2> HIDE <1>2
  <2>4. Range(s) \subseteq Range(Append(s, e))
    BY <1>1, <2>2 DEF Range
  <2>5. e \in Range(Append(s, e))
    BY <1>1, <2>3 DEF Range
  <2> QED BY <2>1, <2>4, <2>5
<1>4. ASSUME IsInjective(s), e \notin Range(s)
      PROVE  IsInjective(Append(s, e))
  BY <1>1, <1>2, <1>4 DEF IsInjective, Range
<1> QED BY <1>1, <1>3, <1>4

LEMMA TailFacts ==
  ASSUME NEW S, NEW s \in Seq(S), s # <<>>
  PROVE  /\ Head(s) \in Range(s)
         /\ Head(s) \in S
         /\ Tail(s) \in Seq(S)
         /\ Len(Tail(s)) = Len(s) - 1
         /\ Range(Tail(s)) \subseteq Range(s)
         /\ IsInjective(s) => IsInjective(Tail(s))
         /\ IsInjective(s) => Range(Tail(s)) = Range(s) \ {Head(s)}
<1>1. /\ Len(s) \in Nat \ {0} /\ DOMAIN s = 1..Len(s)
      /\ Head(s) = s[1] /\ Tail(s) \in Seq(S)
      /\ Len(Tail(s)) = Len(s) - 1 /\ DOMAIN Tail(s) = 1..(Len(s) - 1)
      /\ \A i \in 1..(Len(s) - 1) : Tail(s)[i] = s[i + 1]
  OBVIOUS
<1>2. Head(s) \in Range(s) /\ Head(s) \in S
  BY <1>1 DEF Range
<1>3. Range(Tail(s)) \subseteq Range(s)
  BY <1>1 DEF Range
<1>4. ASSUME IsInjective(s)
      PROVE  IsInjective(Tail(s)) /\ Range(Tail(s)) = Range(s) \ {Head(s)}
  <2>1. IsInjective(Tail(s))
    BY <1>1, <1>4 DEF IsInjective
  <2>2. \A i \in 1..Len(s) : s[i] # s[1] => i - 1 \in 1..(Len(s) - 1) /\ Tail(s)[i - 1] = s[i]
    BY <1>1
  <2>3. Head(s) \notin Range(Tail(s))
    BY <1>1, <1>4 DEF Range, IsInjective
  <2>4. ASSUME NEW i \in 1..Len(s), s[i] # s[1]
        PROVE  s[i] \in Range(Tail(s))
    BY <1>1, <2>2, <2>4 DEF Range
  <2>5. Range(s) \ {Head(s)} \subseteq Range(Tail(s))
    BY <1>1, <2>4 DEF Range
  <2> QED BY <1>3, <2>1, <2>3, <2>5
<1> QED BY <1>1, <1>2, <1>3, <1>4

-----------------------------------------------------------------------------
(* Types.                                                                    *)

LEMMA InitTypeOK == Init => TypeOK
  BY PipelineAssumption
     DEF Init, TypeOK, WalkTypes, FeedTypes, ReadTypes, CpuTypes, MainTypes,
         Ended, NoItem, Files

(* A step that leaves a group of variables alone leaves its types alone.     *)
LEMMA TypeFrame ==
  /\ WalkTypes /\ UNCHANGED walkVars => WalkTypes'
  /\ FeedTypes /\ UNCHANGED feedVars => FeedTypes'
  /\ ReadTypes /\ UNCHANGED readVars => ReadTypes'
  /\ CpuTypes /\ UNCHANGED cpuVars => CpuTypes'
  /\ MainTypes /\ UNCHANGED mainVars => MainTypes'
  BY DEF WalkTypes, walkVars, FeedTypes, feedVars, ReadTypes, readVars,
         CpuTypes, cpuVars, MainTypes, mainVars

LEMMA TypeStep == TypeOK /\ [Next]_vars => TypeOK'
<1> SUFFICES ASSUME TypeOK, [Next]_vars
             PROVE  TypeOK'
  OBVIOUS
<1> USE PipelineAssumption, TypeFrame DEF TypeOK
<1>1. ASSUME NEW f \in Files, WalkerSends(f)
      PROVE  TypeOK'
  <2>1. WalkTypes'
    BY <1>1 DEF WalkerSends, WalkTypes
  <2> QED BY <1>1, <2>1 DEF WalkerSends
<1>2. CASE WalkerEnds
  BY <1>2 DEF WalkerEnds, WalkTypes
<1>3. CASE BridgeReceives
  <2>1. WalkTypes'
    BY <1>3, TailFacts DEF BridgeReceives, WalkTypes
  <2>2. FeedTypes'
    BY <1>3, TailFacts DEF BridgeReceives, WalkTypes, FeedTypes
  <2> QED BY <1>3, <2>1, <2>2 DEF BridgeReceives
<1>4. CASE BridgeSeesWalkClosed
  BY <1>4 DEF BridgeSeesWalkClosed, FeedTypes
<1>5. CASE BridgeJoinsWalker
  <2>1. FeedTypes'
    BY <1>5 DEF BridgeJoinsWalker, FeedTypes, WalkTypes, Ended
  <2> QED BY <1>5, <2>1 DEF BridgeJoinsWalker
<1>6. CASE BatchTakesNext
  <2>1. FeedTypes'
    <3>1. Len(found) < NumFiles => Len(found) + 1 \in Files
      BY DEF FeedTypes, Files
    <3>2. Len(found) + 1 \in Nat
      BY DEF FeedTypes
    <3>3. found' \in Seq(Files)
      BY <1>6, <3>1 DEF BatchTakesNext, FeedTypes
    <3> QED BY <1>6, <3>2, <3>3 DEF BatchTakesNext, FeedTypes
  <2> QED BY <1>6, <2>1 DEF BatchTakesNext
<1>7. CASE FeederSends
  <2>1. FeedTypes'
    BY <1>7 DEF FeederSends, FeedTypes, NoItem
  <2> QED BY <1>7, <2>1 DEF FeederSends
<1>8. CASE FeederSendFails
  BY <1>8 DEF FeederSendFails, FeedTypes
<1>9. ASSUME NEW r \in Readers, NEW state \in {"send", "failed", "panicked"},
             ReaderTakes(r, state)
      PROVE  TypeOK'
  <2>1. FeedTypes'
    BY <1>9, TailFacts DEF ReaderTakes, FeedTypes
  <2>2. ReadTypes'
    BY <1>9, TailFacts DEF ReaderTakes, FeedTypes, ReadTypes, Ended
  <2> QED BY <1>9, <2>1, <2>2 DEF ReaderTakes
<1>10. ASSUME NEW r \in Readers, ReaderSends(r)
       PROVE  TypeOK'
  <2>1. ReadTypes'
    BY <1>10 DEF ReaderSends, ReadTypes, NoItem
  <2> QED BY <1>10, <2>1 DEF ReaderSends
<1>11. ASSUME NEW r \in Readers, ReaderSendFails(r) \/ ReaderSeesFeedClosed(r)
       PROVE  TypeOK'
  <2>1. ReadTypes'
    BY <1>11 DEF ReaderSendFails, ReaderSeesFeedClosed, ReadTypes, Ended
  <2> QED BY <1>11, <2>1 DEF ReaderSendFails, ReaderSeesFeedClosed
<1>12. ASSUME NEW c \in Workers, NEW state \in {"send", "failed", "panicked"},
              CpuTakes(c, state)
       PROVE  TypeOK'
  <2>1. ReadTypes'
    BY <1>12, TailFacts DEF CpuTakes, ReadTypes
  <2>2. CpuTypes'
    BY <1>12, TailFacts DEF CpuTakes, ReadTypes, CpuTypes, Ended
  <2> QED BY <1>12, <2>1, <2>2 DEF CpuTakes
<1>13. ASSUME NEW c \in Workers, CpuSends(c)
       PROVE  TypeOK'
  <2>1. CpuTypes'
    BY <1>13 DEF CpuSends, CpuTypes, NoItem
  <2> QED BY <1>13, <2>1 DEF CpuSends
<1>14. ASSUME NEW c \in Workers, CpuSeesRawClosed(c)
       PROVE  TypeOK'
  <2>1. CpuTypes'
    BY <1>14 DEF CpuSeesRawClosed, CpuTypes, Ended
  <2> QED BY <1>14, <2>1 DEF CpuSeesRawClosed
<1>15. CASE CollectAndSort
  BY <1>15 DEF CollectAndSort, WalkTypes, MainTypes
<1>16. CASE WriteArrival \/ HoldArrival
  <2>1. /\ Head(enc) \in Nat
        /\ Tail(enc) \in Seq(Nat)
        /\ Len(Tail(enc)) <= CpuBound
    BY <1>16, TailFacts DEF WriteArrival, HoldArrival, CpuTypes
  <2>2. CpuTypes'
    BY <1>16, <2>1 DEF WriteArrival, HoldArrival, CpuTypes
  <2>3. pending' \in SUBSET Nat /\ archive' \in Seq(Nat)
    <3>1. CASE WriteArrival
      BY <2>1, <3>1 DEF WriteArrival, MainTypes
    <3>2. CASE HoldArrival
      BY <2>1, <3>2 DEF HoldArrival, MainTypes
    <3> QED BY <1>16, <3>1, <3>2
  <2>4. MainTypes'
    BY <1>16, <2>3 DEF WriteArrival, HoldArrival, MainTypes
  <2> QED BY <1>16, <2>2, <2>4 DEF WriteArrival, HoldArrival
<1>17. CASE WriteNextInOrder
  <2>1. NextIdx \in Nat
    BY DEF NextIdx, MainTypes
  <2>2. archive' \in Seq(Nat)
    BY <1>17, <2>1 DEF WriteNextInOrder, MainTypes
  <2>3. MainTypes'
    BY <1>17, <2>2 DEF WriteNextInOrder, MainTypes
  <2> QED BY <1>17, <2>3 DEF WriteNextInOrder
<1>18. CASE WriterSeesEncClosed \/ JoinFeeder \/ Finish
  <2>1. MainTypes'
    BY <1>18 DEF WriterSeesEncClosed, JoinFeeder, Finish, MainTypes
  <2> QED BY <1>18, <2>1 DEF WriterSeesEncClosed, JoinFeeder, Finish
<1>19. CASE JoinReaders \/ JoinCpus
  <2>1. joined + 1 \in Nat /\ 0 \in Nat
    BY DEF MainTypes
  <2>2. joined' \in Nat
    BY <1>19, <2>1 DEF JoinReaders, JoinCpus, JoinNext, MainTypes
  <2>3. MainTypes'
    BY <1>19, <2>2 DEF JoinReaders, JoinCpus, JoinNext, MainTypes
  <2> QED BY <1>19, <2>3 DEF JoinReaders, JoinCpus, JoinNext
<1>20. CASE WalkerFails \/ CollectFails \/ WriteFails \/ FinishFails
  BY <1>20 DEF WalkerFails, CollectFails, WriteFails, FinishFails, WalkTypes,
     MainTypes
<1>21. CASE Returned \/ UNCHANGED vars
  BY <1>21 DEF Returned, vars
<1> QED
  BY <1>1, <1>2, <1>3, <1>4, <1>5, <1>6, <1>7, <1>8, <1>9, <1>10, <1>11,
     <1>12, <1>13, <1>14, <1>15, <1>16, <1>17, <1>18, <1>19, <1>20, <1>21
     DEF Next, Step, WalkerStep, FeederStep, ReaderStep, CpuStep, MainStep,
         Fault, ReaderReads, ReaderFails, ReaderPanics,
         CpuEncodes, CpuFails, CpuPanics

(* The variables keep their types.                                           *)
THEOREM TypeCorrect == Spec => []TypeOK
  BY InitTypeOK, TypeStep, PTL DEF Spec
-----------------------------------------------------------------------------
(* Each index is in one place.                                               *)

Disjoint(H) == \A p, q \in DOMAIN H : p # q => H[p] \cap H[q] = {}

(* Moving an element from one set of a partition to another.                 *)
LEMMA MoveKeepsPartition ==
  ASSUME NEW H, NEW G, DOMAIN G = DOMAIN H, Disjoint(H),
         NEW s \in DOMAIN H, NEW t \in DOMAIN H, s # t, NEW x \in H[s],
         G[s] = H[s] \ {x}, G[t] = H[t] \cup {x},
         \A p \in DOMAIN H : p # s /\ p # t => G[p] = H[p]
  PROVE  UNION Range(G) = UNION Range(H) /\ Disjoint(G)
<1>1. ASSUME NEW p \in DOMAIN H, NEW y \in G[p]
      PROVE  \E q \in DOMAIN H : y \in H[q]
  BY <1>1
<1>2. ASSUME NEW p \in DOMAIN H, NEW y \in H[p]
      PROVE  \E q \in DOMAIN G : y \in G[q]
  BY <1>2
<1>3. UNION Range(G) = UNION Range(H)
  BY <1>1, <1>2 DEF Range
<1>4. Disjoint(G)
  BY DEF Disjoint
<1> QED BY <1>3, <1>4

(* A new element enters one set of a partition.                              *)
LEMMA NewKeepsPartition ==
  ASSUME NEW H, NEW G, DOMAIN G = DOMAIN H, Disjoint(H),
         NEW t \in DOMAIN H, NEW x, x \notin UNION Range(H),
         G[t] = H[t] \cup {x},
         \A p \in DOMAIN H : p # t => G[p] = H[p]
  PROVE  UNION Range(G) = (UNION Range(H)) \cup {x} /\ Disjoint(G)
<1>1. \A p \in DOMAIN H : x \notin H[p]
  BY DEF Range
<1>2. ASSUME NEW p \in DOMAIN H, NEW y \in G[p]
      PROVE  y = x \/ \E q \in DOMAIN H : y \in H[q]
  BY <1>2
<1>3. ASSUME NEW p \in DOMAIN H, NEW y \in H[p]
      PROVE  \E q \in DOMAIN G : y \in G[q]
  BY <1>3
<1>4. UNION Range(G) = (UNION Range(H)) \cup {x}
  BY <1>2, <1>3 DEF Range
<1>5. ASSUME NEW p \in DOMAIN G, NEW q \in DOMAIN G, p # q
      PROVE  G[p] \cap G[q] = {}
  <2>1. H[p] \cap H[q] = {} /\ x \notin H[p] /\ x \notin H[q]
    BY <1>1, <1>5 DEF Disjoint
  <2> QED BY <1>5, <2>1
<1> QED BY <1>4, <1>5 DEF Disjoint

LEMMA HeldStages ==
  /\ DOMAIN Held = {"feeder", "feed", "readers", "raw", "workers", "enc",
                    "pending", "archive"}
  /\ Held["feeder"] = {feedItem} \ {NoItem}
  /\ Held["feed"] = Range(feed)
  /\ Held["readers"] = Range(readItem) \ {NoItem}
  /\ Held["raw"] = Range(raw)
  /\ Held["workers"] = Range(cpuItem) \ {NoItem}
  /\ Held["enc"] = Range(enc)
  /\ Held["pending"] = pending
  /\ Held["archive"] = Range(archive)
  BY DEF Held

(* The same for the next state.                                              *)
LEMMA HeldStagesNext ==
  /\ DOMAIN Held' = {"feeder", "feed", "readers", "raw", "workers", "enc",
                     "pending", "archive"}
  /\ Held'["feeder"] = {feedItem'} \ {NoItem}
  /\ Held'["feed"] = Range(feed')
  /\ Held'["readers"] = Range(readItem') \ {NoItem}
  /\ Held'["raw"] = Range(raw')
  /\ Held'["workers"] = Range(cpuItem') \ {NoItem}
  /\ Held'["enc"] = Range(enc')
  /\ Held'["pending"] = pending'
  /\ Held'["archive"] = Range(archive')
  BY DEF Held

(* What an index in flight is, and where else it is not.                     *)
LEMMA HeldFacts ==
  ASSUME HeldPartition
  PROVE  /\ Disjoint(Held)
         /\ \A p \in DOMAIN Held : \A x \in Held[p] : x \in 1..Len(found)
  BY DEF HeldPartition, Disjoint, Range

LEMMA PartitionMoves ==
  ASSUME HeldPartition, found' = found,
         NEW s \in DOMAIN Held, NEW t \in DOMAIN Held, s # t, NEW x \in Held[s],
         Held'[s] = Held[s] \ {x}, Held'[t] = Held[t] \cup {x},
         \A p \in DOMAIN Held : p # s /\ p # t => Held'[p] = Held[p]
  PROVE  HeldPartition'
<1>1. DOMAIN Held' = DOMAIN Held
  BY HeldStages, HeldStagesNext
<1>2. UNION Range(Held') = UNION Range(Held) /\ Disjoint(Held')
  BY <1>1, HeldFacts, MoveKeepsPartition
<1> QED BY <1>2 DEF HeldPartition, Disjoint

LEMMA PartitionGrows ==
  ASSUME HeldPartition, NEW t \in DOMAIN Held, NEW x, x \notin UNION Range(Held),
         Held'[t] = Held[t] \cup {x},
         \A p \in DOMAIN Held : p # t => Held'[p] = Held[p]
  PROVE  UNION Range(Held') = (UNION Range(Held)) \cup {x} /\ Disjoint(Held')
<1>1. DOMAIN Held' = DOMAIN Held
  BY HeldStages, HeldStagesNext
<1> QED BY <1>1, HeldFacts, NewKeepsPartition

(* A step that touches neither the indices nor their holders.                *)
LEMMA PlaceFrame ==
  EachIndexInOnePlace
  /\ UNCHANGED <<found, feedItem, feed, readItem, raw, cpuItem, enc, pending, archive>>
  => EachIndexInOnePlace'
<1> SUFFICES ASSUME EachIndexInOnePlace,
                    UNCHANGED <<found, feedItem, feed, readItem, raw, cpuItem,
                                enc, pending, archive>>
             PROVE  EachIndexInOnePlace'
  OBVIOUS
<1>1. Held' = Held
  BY DEF Held
<1>2. HeldPartition'
  BY <1>1 DEF EachIndexInOnePlace, HeldPartition
<1>3. HeldOnce'
  BY DEF EachIndexInOnePlace, HeldOnce
<1> QED BY <1>2, <1>3 DEF EachIndexInOnePlace

LEMMA NewIndexPlace ==
  ASSUME TypeOK, EachIndexInOnePlace, feedItem = NoItem, NEW f \in Files,
         found' = Append(found, f), feedItem' = Len(found) + 1,
         UNCHANGED <<feed, readItem, raw, cpuItem, enc, pending, archive>>
  PROVE  EachIndexInOnePlace'
<1>1. /\ Len(found) \in Nat /\ Len(found') = Len(found) + 1
      /\ feedItem' # NoItem /\ feedItem' \notin 1..Len(found)
      /\ 1..Len(found') = 1..Len(found) \cup {feedItem'}
  BY DEF TypeOK, FeedTypes, NoItem
<1>2. /\ Held'["feeder"] = Held["feeder"] \cup {feedItem'}
      /\ \A p \in DOMAIN Held : p # "feeder" => Held'[p] = Held[p]
  BY <1>1, HeldStages, HeldStagesNext
<1>3. UNION Range(Held) = 1..Len(found) /\ Disjoint(Held) /\ "feeder" \in DOMAIN Held
  BY HeldStages DEF EachIndexInOnePlace, HeldPartition, Disjoint
<1>4. UNION Range(Held') = (UNION Range(Held)) \cup {feedItem'} /\ Disjoint(Held')
  <2>1. feedItem' \notin UNION Range(Held) /\ HeldPartition
    BY <1>1, <1>3 DEF EachIndexInOnePlace
  <2> QED BY <1>2, <1>3, <2>1, PartitionGrows
<1>5. HeldPartition'
  BY <1>1, <1>3, <1>4 DEF HeldPartition, Disjoint
<1>6. HeldOnce'
  BY DEF EachIndexInOnePlace, HeldOnce
<1> QED BY <1>5, <1>6 DEF EachIndexInOnePlace

LEMMA PlaceStep ==
  ASSUME TypeOK, EachIndexInOnePlace, FeederHands, ReaderHands, CpuHands,
         WalkAccount, [Next]_vars
  PROVE  EachIndexInOnePlace'
<1> USE PlaceFrame
    DEF vars, walkVars, feedVars, readVars, cpuVars, mainVars
<1>1. CASE \/ \E f \in Files : WalkerSends(f)
           \/ WalkerEnds \/ WalkerFails \/ CollectAndSort \/ CollectFails
           \/ BridgeSeesWalkClosed \/ BridgeJoinsWalker \/ FeederSendFails
           \/ \E r \in Readers : ReaderSendFails(r) \/ ReaderSeesFeedClosed(r)
           \/ \E c \in Workers : CpuSeesRawClosed(c)
           \/ WriteFails \/ WriterSeesEncClosed \/ JoinFeeder \/ JoinReaders
           \/ JoinCpus \/ Finish \/ FinishFails \/ Returned \/ UNCHANGED vars
  BY <1>1 DEF WalkerSends, WalkerEnds, WalkerFails, CollectAndSort, CollectFails,
     BridgeSeesWalkClosed, BridgeJoinsWalker, FeederSendFails, ReaderSendFails,
     ReaderSeesFeedClosed, CpuSeesRawClosed, WriteFails, WriterSeesEncClosed,
     JoinFeeder, JoinReaders, JoinCpus, JoinNext, Finish, FinishFails, Returned
<1>2. CASE BridgeReceives
  <2>1. Head(wchan) \in Files
    BY <1>2, TailFacts DEF BridgeReceives, TypeOK, WalkTypes
  <2> QED BY <1>2, <2>1, NewIndexPlace DEF BridgeReceives, FeederHands
<1>3. CASE BatchTakesNext
  <2>1. CASE Len(found) < NumFiles
    <3>1. Len(found) + 1 \in Files
      BY <2>1, PipelineAssumption DEF TypeOK, FeedTypes, Files
    <3> QED BY <1>3, <2>1, <3>1, NewIndexPlace DEF BatchTakesNext, FeederHands
  <2>2. CASE ~(Len(found) < NumFiles)
    BY <1>3, <2>2 DEF BatchTakesNext
  <2> QED BY <2>1, <2>2
<1>4. CASE FeederSends
  <2>1. feedItem # NoItem /\ feedItem \in Nat /\ feed \in Seq(Nat)
    BY <1>4 DEF FeederSends, FeederHands, TypeOK, FeedTypes, NoItem
  <2>2. feedItem \in Held["feeder"] /\ feedItem \notin Range(feed)
    BY <2>1, HeldStages, HeldFacts DEF EachIndexInOnePlace, Disjoint
  <2>3. Range(feed') = Range(feed) \cup {feedItem} /\ IsInjective(feed')
    BY <1>4, <2>1, <2>2, AppendFacts
       DEF FeederSends, EachIndexInOnePlace, HeldOnce
  <2>4. HeldPartition'
    <3>1. /\ Held'["feeder"] = Held["feeder"] \ {feedItem}
          /\ Held'["feed"] = Held["feed"] \cup {feedItem}
          /\ \A p \in DOMAIN Held : p # "feeder" /\ p # "feed" => Held'[p] = Held[p]
      BY <1>4, <2>3, HeldStages, HeldStagesNext DEF FeederSends
    <3> QED BY <1>4, <2>2, <3>1, HeldStages, PartitionMoves
            DEF FeederSends, EachIndexInOnePlace
  <2> QED BY <1>4, <2>3, <2>4 DEF FeederSends, EachIndexInOnePlace, HeldOnce
<1>5. ASSUME NEW r \in Readers, NEW state, ReaderTakes(r, state)
      PROVE  EachIndexInOnePlace'
  <2> DEFINE x == Head(feed)
  <2>1. feed \in Seq(Nat) /\ feed # <<>> /\ IsInjective(feed)
    BY <1>5 DEF ReaderTakes, TypeOK, FeedTypes, EachIndexInOnePlace, HeldOnce
  <2>2. x \in Range(feed) /\ x \in Nat /\ Range(Tail(feed)) = Range(feed) \ {x}
        /\ IsInjective(Tail(feed))
    BY <2>1, TailFacts
  <2>3. x # NoItem /\ x \in Held["feed"] /\ x \notin Range(readItem)
    BY <2>2, HeldStages, HeldFacts DEF EachIndexInOnePlace, Disjoint, NoItem
  <2>4. readItem \in [Readers -> Nat] /\ readItem[r] = NoItem
    BY <1>5 DEF ReaderTakes, TypeOK, ReadTypes, ReaderHands
  <2>5. Range(readItem') \ {NoItem} = (Range(readItem) \ {NoItem}) \cup {x}
    <3>1. readItem' = [readItem EXCEPT ![r] = x]
      BY <1>5 DEF ReaderTakes
    <3> HIDE DEF x
    <3> QED BY <2>2, <2>3, <2>4, <3>1 DEF Range, NoItem
  <2>6. HeldPartition'
    <3>1. /\ Held'["feed"] = Held["feed"] \ {x}
          /\ Held'["readers"] = Held["readers"] \cup {x}
          /\ \A p \in DOMAIN Held : p # "feed" /\ p # "readers" => Held'[p] = Held[p]
      BY <1>5, <2>2, <2>5, HeldStages, HeldStagesNext DEF ReaderTakes
    <3> QED BY <1>5, <2>3, <3>1, HeldStages, PartitionMoves
            DEF ReaderTakes, EachIndexInOnePlace
  <2>7. ASSUME NEW a \in Readers, NEW b \in Readers,
               readItem'[a] = readItem'[b], readItem'[a] # NoItem
        PROVE  a = b
    BY <1>5, <2>3, <2>4, <2>7
       DEF ReaderTakes, EachIndexInOnePlace, HeldOnce, Range
  <2> QED BY <1>5, <2>2, <2>6, <2>7 DEF ReaderTakes, EachIndexInOnePlace, HeldOnce
<1>6. ASSUME NEW r \in Readers, ReaderSends(r)
      PROVE  EachIndexInOnePlace'
  <2> DEFINE x == readItem[r]
  <2>1. readItem \in [Readers -> Nat] /\ x # NoItem /\ raw \in Seq(Nat)
        /\ x \in Nat
    BY <1>6 DEF ReaderSends, TypeOK, ReadTypes, ReaderHands
  <2>2. \A a, b \in Readers : readItem[a] = readItem[b] /\ readItem[a] # NoItem => a = b
    BY DEF EachIndexInOnePlace, HeldOnce
  <2>3. x \in Held["readers"] /\ x \notin Range(raw)
    <3>1. x \in Held["readers"]
      BY <2>1, HeldStages DEF Range
    <3> QED BY <3>1, HeldStages, HeldFacts DEF EachIndexInOnePlace, Disjoint
  <2>4. Range(raw') = Range(raw) \cup {x} /\ IsInjective(raw')
    BY <1>6, <2>1, <2>3, AppendFacts DEF ReaderSends, EachIndexInOnePlace, HeldOnce
  <2>5. Range(readItem') \ {NoItem} = (Range(readItem) \ {NoItem}) \ {x}
    <3>1. readItem' = [readItem EXCEPT ![r] = NoItem]
      BY <1>6 DEF ReaderSends
    <3> QED BY <2>1, <2>2, <3>1 DEF Range, NoItem
  <2>6. HeldPartition'
    <3>1. /\ Held'["readers"] = Held["readers"] \ {x}
          /\ Held'["raw"] = Held["raw"] \cup {x}
          /\ \A p \in DOMAIN Held : p # "readers" /\ p # "raw" => Held'[p] = Held[p]
      BY <1>6, <2>4, <2>5, HeldStages, HeldStagesNext DEF ReaderSends
    <3> QED BY <1>6, <2>3, <3>1, HeldStages, PartitionMoves
            DEF ReaderSends, EachIndexInOnePlace
  <2>7. ASSUME NEW a \in Readers, NEW b \in Readers,
               readItem'[a] = readItem'[b], readItem'[a] # NoItem
        PROVE  a = b
    BY <1>6, <2>1, <2>2, <2>7 DEF ReaderSends
  <2> QED BY <1>6, <2>4, <2>6, <2>7 DEF ReaderSends, EachIndexInOnePlace, HeldOnce
<1>7. ASSUME NEW c \in Workers, NEW state, CpuTakes(c, state)
      PROVE  EachIndexInOnePlace'
  <2> DEFINE x == Head(raw)
  <2>1. raw \in Seq(Nat) /\ raw # <<>> /\ IsInjective(raw)
    BY <1>7 DEF CpuTakes, TypeOK, ReadTypes, EachIndexInOnePlace, HeldOnce
  <2>2. x \in Range(raw) /\ x \in Nat /\ Range(Tail(raw)) = Range(raw) \ {x}
        /\ IsInjective(Tail(raw))
    BY <2>1, TailFacts
  <2>3. x # NoItem /\ x \in Held["raw"] /\ x \notin Range(cpuItem)
    BY <2>2, HeldStages, HeldFacts DEF EachIndexInOnePlace, Disjoint, NoItem
  <2>4. cpuItem \in [Workers -> Nat] /\ cpuItem[c] = NoItem
    BY <1>7 DEF CpuTakes, TypeOK, CpuTypes, CpuHands
  <2>5. Range(cpuItem') \ {NoItem} = (Range(cpuItem) \ {NoItem}) \cup {x}
    <3>1. cpuItem' = [cpuItem EXCEPT ![c] = x]
      BY <1>7 DEF CpuTakes
    <3> HIDE DEF x
    <3> QED BY <2>2, <2>3, <2>4, <3>1 DEF Range, NoItem
  <2>6. HeldPartition'
    <3>1. /\ Held'["raw"] = Held["raw"] \ {x}
          /\ Held'["workers"] = Held["workers"] \cup {x}
          /\ \A p \in DOMAIN Held : p # "raw" /\ p # "workers" => Held'[p] = Held[p]
      BY <1>7, <2>2, <2>5, HeldStages, HeldStagesNext DEF CpuTakes
    <3> QED BY <1>7, <2>3, <3>1, HeldStages, PartitionMoves
            DEF CpuTakes, EachIndexInOnePlace
  <2>7. ASSUME NEW a \in Workers, NEW b \in Workers,
               cpuItem'[a] = cpuItem'[b], cpuItem'[a] # NoItem
        PROVE  a = b
    BY <1>7, <2>3, <2>4, <2>7 DEF CpuTakes, EachIndexInOnePlace, HeldOnce, Range
  <2> QED BY <1>7, <2>2, <2>6, <2>7 DEF CpuTakes, EachIndexInOnePlace, HeldOnce
<1>8. ASSUME NEW c \in Workers, CpuSends(c)
      PROVE  EachIndexInOnePlace'
  <2> DEFINE x == cpuItem[c]
  <2>1. cpuItem \in [Workers -> Nat] /\ x # NoItem /\ enc \in Seq(Nat)
        /\ x \in Nat
    BY <1>8 DEF CpuSends, TypeOK, CpuTypes, CpuHands
  <2>2. \A a, b \in Workers : cpuItem[a] = cpuItem[b] /\ cpuItem[a] # NoItem => a = b
    BY DEF EachIndexInOnePlace, HeldOnce
  <2>3. x \in Held["workers"] /\ x \notin Range(enc)
    <3>1. x \in Held["workers"]
      BY <2>1, HeldStages DEF Range
    <3> QED BY <3>1, HeldStages, HeldFacts DEF EachIndexInOnePlace, Disjoint
  <2>4. Range(enc') = Range(enc) \cup {x} /\ IsInjective(enc')
    BY <1>8, <2>1, <2>3, AppendFacts DEF CpuSends, EachIndexInOnePlace, HeldOnce
  <2>5. Range(cpuItem') \ {NoItem} = (Range(cpuItem) \ {NoItem}) \ {x}
    <3>1. cpuItem' = [cpuItem EXCEPT ![c] = NoItem]
      BY <1>8 DEF CpuSends
    <3> QED BY <2>1, <2>2, <3>1 DEF Range, NoItem
  <2>6. HeldPartition'
    <3>1. /\ Held'["workers"] = Held["workers"] \ {x}
          /\ Held'["enc"] = Held["enc"] \cup {x}
          /\ \A p \in DOMAIN Held : p # "workers" /\ p # "enc" => Held'[p] = Held[p]
      BY <1>8, <2>4, <2>5, HeldStages, HeldStagesNext DEF CpuSends
    <3> QED BY <1>8, <2>3, <3>1, HeldStages, PartitionMoves
            DEF CpuSends, EachIndexInOnePlace
  <2>7. ASSUME NEW a \in Workers, NEW b \in Workers,
               cpuItem'[a] = cpuItem'[b], cpuItem'[a] # NoItem
        PROVE  a = b
    BY <1>8, <2>1, <2>2, <2>7 DEF CpuSends
  <2> QED BY <1>8, <2>4, <2>6, <2>7 DEF CpuSends, EachIndexInOnePlace, HeldOnce
<1>9. CASE WriteArrival \/ HoldArrival
  <2> DEFINE x == Head(enc)
  <2>1. enc \in Seq(Nat) /\ enc # <<>> /\ IsInjective(enc) /\ archive \in Seq(Nat)
    BY <1>9 DEF WriteArrival, HoldArrival, TypeOK, CpuTypes, MainTypes,
                EachIndexInOnePlace, HeldOnce
  <2>2. x \in Range(enc) /\ x \in Nat /\ Range(Tail(enc)) = Range(enc) \ {x}
        /\ IsInjective(Tail(enc))
    BY <2>1, TailFacts
  <2>3. x \in Held["enc"] /\ x \notin Range(archive)
    BY <2>2, HeldStages, HeldFacts DEF EachIndexInOnePlace, Disjoint
  <2>4. CASE WriteArrival
    <3>1. Range(archive') = Range(archive) \cup {x} /\ IsInjective(archive')
      BY <2>1, <2>2, <2>3, <2>4, AppendFacts
         DEF WriteArrival, EachIndexInOnePlace, HeldOnce
    <3>2. /\ Held'["enc"] = Held["enc"] \ {x}
          /\ Held'["archive"] = Held["archive"] \cup {x}
          /\ \A p \in DOMAIN Held : p # "enc" /\ p # "archive" => Held'[p] = Held[p]
      BY <2>2, <2>4, <3>1, HeldStages, HeldStagesNext DEF WriteArrival
    <3>3. HeldPartition'
      BY <2>3, <2>4, <3>2, HeldStages, PartitionMoves
         DEF WriteArrival, EachIndexInOnePlace
    <3> QED BY <2>2, <2>4, <3>1, <3>3
            DEF WriteArrival, EachIndexInOnePlace, HeldOnce
  <2>5. CASE HoldArrival
    <3>1. /\ Held'["enc"] = Held["enc"] \ {x}
          /\ Held'["pending"] = Held["pending"] \cup {x}
          /\ \A p \in DOMAIN Held : p # "enc" /\ p # "pending" => Held'[p] = Held[p]
      BY <2>2, <2>5, HeldStages, HeldStagesNext DEF HoldArrival
    <3>2. HeldPartition'
      BY <2>3, <2>5, <3>1, HeldStages, PartitionMoves
         DEF HoldArrival, EachIndexInOnePlace
    <3> QED BY <2>2, <2>5, <3>2 DEF HoldArrival, EachIndexInOnePlace, HeldOnce
  <2> QED BY <1>9, <2>4, <2>5
<1>10. CASE WriteNextInOrder
  <2> DEFINE x == NextIdx
  <2>1. archive \in Seq(Nat) /\ x \in Nat /\ x \in Held["pending"]
    BY <1>10, HeldStages DEF WriteNextInOrder, NextIdx, TypeOK, MainTypes
  <2>2. x \notin Range(archive)
    BY <2>1, HeldStages, HeldFacts DEF EachIndexInOnePlace, Disjoint
  <2>3. Range(archive') = Range(archive) \cup {x} /\ IsInjective(archive')
    BY <1>10, <2>1, <2>2, AppendFacts
       DEF WriteNextInOrder, EachIndexInOnePlace, HeldOnce
  <2>4. /\ Held'["pending"] = Held["pending"] \ {x}
        /\ Held'["archive"] = Held["archive"] \cup {x}
        /\ \A p \in DOMAIN Held : p # "pending" /\ p # "archive" => Held'[p] = Held[p]
    BY <1>10, <2>3, HeldStages, HeldStagesNext DEF WriteNextInOrder
  <2>5. HeldPartition'
    BY <1>10, <2>1, <2>4, HeldStages, PartitionMoves
       DEF WriteNextInOrder, EachIndexInOnePlace
  <2> QED BY <1>10, <2>3, <2>5 DEF WriteNextInOrder, EachIndexInOnePlace, HeldOnce
<1> QED
  BY <1>1, <1>2, <1>3, <1>4, <1>5, <1>6, <1>7, <1>8, <1>9, <1>10
     DEF Next, Step, WalkerStep, FeederStep, ReaderStep, CpuStep, MainStep,
         Fault, ReaderReads, ReaderFails, ReaderPanics,
         CpuEncodes, CpuFails, CpuPanics

-----------------------------------------------------------------------------
(* Which actions change which variables.                                     *)

ReaderMove(r) ==
  \/ \E state \in {"send", "failed", "panicked"} : ReaderTakes(r, state)
  \/ ReaderSends(r) \/ ReaderSendFails(r) \/ ReaderSeesFeedClosed(r)

CpuMove(c) ==
  \/ \E state \in {"send", "failed", "panicked"} : CpuTakes(c, state)
  \/ CpuSends(c) \/ CpuSeesRawClosed(c)

MainMove ==
  \/ CollectAndSort \/ CollectFails
  \/ WriteArrival \/ HoldArrival \/ WriteNextInOrder \/ WriteFails
  \/ WriterSeesEncClosed \/ JoinFeeder \/ JoinReaders \/ JoinCpus
  \/ Finish \/ FinishFails

LEMMA Moves ==
  [Next]_vars =>
    \/ \E f \in Files : WalkerSends(f)
    \/ WalkerEnds \/ WalkerFails
    \/ FeederStep
    \/ \E r \in Readers : ReaderMove(r)
    \/ \E c \in Workers : CpuMove(c)
    \/ MainMove
    \/ UNCHANGED vars
  BY DEF Next, Step, WalkerStep, ReaderStep, CpuStep, MainStep, Fault, Returned,
         ReaderReads, ReaderFails, ReaderPanics, CpuEncodes, CpuFails, CpuPanics,
         ReaderMove, CpuMove, MainMove

LEMMA WalkMoves ==
  [Next]_vars =>
    \/ UNCHANGED walkVars
    \/ \E f \in Files : WalkerSends(f)
    \/ WalkerEnds \/ WalkerFails \/ BridgeReceives \/ CollectAndSort
  BY Moves
     DEF FeederStep, ReaderMove, CpuMove, MainMove, vars,
         BridgeSeesWalkClosed, BridgeJoinsWalker, BatchTakesNext, FeederSends,
         FeederSendFails, ReaderTakes, ReaderSends, ReaderSendFails,
         ReaderSeesFeedClosed, CpuTakes, CpuSends, CpuSeesRawClosed, CollectFails,
         WriteArrival, HoldArrival, WriteNextInOrder, WriteFails,
         WriterSeesEncClosed, JoinFeeder, JoinReaders, JoinCpus, JoinNext,
         Finish, FinishFails

LEMMA FeederMoves ==
  [Next]_vars => UNCHANGED <<feeder, found, feedItem>> \/ FeederStep
  BY Moves
     DEF ReaderMove, CpuMove, MainMove, vars, feedVars,
         WalkerSends, WalkerEnds, WalkerFails,
         ReaderTakes, ReaderSends, ReaderSendFails,
         ReaderSeesFeedClosed, CpuTakes, CpuSends, CpuSeesRawClosed,
         CollectAndSort, CollectFails,
         WriteArrival, HoldArrival, WriteNextInOrder, WriteFails,
         WriterSeesEncClosed, JoinFeeder, JoinReaders, JoinCpus, JoinNext,
         Finish, FinishFails

LEMMA ReaderMoves ==
  [Next]_vars => UNCHANGED <<reader, readItem>> \/ \E r \in Readers : ReaderMove(r)
  BY Moves
     DEF FeederStep, CpuMove, MainMove, vars, readVars,
         WalkerSends, WalkerEnds, WalkerFails, BridgeReceives,
         BridgeSeesWalkClosed, BridgeJoinsWalker, BatchTakesNext, FeederSends,
         FeederSendFails, CpuTakes, CpuSends, CpuSeesRawClosed,
         CollectAndSort, CollectFails,
         WriteArrival, HoldArrival, WriteNextInOrder, WriteFails,
         WriterSeesEncClosed, JoinFeeder, JoinReaders, JoinCpus, JoinNext,
         Finish, FinishFails

LEMMA CpuMoves ==
  [Next]_vars => UNCHANGED <<cpu, cpuItem>> \/ \E c \in Workers : CpuMove(c)
  BY Moves
     DEF FeederStep, ReaderMove, MainMove, vars, cpuVars,
         WalkerSends, WalkerEnds, WalkerFails, BridgeReceives,
         BridgeSeesWalkClosed, BridgeJoinsWalker, BatchTakesNext, FeederSends,
         FeederSendFails, ReaderTakes, ReaderSends, ReaderSendFails,
         ReaderSeesFeedClosed, CollectAndSort, CollectFails,
         WriteArrival, HoldArrival, WriteNextInOrder, WriteFails,
         WriterSeesEncClosed, JoinFeeder, JoinReaders, JoinCpus, JoinNext,
         Finish, FinishFails

LEMMA MainMoves ==
  [Next]_vars => UNCHANGED mainVars \/ MainMove
  BY Moves
     DEF FeederStep, ReaderMove, CpuMove, vars,
         WalkerSends, WalkerEnds, WalkerFails, BridgeReceives,
         BridgeSeesWalkClosed, BridgeJoinsWalker, BatchTakesNext, FeederSends,
         FeederSendFails, ReaderTakes, ReaderSends, ReaderSendFails,
         ReaderSeesFeedClosed, CpuTakes, CpuSends, CpuSeesRawClosed

(* The channels.                                                             *)
LEMMA ChannelMoves ==
  [Next]_vars =>
    /\ UNCHANGED feed \/ FeederSends
         \/ \E r \in Readers, state \in {"send", "failed", "panicked"} :
              ReaderTakes(r, state)
    /\ UNCHANGED raw \/ (\E r \in Readers : ReaderSends(r))
         \/ \E c \in Workers, state \in {"send", "failed", "panicked"} :
              CpuTakes(c, state)
    /\ UNCHANGED enc \/ (\E c \in Workers : CpuSends(c))
         \/ WriteArrival \/ HoldArrival
  BY Moves
     DEF FeederStep, ReaderMove, CpuMove, MainMove, vars, feedVars, readVars,
         cpuVars, WalkerSends, WalkerEnds, WalkerFails, BridgeReceives,
         BridgeSeesWalkClosed, BridgeJoinsWalker, BatchTakesNext, FeederSends,
         FeederSendFails, ReaderTakes, ReaderSends, ReaderSendFails,
         ReaderSeesFeedClosed, CpuTakes, CpuSends, CpuSeesRawClosed,
         CollectAndSort, CollectFails,
         WriteArrival, HoldArrival, WriteNextInOrder, WriteFails,
         WriterSeesEncClosed, JoinFeeder, JoinReaders, JoinCpus, JoinNext,
         Finish, FinishFails

-----------------------------------------------------------------------------
(* What, once true, stays true.                                              *)

LEMMA EndedStays ==
  ASSUME TypeOK, [Next]_vars
  PROVE  /\ \A r \in Readers : reader[r] \in Ended => reader'[r] = reader[r]
         /\ \A c \in Workers : cpu[c] \in Ended => cpu'[c] = cpu[c]
         /\ FeedClosed => feeder' = feeder
<1>1. \A r \in Readers : reader[r] \in Ended => reader'[r] = reader[r]
  <2>1. reader \in [Readers -> {"recv", "send"} \cup Ended]
    BY DEF TypeOK, ReadTypes
  <2> QED
    BY <2>1, ReaderMoves
       DEF ReaderMove, ReaderTakes, ReaderSends, ReaderSendFails,
           ReaderSeesFeedClosed, Ended
<1>2. \A c \in Workers : cpu[c] \in Ended => cpu'[c] = cpu[c]
  <2>1. cpu \in [Workers -> {"recv", "send"} \cup Ended]
    BY DEF TypeOK, CpuTypes
  <2> QED
    BY <2>1, CpuMoves
       DEF CpuMove, CpuTakes, CpuSends, CpuSeesRawClosed, Ended
<1>3. FeedClosed => feeder' = feeder
  BY FeederMoves
     DEF FeedClosed, FeederStep, BridgeReceives, BridgeSeesWalkClosed,
         BridgeJoinsWalker, BatchTakesNext, FeederSends, FeederSendFails
<1> QED BY <1>1, <1>2, <1>3

LEMMA ClosedStays ==
  ASSUME TypeOK, [Next]_vars
  PROVE  /\ Trouble => Trouble'
         /\ FeedClosed /\ feed = <<>> => FeedClosed' /\ feed' = <<>>
         /\ ReadersGone => ReadersGone'
         /\ ReadersGone /\ raw = <<>> => raw' = <<>>
         /\ WorkersGone => WorkersGone'
         /\ WorkersGone /\ enc = <<>> => enc' = <<>>
<1> USE EndedStays
<1>1. Trouble => Trouble'
  BY DEF Trouble, Broken, Ended
<1>2. FeedClosed /\ feed = <<>> => FeedClosed' /\ feed' = <<>>
  BY ChannelMoves DEF FeedClosed, FeederSends, ReaderTakes
<1>3. ReadersGone => ReadersGone'
  BY DEF ReadersGone
<1>4. ReadersGone /\ raw = <<>> => raw' = <<>>
  BY ChannelMoves DEF ReadersGone, ReaderSends, CpuTakes, Ended
<1>5. WorkersGone => WorkersGone'
  BY DEF WorkersGone
<1>6. WorkersGone /\ enc = <<>> => enc' = <<>>
  BY ChannelMoves DEF WorkersGone, CpuSends, WriteArrival, HoldArrival, Ended
<1> QED BY <1>1, <1>2, <1>3, <1>4, <1>5, <1>6

-----------------------------------------------------------------------------
(* Which items are in hand.                                                  *)

(* All threads of a stage are gone while the stage before it still sends.    *)
LEMMA GoneMeansTrouble ==
  ASSUME TypeOK, ReaderHands, CpuHands
  PROVE  /\ ReadersGone /\ ~FeedClosed => Trouble
         /\ WorkersGone /\ ~ReadersGone => Trouble
<1>1. ASSUME ReadersGone, ~FeedClosed
      PROVE  Trouble
  <2>1. 1 \in Readers
    BY PipelineAssumption DEF Readers
  <2>2. reader[1] \in Broken \/ reader[1] = "done"
    BY <1>1, <2>1 DEF ReadersGone, Ended, Broken
  <2> QED BY <1>1, <2>1, <2>2 DEF Trouble, ReaderHands
<1>2. ASSUME WorkersGone, ~ReadersGone
      PROVE  Trouble
  <2>1. CASE CpuJobs = 0
    BY <2>1 DEF Trouble
  <2>2. CASE CpuJobs # 0
    <3>1. 1 \in Workers
      BY <2>2, PipelineAssumption DEF Workers
    <3>2. cpu[1] \in Broken \/ cpu[1] = "done"
      BY <1>2, <3>1 DEF WorkersGone, Ended, Broken
    <3> QED BY <1>2, <3>1, <3>2 DEF Trouble, CpuHands
  <2> QED BY <2>1, <2>2
<1> QED BY <1>1, <1>2

LEMMA FeederHandsStep ==
  ASSUME TypeOK, FeederHands, ReaderHands, CpuHands, [Next]_vars
  PROVE  FeederHands'
<1>1. Trouble => Trouble'
  BY ClosedStays
<1>2. CASE UNCHANGED <<feeder, found, feedItem>>
  BY <1>1, <1>2 DEF FeederHands
<1>3. found \in Seq(Files) /\ feedItem \in Nat /\ Len(found) \in Nat
  BY DEF TypeOK, FeedTypes
<1>4. CASE BridgeReceives
  <2>1. Head(wchan) \in Files
    BY <1>4, TailFacts DEF BridgeReceives, TypeOK, WalkTypes
  <2>2. found' # <<>> /\ feedItem' = Len(found')
    BY <1>3, <1>4, <2>1 DEF BridgeReceives
  <2> QED BY <1>4, <2>2 DEF BridgeReceives, FeederHands
<1>5. CASE BatchTakesNext
  <2>1. CASE Len(found) < NumFiles
    <3>1. Len(found) + 1 \in Files
      BY <1>3, <2>1, PipelineAssumption DEF Files
    <3>2. found' # <<>> /\ feedItem' = Len(found')
      BY <1>3, <1>5, <2>1, <3>1 DEF BatchTakesNext
    <3> QED BY <1>5, <2>1, <3>2 DEF BatchTakesNext, FeederHands
  <2>2. CASE ~(Len(found) < NumFiles)
    BY <1>5, <2>2 DEF BatchTakesNext, FeederHands
  <2> QED BY <2>1, <2>2
<1>6. CASE FeederSends
  BY <1>6 DEF FeederSends, FeederHands
<1>7. CASE FeederSendFails
  <2>1. Trouble
    BY <1>7, GoneMeansTrouble DEF FeederSendFails, FeedClosed
  <2> QED BY <1>1, <1>7, <2>1 DEF FeederSendFails, FeederHands
<1>8. CASE BridgeSeesWalkClosed
  BY <1>8 DEF BridgeSeesWalkClosed, FeederHands
<1>9. CASE BridgeJoinsWalker
  <2>1. feeder' \notin {"recv", "send"}
    BY <1>9 DEF BridgeJoinsWalker, Ended
  <2> QED BY <1>1, <1>9, <2>1 DEF BridgeJoinsWalker, FeederHands
<1> QED
  BY <1>2, <1>4, <1>5, <1>6, <1>7, <1>8, <1>9, FeederMoves DEF FeederStep

LEMMA ReaderHandsStep ==
  ASSUME TypeOK, EachIndexInOnePlace, FeederHands, ReaderHands, CpuHands,
         [Next]_vars
  PROVE  ReaderHands'
<1>1. /\ Trouble => Trouble'
      /\ FeedClosed /\ feed = <<>> => FeedClosed' /\ feed' = <<>>
  BY ClosedStays
<1>2. CASE UNCHANGED <<reader, readItem>>
  BY <1>1, <1>2 DEF ReaderHands
<1>3. reader \in [Readers -> {"recv", "send"} \cup Ended]
      /\ readItem \in [Readers -> Nat]
  BY DEF TypeOK, ReadTypes
<1>4. ASSUME NEW r \in Readers, NEW state \in {"send", "failed", "panicked"},
             ReaderTakes(r, state)
      PROVE  ReaderHands'
  <2>1. feed \in Seq(Nat) /\ feed # <<>>
    BY <1>4 DEF ReaderTakes, TypeOK, FeedTypes
  <2>2. Head(feed) \in Held["feed"]
    BY <2>1, TailFacts, HeldStages
  <2>3. Head(feed) # NoItem
    BY <2>2, HeldStages, HeldFacts DEF EachIndexInOnePlace, NoItem
  <2>4. /\ reader'[r] = state /\ readItem'[r] = Head(feed)
        /\ \A t \in Readers : t # r => reader'[t] = reader[t] /\ readItem'[t] = readItem[t]
    BY <1>3, <1>4 DEF ReaderTakes
  <2> QED BY <1>1, <2>3, <2>4 DEF ReaderHands
<1>5. ASSUME NEW r \in Readers, ReaderSends(r)
      PROVE  ReaderHands'
  <2>1. /\ reader'[r] = "recv" /\ readItem'[r] = NoItem
        /\ \A t \in Readers : t # r => reader'[t] = reader[t] /\ readItem'[t] = readItem[t]
    BY <1>3, <1>5 DEF ReaderSends
  <2> QED BY <1>1, <2>1 DEF ReaderHands
<1>6. ASSUME NEW r \in Readers, ReaderSendFails(r)
      PROVE  ReaderHands'
  <2>1. /\ reader'[r] = "done" /\ readItem' = readItem
        /\ \A t \in Readers : t # r => reader'[t] = reader[t]
    BY <1>3, <1>6 DEF ReaderSendFails
  <2>2. readItem[r] # NoItem
    BY <1>6 DEF ReaderSendFails, ReaderHands
  <2>3. Trouble
    BY <1>6, GoneMeansTrouble DEF ReaderSendFails, ReadersGone, Ended
  <2> QED BY <1>1, <2>1, <2>2, <2>3 DEF ReaderHands
<1>7. ASSUME NEW r \in Readers, ReaderSeesFeedClosed(r)
      PROVE  ReaderHands'
  <2>1. /\ reader'[r] = "done" /\ readItem' = readItem
        /\ \A t \in Readers : t # r => reader'[t] = reader[t]
    BY <1>3, <1>7 DEF ReaderSeesFeedClosed
  <2>2. readItem[r] = NoItem /\ FeedClosed /\ feed = <<>>
    BY <1>7 DEF ReaderSeesFeedClosed, ReaderHands
  <2> QED BY <1>1, <2>1, <2>2 DEF ReaderHands
<1> QED
  BY <1>2, <1>4, <1>5, <1>6, <1>7, ReaderMoves DEF ReaderMove

LEMMA CpuHandsStep ==
  ASSUME TypeOK, EachIndexInOnePlace, CpuHands, [Next]_vars
  PROVE  CpuHands'
<1>1. /\ ReadersGone => ReadersGone'
      /\ ReadersGone /\ raw = <<>> => raw' = <<>>
  BY ClosedStays
<1>2. CASE UNCHANGED <<cpu, cpuItem>>
  BY <1>1, <1>2 DEF CpuHands
<1>3. cpu \in [Workers -> {"recv", "send"} \cup Ended]
      /\ cpuItem \in [Workers -> Nat]
  BY DEF TypeOK, CpuTypes
<1>4. ASSUME NEW c \in Workers, NEW state \in {"send", "failed", "panicked"},
             CpuTakes(c, state)
      PROVE  CpuHands'
  <2>1. raw \in Seq(Nat) /\ raw # <<>>
    BY <1>4 DEF CpuTakes, TypeOK, ReadTypes
  <2>2. Head(raw) \in Held["raw"]
    BY <2>1, TailFacts, HeldStages
  <2>3. Head(raw) # NoItem
    BY <2>2, HeldStages, HeldFacts DEF EachIndexInOnePlace, NoItem
  <2>4. /\ cpu'[c] = state /\ cpuItem'[c] = Head(raw)
        /\ \A d \in Workers : d # c => cpu'[d] = cpu[d] /\ cpuItem'[d] = cpuItem[d]
    BY <1>3, <1>4 DEF CpuTakes
  <2> QED BY <1>1, <2>3, <2>4 DEF CpuHands
<1>5. ASSUME NEW c \in Workers, CpuSends(c)
      PROVE  CpuHands'
  <2>1. /\ cpu'[c] = "recv" /\ cpuItem'[c] = NoItem
        /\ \A d \in Workers : d # c => cpu'[d] = cpu[d] /\ cpuItem'[d] = cpuItem[d]
    BY <1>3, <1>5 DEF CpuSends
  <2> QED BY <1>1, <2>1 DEF CpuHands
<1>6. ASSUME NEW c \in Workers, CpuSeesRawClosed(c)
      PROVE  CpuHands'
  <2>1. /\ cpu'[c] = "done" /\ cpuItem' = cpuItem
        /\ \A d \in Workers : d # c => cpu'[d] = cpu[d]
    BY <1>3, <1>6 DEF CpuSeesRawClosed
  <2>2. cpuItem[c] = NoItem /\ ReadersGone /\ raw = <<>>
    BY <1>6 DEF CpuSeesRawClosed, CpuHands
  <2> QED BY <1>1, <2>1, <2>2 DEF CpuHands
<1> QED
  BY <1>2, <1>4, <1>5, <1>6, CpuMoves DEF CpuMove

-----------------------------------------------------------------------------
(* The order of the archive under --sort, and the joins.                     *)

LEMMA OrderStep ==
  ASSUME TypeOK, ArchiveInOrder, [Next]_vars
  PROVE  ArchiveInOrder'
<1>1. CASE UNCHANGED archive \/ ~Sort
  BY <1>1 DEF ArchiveInOrder
<1>2. CASE WriteNextInOrder
  <2>1. archive \in Seq(Nat) /\ NextIdx \in Nat /\ NextIdx = Len(archive) + 1
    BY DEF TypeOK, MainTypes, NextIdx
  <2>2. archive' = Append(archive, NextIdx)
    BY <1>2 DEF WriteNextInOrder
  <2>3. /\ DOMAIN archive' = 1..(Len(archive) + 1)
        /\ \A i \in 1..Len(archive) : archive'[i] = archive[i]
        /\ archive'[Len(archive) + 1] = NextIdx
        /\ DOMAIN archive = 1..Len(archive)
        /\ Len(archive) \in Nat
    BY <2>1, <2>2
  <2>4. \A i \in 1..(Len(archive) + 1) : i = Len(archive) + 1 \/ i \in 1..Len(archive)
    BY <2>3
  <2> QED BY <2>1, <2>3, <2>4 DEF ArchiveInOrder
<1> QED
  BY <1>1, <1>2, MainMoves
     DEF MainMove, mainVars, CollectAndSort, CollectFails, WriteArrival, HoldArrival,
         WriteFails, WriterSeesEncClosed, JoinFeeder, JoinReaders, JoinCpus,
         JoinNext, Finish, FinishFails

LEMMA WriterDoneStep ==
  ASSUME TypeOK, JoinedWell, [Next]_vars
  PROVE  main' \notin {"collect", "write"} =>
           WorkersGone' /\ enc' = <<>> /\ NextIdx' \notin pending'
<1>1. CASE main \notin {"collect", "write"}
  <2>1. WorkersGone' /\ enc' = <<>>
    BY <1>1, ClosedStays DEF JoinedWell
  <2>2. UNCHANGED <<pending, archive>>
    BY <1>1, MainMoves
       DEF MainMove, mainVars, CollectAndSort, CollectFails, WriteArrival,
           HoldArrival, WriteNextInOrder, WriteFails, WriterSeesEncClosed,
           JoinFeeder, JoinReaders, JoinCpus, JoinNext, Finish, FinishFails
  <2> QED BY <1>1, <2>1, <2>2 DEF JoinedWell, NextIdx
<1>2. CASE WriterSeesEncClosed
  BY <1>2, ClosedStays DEF WriterSeesEncClosed, NextIdx
<1> QED
  BY <1>1, <1>2, MainMoves
     DEF MainMove, mainVars, CollectAndSort, CollectFails, WriteArrival,
         HoldArrival, WriteNextInOrder, WriteFails,
         JoinFeeder, JoinReaders, JoinCpus, JoinNext, Finish, FinishFails

LEMMA JoinStep ==
  ASSUME TypeOK, JoinedWell, [Next]_vars
  PROVE  JoinedWell'
<1> DEFINE Well == {"done", "panicked"}
<1>1. main' \notin {"collect", "write"} =>
        WorkersGone' /\ enc' = <<>> /\ NextIdx' \notin pending'
  BY WriterDoneStep
<1>2. /\ \A r \in Readers : reader[r] \in Well => reader'[r] = reader[r]
      /\ \A c \in Workers : cpu[c] \in Well => cpu'[c] = cpu[c]
      /\ feeder = "done" => feeder' = "done"
  BY EndedStays DEF Ended, FeedClosed
<1>3. CASE UNCHANGED <<main, joined, exit>>
  BY <1>1, <1>2, <1>3 DEF JoinedWell
<1>4. CASE JoinFeeder
  <2>1. feeder = "failed" \/ feeder = "done"
    BY <1>4 DEF JoinFeeder, FeedClosed
  <2>2. \A r \in Readers : ~(r <= 0)
    BY DEF Readers
  <2> QED BY <1>1, <1>2, <1>4, <2>1, <2>2, PipelineAssumption
          DEF JoinFeeder, JoinedWell
<1>5. CASE JoinReaders
  <2>1. CASE joined = ReadJobs
    <3>1. \A r \in Readers : r <= joined
      BY <2>1, PipelineAssumption DEF Readers
    <3>2. \A c \in Workers : ~(c <= 0)
      BY DEF Workers
    <3> QED BY <1>1, <1>2, <1>5, <2>1, <3>1, <3>2, PipelineAssumption
            DEF JoinReaders, JoinNext, JoinedWell
  <2>2. CASE joined # ReadJobs
    <3>1. joined \in Nat /\ joined <= ReadJobs
      BY <1>5 DEF JoinReaders, JoinNext, JoinedWell, TypeOK, MainTypes
    <3>2. joined + 1 \in Readers /\ joined + 1 <= ReadJobs
      BY <2>2, <3>1, PipelineAssumption DEF Readers
    <3>3. \A r \in Readers : r <= joined + 1 => r <= joined \/ r = joined + 1
      BY <3>1, PipelineAssumption DEF Readers
    <3>5. CASE reader[joined + 1] \in Well
      <4>1. main' = "joinReaders" /\ (joined' = joined + 1 \/ joined' = joined)
        BY <1>5, <2>2 DEF JoinReaders, JoinNext
      <4>2. exit' # "ok"
        BY <1>5, <2>2 DEF JoinReaders, JoinNext
      <4>3. \A r \in Readers : r <= joined' => reader'[r] \in Well
        BY <1>2, <1>5, <3>2, <3>3, <3>5, <4>1
           DEF JoinReaders, JoinNext, JoinedWell
      <4>4. feeder' = "done" /\ joined' <= ReadJobs
        BY <1>2, <1>5, <3>1, <3>2, <4>1 DEF JoinReaders, JoinNext, JoinedWell
      <4> QED BY <1>1, <4>1, <4>2, <4>3, <4>4 DEF JoinedWell
    <3>6. CASE reader[joined + 1] \notin Well
      BY <1>1, <1>2, <1>5, <2>2, <3>6 DEF JoinReaders, JoinNext, JoinedWell, Ended
    <3> QED BY <3>5, <3>6
  <2> QED BY <2>1, <2>2
<1>6. CASE JoinCpus
  <2>1. CASE joined = CpuJobs
    <3>1. \A c \in Workers : c <= joined
      BY <2>1, PipelineAssumption DEF Workers
    <3> QED BY <1>1, <1>2, <1>6, <2>1, <3>1, PipelineAssumption
            DEF JoinCpus, JoinNext, JoinedWell
  <2>2. CASE joined # CpuJobs
    <3>1. joined \in Nat /\ joined <= CpuJobs
      BY <1>6 DEF JoinCpus, JoinNext, JoinedWell, TypeOK, MainTypes
    <3>2. joined + 1 \in Workers /\ joined + 1 <= CpuJobs
      BY <2>2, <3>1, PipelineAssumption DEF Workers
    <3>3. \A c \in Workers : c <= joined + 1 => c <= joined \/ c = joined + 1
      BY <3>1, PipelineAssumption DEF Workers
    <3>5. CASE cpu[joined + 1] \in Well
      <4>1. main' = "joinCpus" /\ (joined' = joined + 1 \/ joined' = joined)
        BY <1>6, <2>2 DEF JoinCpus, JoinNext
      <4>2. exit' # "ok"
        BY <1>6, <2>2 DEF JoinCpus, JoinNext
      <4>3. \A c \in Workers : c <= joined' => cpu'[c] \in Well
        BY <1>2, <1>6, <3>2, <3>3, <3>5, <4>1
           DEF JoinCpus, JoinNext, JoinedWell
      <4>4. feeder' = "done" /\ joined' <= CpuJobs
        BY <1>2, <1>6, <3>1, <3>2, <4>1 DEF JoinCpus, JoinNext, JoinedWell
      <4>5. \A r \in Readers : reader'[r] \in Well
        BY <1>2, <1>6 DEF JoinCpus, JoinNext, JoinedWell
      <4> QED BY <1>1, <4>1, <4>2, <4>3, <4>4, <4>5 DEF JoinedWell
    <3>6. CASE cpu[joined + 1] \notin Well
      BY <1>1, <1>2, <1>6, <2>2, <3>6 DEF JoinCpus, JoinNext, JoinedWell, Ended
    <3> QED BY <3>5, <3>6
  <2> QED BY <2>1, <2>2
<1>7. CASE WriterSeesEncClosed
  BY <1>1, <1>2, <1>7 DEF WriterSeesEncClosed, JoinedWell
<1>8. CASE CollectAndSort \/ CollectFails \/ WriteFails
  BY <1>1, <1>2, <1>8 DEF CollectAndSort, CollectFails, WriteFails, JoinedWell
<1>9. CASE Finish \/ FinishFails
  BY <1>1, <1>2, <1>9 DEF Finish, FinishFails, JoinedWell
<1> QED
  BY <1>3, <1>4, <1>5, <1>6, <1>7, <1>8, <1>9, MainMoves
     DEF MainMove, mainVars, WriteArrival, HoldArrival, WriteNextInOrder

-----------------------------------------------------------------------------
(* What has been walked.                                                     *)

LEMMA SortedWalkStep ==
  ASSUME TypeOK, Sort, FeederHands, WalkAccount, [Next]_vars
  PROVE  WalkAccount'
<1>1. walker' = "done" /\ wchan' = <<>>
  BY WalkMoves
     DEF WalkAccount, walkVars, WalkerSends, WalkerEnds, WalkerFails, BridgeReceives,
         CollectAndSort
<1>2. found \in Seq(Files) /\ Len(found) \in Nat /\ NumFiles \in Nat
  BY PipelineAssumption DEF TypeOK, FeedTypes
<1>3. CASE UNCHANGED <<feeder, found, feedItem>>
  BY <1>1, <1>3 DEF WalkAccount
<1>4. CASE BatchTakesNext
  <2>1. CASE Len(found) < NumFiles
    <3>1. Len(found) + 1 \in Files
      BY <1>2, <2>1 DEF Files
    <3>2. found' = Append(found, Len(found) + 1) /\ feeder' = "send"
      BY <1>4, <2>1 DEF BatchTakesNext
    <3>3. /\ Len(found') = Len(found) + 1
          /\ DOMAIN found = 1..Len(found) /\ DOMAIN found' = 1..(Len(found) + 1)
          /\ \A i \in 1..Len(found) : found'[i] = found[i]
          /\ found'[Len(found) + 1] = Len(found) + 1
      BY <1>2, <3>1, <3>2
    <3>4. \A i \in 1..(Len(found) + 1) : i = Len(found) + 1 \/ i \in 1..Len(found)
      BY <1>2
    <3>5. \A i \in DOMAIN found' : found'[i] = i
      BY <3>3, <3>4 DEF WalkAccount
    <3>6. Len(found') <= NumFiles
      BY <1>2, <2>1, <3>3
    <3> QED BY <1>1, <3>2, <3>5, <3>6 DEF WalkAccount
  <2>2. CASE ~(Len(found) < NumFiles)
    <3>1. Len(found) = NumFiles
      BY <1>2, <2>2 DEF WalkAccount
    <3> QED BY <1>1, <1>4, <2>2, <3>1 DEF BatchTakesNext, WalkAccount
  <2> QED BY <2>1, <2>2
<1>5. CASE FeederSends
  BY <1>1, <1>5 DEF FeederSends, WalkAccount
<1>6. CASE FeederSendFails
  <2>1. feedItem' # NoItem
    BY <1>2, <1>6 DEF FeederSendFails, FeederHands, NoItem
  <2> QED BY <1>1, <1>6, <2>1 DEF FeederSendFails, WalkAccount
<1> QED
  BY <1>3, <1>4, <1>5, <1>6, FeederMoves
     DEF FeederStep, WalkAccount, BridgeReceives, BridgeSeesWalkClosed,
         BridgeJoinsWalker

(* The part of WalkAccount about the files, without --sort.                  *)
WalkedFiles ==
  /\ walked = Range(found) \cup Range(wchan)
  /\ Range(found) \cap Range(wchan) = {}
  /\ IsInjective(found)
  /\ IsInjective(wchan)

LEMMA WalkedFilesStep ==
  ASSUME TypeOK, ~Sort, WalkAccount, [Next]_vars
  PROVE  WalkedFiles'
<1>1. /\ found \in Seq(Files) /\ wchan \in Seq(Files)
      /\ WalkedFiles
      /\ main # "collect"
  BY DEF TypeOK, FeedTypes, WalkTypes, WalkAccount, WalkedFiles
<1>2. CASE UNCHANGED <<walked, wchan, found>>
  BY <1>1, <1>2 DEF WalkedFiles
<1>3. ASSUME NEW f \in Files, WalkerSends(f)
      PROVE  WalkedFiles'
  <2>1. f \notin Range(wchan) /\ f \notin Range(found)
    BY <1>1, <1>3 DEF WalkerSends, WalkedFiles
  <2>2. Range(wchan') = Range(wchan) \cup {f} /\ IsInjective(wchan')
    BY <1>1, <1>3, <2>1, AppendFacts DEF WalkerSends, WalkedFiles
  <2>3. found' = found /\ walked' = walked \cup {f}
    BY <1>3 DEF WalkerSends, feedVars
  <2> QED BY <1>1, <2>1, <2>2, <2>3 DEF WalkedFiles
<1>4. CASE BridgeReceives
  <2> DEFINE f == Head(wchan)
  <2>1. wchan # <<>> /\ wchan' = Tail(wchan) /\ found' = Append(found, f)
        /\ walked' = walked
    BY <1>4 DEF BridgeReceives
  <2>2. /\ f \in Range(wchan) /\ f \in Files
        /\ Range(wchan') = Range(wchan) \ {f} /\ IsInjective(wchan')
    BY <1>1, <2>1, TailFacts DEF WalkedFiles
  <2>3. f \notin Range(found)
    BY <1>1, <2>2 DEF WalkedFiles
  <2>4. Range(found') = Range(found) \cup {f} /\ IsInjective(found')
    BY <1>1, <2>1, <2>2, <2>3, AppendFacts DEF WalkedFiles
  <2> QED BY <1>1, <2>1, <2>2, <2>3, <2>4 DEF WalkedFiles
<1>5. BridgeReceives \/ UNCHANGED found
  BY FeederMoves
     DEF FeederStep, BridgeSeesWalkClosed, BridgeJoinsWalker,
         BatchTakesNext, FeederSends, FeederSendFails
<1> QED
  BY <1>1, <1>2, <1>3, <1>4, <1>5, WalkMoves
     DEF WalkerSends, WalkerEnds, WalkerFails, CollectAndSort, walkVars

LEMMA StreamedWalkStep ==
  ASSUME TypeOK, ~Sort, FeederHands, WalkAccount, [Next]_vars
  PROVE  WalkAccount'
<1>1. WalkedFiles'
  BY WalkedFilesStep
<1>2. pending' = {} /\ main' # "collect"
  BY MainMoves
     DEF WalkAccount, MainMove, mainVars, CollectAndSort, CollectFails,
         WriteArrival, HoldArrival, WriteNextInOrder, WriteFails,
         WriterSeesEncClosed, JoinFeeder, JoinReaders, JoinCpus, JoinNext,
         Finish, FinishFails
<1>3. main # "collect" /\ found \in Seq(Files) /\ Len(found) \in Nat
      /\ walker \in {"walking", "done", "failed"}
  BY DEF WalkAccount, TypeOK, WalkTypes, FeedTypes
<1>4. walker \in Ended => walker' = walker /\ walked' = walked
  BY <1>3, WalkMoves
     DEF walkVars, WalkerSends, WalkerEnds, WalkerFails, BridgeReceives,
         CollectAndSort, Ended
<1>5. walker' = "done" => walked' = Files
  BY <1>3, <1>4, WalkMoves
     DEF WalkAccount, walkVars, WalkerSends, WalkerEnds, WalkerFails,
         BridgeReceives, CollectAndSort, Ended
<1>6. wchan = <<>> /\ walker \in Ended => wchan' = <<>>
  BY <1>3, WalkMoves
     DEF walkVars, WalkerSends, WalkerEnds, WalkerFails,
         BridgeReceives, CollectAndSort, Ended
<1>7. /\ FeedClosed' => feeder' = walker'
      /\ feeder' \in {"join", "done", "failed"} /\ feedItem' = NoItem =>
           wchan' = <<>> /\ walker' \in Ended
  <2>1. CASE UNCHANGED <<feeder, found, feedItem>>
    BY <1>4, <1>6, <2>1 DEF WalkAccount, FeedClosed, Ended
  <2>2. CASE FeederSendFails
    <3>1. feedItem' # NoItem /\ feeder' = "join"
      BY <1>3, <2>2 DEF FeederSendFails, FeederHands, NoItem
    <3> QED BY <3>1 DEF FeedClosed
  <2>3. CASE BridgeSeesWalkClosed
    BY <1>4, <1>6, <2>3 DEF BridgeSeesWalkClosed, FeedClosed
  <2>4. CASE BridgeJoinsWalker
    BY <1>4, <1>6, <2>4 DEF BridgeJoinsWalker, WalkAccount, FeedClosed
  <2>5. CASE BridgeReceives \/ FeederSends
    BY <2>5 DEF BridgeReceives, FeederSends, FeedClosed
  <2> QED
    BY <2>1, <2>2, <2>3, <2>4, <2>5, FeederMoves DEF FeederStep, BatchTakesNext
<1> QED BY <1>1, <1>2, <1>5, <1>7 DEF WalkAccount, WalkedFiles

-----------------------------------------------------------------------------
(* The inductive invariant.                                                  *)

LEMMA InitInvariant == Init => IInv
<1> SUFFICES ASSUME Init
             PROVE  IInv
  OBVIOUS
<1>1. TypeOK
  BY InitTypeOK
<1>2. EachIndexInOnePlace
  <2>1. Range(<<>>) = {} /\ IsInjective(<<>>) /\ Len(<<>>) = 0 /\ 1..0 = {}
    BY DEF Range, IsInjective
  <2>2. Range(readItem) \ {NoItem} = {} /\ Range(cpuItem) \ {NoItem} = {}
    BY DEF Init, Range, NoItem
  <2>3. \A p \in DOMAIN Held : Held[p] = {}
    BY <2>1, <2>2, HeldStages DEF Init
  <2>4. HeldPartition
    <3>1. UNION Range(Held) = {}
      BY <2>3 DEF Range
    <3> QED BY <2>1, <2>3, <3>1 DEF HeldPartition, Init
  <2>5. HeldOnce
    BY <2>1 DEF HeldOnce, Init, NoItem
  <2> QED BY <2>4, <2>5 DEF EachIndexInOnePlace
<1>3. FeederHands /\ ReaderHands /\ CpuHands
  BY DEF Init, FeederHands, ReaderHands, CpuHands
<1>4. WalkAccount
  BY PipelineAssumption
     DEF Init, WalkAccount, Range, IsInjective, FeedClosed, Ended
<1>5. ArchiveInOrder /\ JoinedWell
  BY DEF Init, ArchiveInOrder, JoinedWell
<1> QED BY <1>1, <1>2, <1>3, <1>4, <1>5 DEF IInv

LEMMA InvariantStep == IInv /\ [Next]_vars => IInv'
<1> SUFFICES ASSUME IInv, [Next]_vars
             PROVE  IInv'
  OBVIOUS
<1> USE DEF IInv
<1>1. TypeOK'
  BY TypeStep
<1>2. EachIndexInOnePlace'
  BY PlaceStep
<1>3. FeederHands' /\ ReaderHands' /\ CpuHands'
  BY FeederHandsStep, ReaderHandsStep, CpuHandsStep
<1>4. WalkAccount'
  BY SortedWalkStep, StreamedWalkStep
<1>5. ArchiveInOrder' /\ JoinedWell'
  BY OrderStep, JoinStep
<1> QED BY <1>1, <1>2, <1>3, <1>4, <1>5

(* The strengthening that carries the properties below is an invariant.      *)
THEOREM InductiveInvariant == Spec => []IInv
  BY InitInvariant, InvariantStep, PTL DEF Spec

(* Every index given out is in exactly one place, for any number of threads. *)
THEOREM IndicesInOnePlace == Spec => []EachIndexInOnePlace
<1>1. IInv => EachIndexInOnePlace
  BY DEF IInv
<1> QED BY <1>1, InductiveInvariant, PTL

-----------------------------------------------------------------------------
(* What the invariant says about files and entries.                          *)

LEMMA FoundFacts ==
  ASSUME IInv
  PROVE  /\ found \in Seq(Files) /\ archive \in Seq(Nat)
         /\ IsInjective(found) /\ IsInjective(archive)
         /\ Range(archive) \subseteq 1..Len(found)
         /\ \A i \in DOMAIN archive : archive[i] \in DOMAIN found
<1>1. found \in Seq(Files) /\ archive \in Seq(Nat) /\ DOMAIN found = 1..Len(found)
  BY DEF IInv, TypeOK, FeedTypes, MainTypes
<1>2. IsInjective(found)
  BY DEF IInv, WalkAccount, IsInjective
<1>3. IsInjective(archive)
  BY DEF IInv, EachIndexInOnePlace, HeldOnce
<1>4. Range(archive) \subseteq 1..Len(found)
  BY HeldStages, HeldFacts DEF IInv, EachIndexInOnePlace
<1>5. \A i \in DOMAIN archive : archive[i] \in DOMAIN found
  BY <1>1, <1>4 DEF Range
<1> QED BY <1>1, <1>2, <1>3, <1>4, <1>5

(* At the end of a run without trouble every index is in the archive.        *)
LEMMA AllArchived ==
  ASSUME IInv, ~Trouble, main = "finish"
  PROVE  Range(archive) = 1..Len(found)
<1> USE DEF IInv
<1>1. /\ \A r \in Readers : reader[r] = "done"
      /\ \A c \in Workers : cpu[c] = "done"
      /\ feeder = "done" /\ enc = <<>> /\ NextIdx \notin pending
  BY DEF JoinedWell, Trouble, Broken
<1>2. 1 \in Readers /\ 1 \in Workers
  BY PipelineAssumption DEF Readers, Workers, Trouble
<1>3. feedItem = NoItem
  BY <1>1 DEF FeederHands
<1>4. /\ \A r \in Readers : readItem[r] = NoItem
      /\ feed = <<>>
  BY <1>1, <1>2 DEF ReaderHands
<1>5. /\ \A c \in Workers : cpuItem[c] = NoItem
      /\ raw = <<>>
  BY <1>1, <1>2 DEF CpuHands
<1>6. \A p \in DOMAIN Held : p # "pending" /\ p # "archive" => Held[p] = {}
  <2>1. Range(<<>>) = {}
    BY DEF Range
  <2>2. Range(readItem) \ {NoItem} = {} /\ Range(cpuItem) \ {NoItem} = {}
    BY <1>4, <1>5 DEF Range, TypeOK, ReadTypes, CpuTypes
  <2> QED BY <1>1, <1>3, <1>4, <1>5, <2>1, <2>2, HeldStages
<1>7. \A x \in 1..Len(found) : x \in pending \/ x \in Range(archive)
  <2>1. \A x \in 1..Len(found) : \E p \in DOMAIN Held : x \in Held[p]
    BY DEF EachIndexInOnePlace, HeldPartition, Range
  <2> QED BY <1>6, <2>1, HeldStages
<1>8. pending = {}
  <2>1. CASE ~Sort
    BY <2>1 DEF WalkAccount
  <2>2. CASE Sort
    <3>1. SUFFICES ASSUME NEW x \in pending
                   PROVE  FALSE
      OBVIOUS
    <3>2. archive \in Seq(Nat) /\ Len(archive) \in Nat /\ Len(found) \in Nat
      BY DEF TypeOK, FeedTypes, MainTypes
    <3>3. Range(archive) = 1..Len(archive)
      BY <2>2, <3>2 DEF ArchiveInOrder, Range
    <3>4. x \in 1..Len(found) /\ x \notin Range(archive)
      BY HeldStages, HeldFacts DEF EachIndexInOnePlace, Disjoint
    <3>5. NextIdx \in 1..Len(found) /\ NextIdx \notin 1..Len(archive)
      BY <3>2, <3>3, <3>4 DEF NextIdx
    <3> QED BY <1>1, <1>7, <3>3, <3>5
  <2> QED BY <2>1, <2>2
<1>9. Range(archive) \subseteq 1..Len(found)
  BY FoundFacts
<1> QED BY <1>7, <1>8, <1>9

(* A feeder that dropped nothing has indexed the whole input by then.        *)
LEMMA AllFound ==
  ASSUME IInv, main = "finish", feedItem = NoItem
  PROVE  Range(found) = Files
<1> USE DEF IInv
<1>1. feeder = "done"
  BY DEF JoinedWell
<1>2. CASE Sort
  <2>1. Len(found) = NumFiles /\ \A i \in DOMAIN found : found[i] = i
    BY <1>1, <1>2 DEF WalkAccount
  <2>2. DOMAIN found = Files
    BY <2>1, FoundFacts DEF Files
  <2> QED BY <2>1, <2>2 DEF Range
<1>3. CASE ~Sort
  <2>1. wchan = <<>> /\ walked = Files /\ walked = Range(found) \cup Range(wchan)
    BY <1>1, <1>3 DEF WalkAccount, FeedClosed
  <2>2. Range(<<>>) = {}
    BY DEF Range
  <2> QED BY <2>1, <2>2
<1> QED BY <1>2, <1>3

LEMMA ArchivedOnce ==
  ASSUME IInv
  PROVE  IsInjective(ArchivedFiles)
<1>1. DOMAIN ArchivedFiles = DOMAIN archive
      /\ \A i \in DOMAIN archive : ArchivedFiles[i] = found[archive[i]]
  BY DEF ArchivedFiles
<1> QED BY <1>1, FoundFacts DEF IsInjective

LEMMA CompleteAtFinish ==
  ASSUME IInv, ~Trouble, main = "finish"
  PROVE  Range(ArchivedFiles) = Files /\ Range(found) = Files
<1>1. Range(archive) = 1..Len(found)
  BY AllArchived
<1>4. Range(found) = Files
  <2>1. feedItem = NoItem
    BY DEF IInv, JoinedWell, FeederHands
  <2> QED BY <2>1, AllFound
<1>2. DOMAIN found = 1..Len(found)
  BY FoundFacts
<1>3. Range(ArchivedFiles) = {found[x] : x \in Range(archive)}
  BY DEF ArchivedFiles, Range
<1> QED BY <1>1, <1>2, <1>3, <1>4 DEF Range

-----------------------------------------------------------------------------
(* The safety properties.                                                    *)

(* With at least one worker, `run` returns Ok only over a complete archive   *)
(* (pipeline.rs, the joins and finish).                                      *)
THEOREM CompleteWhenOk ==
  ASSUME CpuJobs # 0
  PROVE  Spec => []OkMeansComplete
<1>1. IInv => OkMeansComplete
  <2>1. SUFFICES ASSUME IInv, exit = "ok", NoPanic
                 PROVE  Range(ArchivedFiles) = Files /\ IsInjective(ArchivedFiles)
    BY DEF OkMeansComplete
  <2>2. main = "finish"
    BY <2>1 DEF IInv, JoinedWell
  <2>3. ~Trouble
    BY <2>1, <2>2 DEF IInv, JoinedWell, Trouble, Broken, NoPanic
  <2> QED BY <2>1, <2>2, <2>3, CompleteAtFinish, ArchivedOnce
<1> QED BY <1>1, InductiveInvariant, PTL

(* `run` never returns Ok over a walker, reader or worker that failed.       *)
THEOREM NoFailureWhenOk == Spec => []OkMeansNoFailure
<1>1. IInv => OkMeansNoFailure
  <2>1. SUFFICES ASSUME IInv, exit = "ok"
                 PROVE  /\ walker # "failed"
                        /\ \A r \in Readers : reader[r] # "failed"
                        /\ \A c \in Workers : cpu[c] # "failed"
    BY DEF OkMeansNoFailure
  <2>2. main = "finish" /\ feeder = "done"
    BY <2>1 DEF IInv, JoinedWell
  <2>3. walker # "failed"
    BY <2>1, <2>2 DEF IInv, WalkAccount, FeedClosed
  <2> QED BY <2>1, <2>2, <2>3 DEF IInv, JoinedWell
<1> QED BY <1>1, InductiveInvariant, PTL

(* --sort: whatever order the workers finish in, the archive is a prefix of  *)
(* the sorted list.                                                          *)
THEOREM ArchiveIsSortedPrefix == Spec => []SortedPrefix
<1>1. IInv => SortedPrefix
  <2>1. SUFFICES ASSUME IInv, Sort, NEW i \in DOMAIN archive
                 PROVE  ArchivedFiles[i] = i
    BY DEF SortedPrefix
  <2>2. archive[i] = i /\ archive[i] \in DOMAIN found
    BY <2>1, FoundFacts DEF IInv, ArchiveInOrder
  <2>3. found[i] = i
    BY <2>1, <2>2 DEF IInv, WalkAccount
  <2> QED BY <2>1, <2>2, <2>3 DEF ArchivedFiles
<1> QED BY <1>1, InductiveInvariant, PTL

(* An item is dropped only when every thread that could have taken it broke,*)
(* or dropped one itself for that reason: none of them closed in good order. *)
DropsUnheard ==
  /\ feeder # "send" /\ feedItem # NoItem =>
       \A r \in Readers : reader[r] \in Broken \/ (reader[r] = "done" /\ readItem[r] # NoItem)
  /\ \A r \in Readers : reader[r] = "done" /\ readItem[r] # NoItem =>
       \A c \in Workers : cpu[c] \in Broken

LEMMA DropsStep == IInv /\ DropsUnheard /\ [Next]_vars => DropsUnheard'
<1> SUFFICES ASSUME IInv, DropsUnheard, [Next]_vars PROVE DropsUnheard'
  OBVIOUS
<1>1. /\ TypeOK /\ FeederHands /\ ReaderHands /\ CpuHands
      /\ reader \in [Readers -> {"recv", "send"} \cup Ended]
      /\ readItem \in [Readers -> Nat]
  BY DEF IInv, TypeOK, ReadTypes
<1>2. /\ \A r \in Readers : reader[r] \in Ended => reader'[r] = reader[r]
      /\ \A c \in Workers : cpu[c] \in Ended => cpu'[c] = cpu[c]
  BY <1>1, EndedStays
<1>3. \A r \in Readers : reader[r] \in Ended => readItem'[r] = readItem[r]
  BY <1>1, ReaderMoves
     DEF ReaderMove, ReaderTakes, ReaderSends, ReaderSendFails,
         ReaderSeesFeedClosed, Ended
<1>4. \A r \in Readers :
        reader'[r] = "done" /\ readItem'[r] # NoItem => \A c \in Workers : cpu'[c] \in Broken
  <2>1. SUFFICES ASSUME NEW r \in Readers, reader'[r] = "done", readItem'[r] # NoItem,
                        NEW c \in Workers
                 PROVE  cpu'[c] \in Broken
    OBVIOUS
  <2>2. CASE reader[r] \in Ended
    BY <1>2, <1>3, <2>1, <2>2 DEF DropsUnheard, Ended, Broken
  <2>3. CASE reader[r] \notin Ended
    <3>1. ReaderSendFails(r) \/ ReaderSeesFeedClosed(r)
      BY <1>1, <2>1, <2>3, ReaderMoves
         DEF ReaderMove, ReaderTakes, ReaderSends, ReaderSendFails,
             ReaderSeesFeedClosed, Ended
    <3>2. ReaderSendFails(r)
      BY <1>1, <2>1, <3>1 DEF ReaderSeesFeedClosed, ReaderHands
    <3>3. WorkersGone /\ ~ReadersGone
      BY <2>3, <3>2 DEF ReaderSendFails, ReadersGone
    <3>4. cpu[c] \in Ended /\ cpu[c] # "done"
      BY <1>1, <3>3 DEF WorkersGone, CpuHands
    <3> QED BY <1>2, <3>4 DEF Ended, Broken
  <2> QED BY <2>2, <2>3
<1>5. ASSUME \A r \in Readers :
               reader[r] \in Broken \/ (reader[r] = "done" /\ readItem[r] # NoItem)
      PROVE  \A r \in Readers :
               reader'[r] \in Broken \/ (reader'[r] = "done" /\ readItem'[r] # NoItem)
  BY <1>2, <1>3, <1>5 DEF Broken, Ended
<1>6. ASSUME feeder' # "send", feedItem' # NoItem
      PROVE  \A r \in Readers :
               reader[r] \in Broken \/ (reader[r] = "done" /\ readItem[r] # NoItem)
  <2>1. CASE feeder # "send" /\ feedItem # NoItem
    BY <2>1 DEF DropsUnheard
  <2>2. CASE FeederSendFails
    <3>1. ReadersGone /\ ~FeedClosed
      BY <2>2 DEF FeederSendFails, FeedClosed
    <3> QED BY <1>1, <3>1 DEF ReadersGone, ReaderHands, Ended, Broken
  <2>3. CASE ~(feeder # "send" /\ feedItem # NoItem) /\ ~FeederSendFails
    <3>1. CASE feeder' = feeder /\ feedItem' = feedItem
      BY <1>6, <2>3, <3>1
    <3>2. CASE BridgeReceives \/ FeederSends
      BY <1>6, <3>2 DEF BridgeReceives, FeederSends
    <3>3. CASE BridgeSeesWalkClosed \/ BatchTakesNext
      BY <1>1, <1>6, <3>3 DEF BridgeSeesWalkClosed, BatchTakesNext, FeederHands
    <3>4. CASE BridgeJoinsWalker
      BY <1>6, <2>3, <3>4 DEF BridgeJoinsWalker
    <3> QED BY <2>3, <3>1, <3>2, <3>3, <3>4, FeederMoves DEF FeederStep
  <2> QED BY <2>1, <2>2, <2>3
<1> QED BY <1>4, <1>5, <1>6 DEF DropsUnheard

LEMMA Drops == Spec => [](IInv /\ DropsUnheard)
<1>1. Init => DropsUnheard
  BY DEF Init, DropsUnheard
<1> QED BY <1>1, DropsStep, InductiveInvariant, PTL DEF Spec

(* When a reader and a worker closed in good order, what is neither written  *)
(* nor held back at the end is what the panicking threads had in hand.       *)
LEMMA SurvivorsHandOn ==
  ASSUME IInv, DropsUnheard, main = "finish", Survived
  PROVE  /\ feedItem = NoItem
         /\ \A x \in 1..Len(found) : x \in Dropped \/ x \in pending \/ x \in Range(archive)
         /\ \A x \in Dropped : x \notin Range(archive) \/ x = NoItem
<1> USE DEF IInv
<1>1. /\ \A r \in Readers : reader[r] \in {"done", "panicked"}
      /\ \A c \in Workers : cpu[c] \in {"done", "panicked"}
      /\ feeder = "done" /\ enc = <<>>
  BY DEF JoinedWell
<1>2. PICK c \in Workers : cpu[c] = "done"
  BY DEF Survived
<1>3. raw = <<>>
  BY <1>2 DEF CpuHands
<1>4. \A r \in Readers : reader[r] = "done" => readItem[r] = NoItem
  BY <1>2 DEF DropsUnheard, Broken
<1>5. PICK r \in Readers : reader[r] = "done"
  BY DEF Survived
<1>6. feed = <<>> /\ feedItem = NoItem
  BY <1>1, <1>4, <1>5 DEF ReaderHands, DropsUnheard, Broken
<1>7. \A d \in Workers : cpu[d] = "done" => cpuItem[d] = NoItem
  BY DEF CpuHands
<1>8. Range(<<>>) = {}
  BY DEF Range
<1>9. /\ DOMAIN readItem = Readers /\ DOMAIN cpuItem = Workers
  BY DEF TypeOK, ReadTypes, CpuTypes
<1>10. Dropped \ {NoItem} = Held["readers"] \cup Held["workers"]
  <2>1. Range(readItem) \ {NoItem} =
          {readItem[t] : t \in {t \in Readers : reader[t] = "panicked"}} \ {NoItem}
    BY <1>1, <1>4, <1>9 DEF Range
  <2>2. Range(cpuItem) \ {NoItem} =
          {cpuItem[d] : d \in {d \in Workers : cpu[d] = "panicked"}} \ {NoItem}
    BY <1>1, <1>7, <1>9 DEF Range
  <2> QED BY <2>1, <2>2, HeldStages DEF Dropped
<1>11. Held["feeder"] = {} /\ Held["feed"] = {} /\ Held["raw"] = {} /\ Held["enc"] = {}
  BY <1>1, <1>3, <1>6, <1>8, HeldStages
<1>12. ASSUME NEW x \in 1..Len(found)
       PROVE  x \in Dropped \/ x \in pending \/ x \in Range(archive)
  <2>1. PICK p \in DOMAIN Held : x \in Held[p]
    BY DEF EachIndexInOnePlace, HeldPartition, Range
  <2> QED BY <1>10, <1>11, <2>1, HeldStages
<1>13. ASSUME NEW x \in Dropped, x # NoItem
       PROVE  x \notin Range(archive)
  BY <1>10, <1>13, HeldStages, HeldFacts DEF EachIndexInOnePlace, Disjoint
<1> QED BY <1>6, <1>12, <1>13

(* Whatever panics, as long as a thread of each pool survives: Ok passes over*)
(* what was in hand, and --sort over what comes after it.                    *)
THEOREM SurvivorsFinish == Spec => []OkLosesOnlyDropped
<1>1. IInv /\ DropsUnheard => OkLosesOnlyDropped
  <2>1. SUFFICES ASSUME IInv, DropsUnheard, exit = "ok", Survived
                 PROVE  /\ Range(found) = Files
                        /\ Range(archive) =
                             IF Sort THEN {i \in DOMAIN found : Dropped \cap 1..i = {}}
                                     ELSE DOMAIN found \ Dropped
    BY DEF OkLosesOnlyDropped
  <2>2. main = "finish" /\ NextIdx \notin pending
    BY <2>1 DEF IInv, JoinedWell
  <2>3. /\ feedItem = NoItem
        /\ \A x \in 1..Len(found) : x \in Dropped \/ x \in pending \/ x \in Range(archive)
        /\ \A x \in Dropped : x \notin Range(archive) \/ x = NoItem
    BY <2>1, <2>2, SurvivorsHandOn
  <2>4. Range(found) = Files
    BY <2>1, <2>2, <2>3, AllFound
  <2>5. DOMAIN found = 1..Len(found) /\ Len(found) \in Nat /\ Len(archive) \in Nat
        /\ Range(archive) \subseteq 1..Len(found)
    BY <2>1, FoundFacts
  <2>6. CASE ~Sort
    <3>1. pending = {}
      BY <2>1, <2>6 DEF IInv, WalkAccount
    <3>2. Range(archive) = DOMAIN found \ Dropped
      BY <2>3, <2>5, <3>1 DEF NoItem
    <3> QED BY <2>4, <2>6, <3>2
  <2>7. CASE Sort
    <3>1. Range(archive) = 1..Len(archive)
      BY <2>1, <2>7, FoundFacts DEF IInv, ArchiveInOrder, Range
    <3>2. ASSUME NEW i \in Range(archive)
          PROVE  Dropped \cap 1..i = {}
      BY <2>3, <2>5, <3>1 DEF NoItem
    <3>3. ASSUME NEW i \in DOMAIN found, Dropped \cap 1..i = {}, i \notin Range(archive)
          PROVE  FALSE
      <4>1. NextIdx \in 1..i /\ NextIdx \in 1..Len(found) /\ NextIdx \notin Range(archive)
        BY <2>5, <3>1, <3>3 DEF NextIdx
      <4> QED BY <2>2, <2>3, <3>3, <4>1
    <3>4. Range(archive) = {i \in DOMAIN found : Dropped \cap 1..i = {}}
      BY <2>5, <3>2, <3>3
    <3> QED BY <2>4, <2>7, <3>4
  <2> QED BY <2>6, <2>7
<1> QED BY <1>1, Drops, PTL

(* The bridge keeps the walk channel's receiver until the walker has ended.  *)
THEOREM ReceiverOutlivesWalker == Spec => []WalkReceiverOutlivesWalker
<1>1. IInv => WalkReceiverOutlivesWalker
  BY DEF IInv, TypeOK, WalkTypes, WalkAccount, WalkReceiverOutlivesWalker,
         FeedClosed, Ended
<1> QED BY <1>1, InductiveInvariant, PTL

-----------------------------------------------------------------------------
(* Where a run can come to a stop.  Each predicate is the guards of the      *)
(* steps of one thread, without those of Fault: nothing has to fail.         *)

WalkerMay == walker = "walking" /\ (walked = Files \/ Len(wchan) < WalkBound)

FeederMay ==
  \/ feeder = "recv" /\ ~Sort /\ (wchan # <<>> \/ walker \in Ended)
  \/ feeder = "recv" /\ Sort /\ main # "collect"
  \/ feeder = "send" /\ (ReadersGone \/ Len(feed) < ReadBound)
  \/ feeder = "join" /\ walker \in Ended

ReaderMay(r) ==
  \/ reader[r] = "recv" /\ (feed # <<>> \/ FeedClosed)
  \/ reader[r] = "send" /\ (WorkersGone \/ Len(raw) < ReadBound)

CpuMay(c) ==
  \/ cpu[c] = "recv" /\ (raw # <<>> \/ ReadersGone)
  \/ cpu[c] = "send" /\ Len(enc) < CpuBound

MainMay ==
  \/ main \in {"collect", "finish"}
  \/ main = "write" /\ ~Sort /\ enc # <<>>
  \/ main = "write" /\ Sort /\ NextIdx \in pending
  \/ main = "write" /\ NextIdx \notin pending /\ ((Sort /\ enc # <<>>) \/ (enc = <<>> /\ WorkersGone))
  \/ main = "joinFeeder" /\ FeedClosed
  \/ main = "joinReaders" /\ (joined = ReadJobs \/ reader[joined + 1] \in Ended)
  \/ main = "joinCpus" /\ (joined = CpuJobs \/ cpu[joined + 1] \in Ended)

StandsStill ==
  /\ exit = "running"
  /\ ~WalkerMay /\ ~FeederMay /\ ~MainMay
  /\ \A r \in Readers : ~ReaderMay(r)
  /\ \A c \in Workers : ~CpuMay(c)

(* The threads after the feeder then wait for it, or are gone.               *)
LEMMA WaitsForFeeder ==
  ASSUME IInv, StandsStill
  PROVE  /\ ~FeedClosed
         /\ \A r \in Readers : reader[r] \notin Ended => feed = <<>>
<1> USE DEF IInv
<1>1. /\ \A r \in Readers : reader[r] \in {"recv", "send"} \cup Ended
      /\ \A c \in Workers : cpu[c] \in {"recv", "send"} \cup Ended
      /\ main \in {"write", "joinFeeder", "joinReaders", "joinCpus"}
      /\ joined \in Nat
  BY DEF TypeOK, ReadTypes, CpuTypes, MainTypes, StandsStill, MainMay
<1>2. CASE main = "write"
  <2>1. NextIdx \notin pending
    <3>1. CASE Sort
      BY <1>2, <3>1 DEF StandsStill, MainMay
    <3>2. CASE ~Sort
      BY <3>2 DEF WalkAccount
    <3> QED BY <3>1, <3>2
  <2>2. enc = <<>> /\ ~WorkersGone
    BY <1>2, <2>1 DEF StandsStill, MainMay
  <2>3. PICK c \in Workers : cpu[c] \notin Ended
    BY <2>2 DEF WorkersGone
  <2>4. Len(enc) < CpuBound
    BY <2>2, PipelineAssumption
  <2>5. raw = <<>> /\ ~ReadersGone
    BY <1>1, <2>3, <2>4 DEF StandsStill, CpuMay
  <2>6. Len(raw) < ReadBound
    BY <2>5, PipelineAssumption
  <2>7. \A r \in Readers : reader[r] \notin Ended => feed = <<>> /\ ~FeedClosed
    BY <1>1, <2>6 DEF StandsStill, ReaderMay
  <2> QED BY <2>5, <2>7 DEF ReadersGone
<1>3. CASE main # "write"
  <2>1. WorkersGone
    BY <1>1, <1>3 DEF JoinedWell
  <2>2. \A r \in Readers : reader[r] \notin Ended => feed = <<>> /\ ~FeedClosed
    BY <1>1, <2>1 DEF StandsStill, ReaderMay
  <2>3. main # "joinReaders"
    <3>1. SUFFICES ASSUME main = "joinReaders" PROVE FALSE
      OBVIOUS
    <3>2. FeedClosed
      BY <3>1 DEF JoinedWell, FeedClosed
    <3>3. joined < ReadJobs
      BY <1>1, <3>1, PipelineAssumption DEF JoinedWell, StandsStill, MainMay
    <3>4. joined + 1 \in Readers
      BY <1>1, <3>3, PipelineAssumption DEF Readers
    <3> QED BY <2>2, <3>1, <3>2, <3>4 DEF StandsStill, MainMay
  <2>4. main # "joinCpus"
    <3>1. SUFFICES ASSUME main = "joinCpus" PROVE FALSE
      OBVIOUS
    <3>2. joined < CpuJobs
      BY <1>1, <3>1, PipelineAssumption DEF JoinedWell, StandsStill, MainMay
    <3>3. joined + 1 \in Workers
      BY <1>1, <3>2, PipelineAssumption DEF Workers
    <3> QED BY <2>1, <3>1, <3>3 DEF StandsStill, MainMay, WorkersGone
  <2> QED BY <1>1, <1>3, <2>2, <2>3, <2>4 DEF StandsStill, MainMay
<1> QED BY <1>2, <1>3

(* For any number of files and threads and any capacities, whatever fails: a *)
(* run in which no thread can go on is a streamed one whose bridge, its      *)
(* readers gone after a failure, joins a walker that waits for room in the   *)
(* channel the bridge no longer drains; it never comes to a stop elsewhere.  *)
THEOREM WaitsOnlyInBridgeJoin ==
  Spec => [](StandsStill => StuckInBridgeJoin /\ ~Sort /\ Trouble)
<1>1. IInv /\ DropsUnheard => (StandsStill => StuckInBridgeJoin /\ ~Sort /\ Trouble)
  <2>1. SUFFICES ASSUME IInv, DropsUnheard, StandsStill
                 PROVE  StuckInBridgeJoin /\ ~Sort /\ Trouble
    OBVIOUS
  <2> USE DEF IInv
  <2>2. ~FeedClosed /\ \A r \in Readers : reader[r] \notin Ended => feed = <<>>
    BY <2>1, WaitsForFeeder
  <2>3. /\ feeder \in {"recv", "send", "join"}
        /\ walker \in {"walking"} \cup Ended
        /\ Len(wchan) \in Nat /\ Len(wchan) <= WalkBound
    BY <2>1, <2>2 DEF TypeOK, WalkTypes, FeedTypes, FeedClosed, Ended
  <2>4. feeder # "send"
    <3>1. SUFFICES ASSUME feeder = "send" PROVE FALSE
      OBVIOUS
    <3>2. ~ReadersGone /\ ~(Len(feed) < ReadBound)
      BY <2>1, <3>1 DEF StandsStill, FeederMay
    <3>3. feed = <<>>
      BY <2>2, <3>2 DEF ReadersGone
    <3> QED BY <3>2, <3>3, PipelineAssumption
  <2>5. feeder # "recv"
    <3>1. SUFFICES ASSUME feeder = "recv" PROVE FALSE
      OBVIOUS
    <3>2. ~Sort
      BY <2>1, <3>1 DEF StandsStill, FeederMay, MainMay
    <3>3. wchan = <<>> /\ walker = "walking"
      BY <2>1, <2>3, <3>1, <3>2 DEF StandsStill, FeederMay
    <3> QED BY <2>1, <3>3, PipelineAssumption DEF StandsStill, WalkerMay
  <2>6. feeder = "join" /\ ~Sort
    BY <2>1, <2>3, <2>4, <2>5 DEF WalkAccount
  <2>7. walker = "walking"
    BY <2>1, <2>3, <2>6 DEF StandsStill, FeederMay
  <2>8. Len(wchan) = WalkBound
    BY <2>1, <2>3, <2>7, PipelineAssumption DEF StandsStill, WalkerMay
  <2>9. ReadersGone
    <3>1. feedItem # NoItem
      BY <2>1, <2>6, <2>7 DEF WalkAccount, Ended
    <3> QED BY <2>1, <2>6, <3>1 DEF DropsUnheard, ReadersGone, Broken, Ended
  <2>10. Trouble
    BY <2>1, <2>2, <2>9, GoneMeansTrouble
  <2> QED BY <2>6, <2>7, <2>8, <2>9, <2>10 DEF StuckInBridgeJoin
<1> QED BY <1>1, Drops, PTL

-----------------------------------------------------------------------------
(* The pipeline implements ArchiveJob.                                       *)

LEMMA InitRefines == Init => Job!Init
  BY DEF Init, Job!Init, ArchivedFiles, Range

(* Only a fault makes a thread panic.                                        *)
LEMMA NoPanicStep ==
  ASSUME TypeOK, NoPanic, "unwind" \notin Faults, [Next]_vars
  PROVE  NoPanic'
<1>1. \A r \in Readers : reader'[r] # "panicked"
  <2>1. reader \in [Readers -> {"recv", "send"} \cup Ended]
    BY DEF TypeOK, ReadTypes
  <2>2. \/ UNCHANGED reader
        \/ \E r \in Readers :
             \/ ReaderReads(r) \/ ReaderFails(r) \/ ReaderSends(r)
             \/ ReaderSendFails(r) \/ ReaderSeesFeedClosed(r)
    BY DEF Next, Step, WalkerStep, FeederStep, ReaderStep, CpuStep, MainStep, Fault,
       Returned, vars, readVars, ReaderPanics,
       CpuEncodes, CpuFails, CpuPanics,
       WalkerSends, WalkerEnds, WalkerFails, BridgeReceives,
       BridgeSeesWalkClosed, BridgeJoinsWalker, BatchTakesNext, FeederSends,
       FeederSendFails, CpuTakes, CpuSends, CpuSeesRawClosed,
       CollectAndSort, CollectFails,
       WriteArrival, HoldArrival, WriteNextInOrder, WriteFails,
       WriterSeesEncClosed, JoinFeeder, JoinReaders, JoinCpus, JoinNext,
       Finish, FinishFails
  <2> QED
    BY <2>1, <2>2 DEF NoPanic, ReaderReads, ReaderFails, ReaderTakes, ReaderSends,
       ReaderSendFails, ReaderSeesFeedClosed
<1>2. \A c \in Workers : cpu'[c] # "panicked"
  <2>1. cpu \in [Workers -> {"recv", "send"} \cup Ended]
    BY DEF TypeOK, CpuTypes
  <2>2. \/ UNCHANGED cpu
        \/ \E c \in Workers :
             CpuEncodes(c) \/ CpuFails(c) \/ CpuSends(c) \/ CpuSeesRawClosed(c)
    BY DEF Next, Step, WalkerStep, FeederStep, ReaderStep, CpuStep, MainStep, Fault,
       Returned, vars, cpuVars, CpuPanics,
       ReaderReads, ReaderFails, ReaderPanics,
       WalkerSends, WalkerEnds, WalkerFails, BridgeReceives,
       BridgeSeesWalkClosed, BridgeJoinsWalker, BatchTakesNext, FeederSends,
       FeederSendFails, ReaderTakes, ReaderSends, ReaderSendFails,
       ReaderSeesFeedClosed, CollectAndSort, CollectFails,
       WriteArrival, HoldArrival, WriteNextInOrder, WriteFails,
       WriterSeesEncClosed, JoinFeeder, JoinReaders, JoinCpus, JoinNext,
       Finish, FinishFails
  <2> QED
    BY <2>1, <2>2 DEF NoPanic, CpuEncodes, CpuFails, CpuTakes, CpuSends,
       CpuSeesRawClosed
<1> QED BY <1>1, <1>2 DEF NoPanic

(* Giving a file an index discovers it and leaves the archive as it was.     *)
LEMMA IndexingDiscovers ==
  ASSUME IInv, exit = "running", exit' = exit, archive' = archive,
         NEW f \in Files, found' = Append(found, f)
  PROVE  Job!Discover(f)
<1>1. Range(found') = Range(found) \cup {f}
  BY FoundFacts, AppendFacts
<1>2. \A i \in DOMAIN found : found'[i] = found[i]
  BY FoundFacts
<1>3. ArchivedFiles' = ArchivedFiles
  BY <1>2, FoundFacts DEF ArchivedFiles
<1> QED BY <1>1, <1>3 DEF Job!Discover

(* Appending an index to the archive writes its file.                        *)
LEMMA AppendingWrites ==
  ASSUME IInv, exit = "running", exit' = exit, found' = found,
         NEW x \in DOMAIN found, x \notin Range(archive),
         archive' = Append(archive, x),
         Sort => found[x] = Len(archive) + 1
  PROVE  Job!Write(found[x])
<1>1. /\ archive \in Seq(Nat) /\ found \in Seq(Files) /\ IsInjective(found)
      /\ \A i \in DOMAIN archive : archive[i] \in DOMAIN found
      /\ x \in Nat /\ Len(archive) \in Nat
  BY FoundFacts
<1>2. /\ DOMAIN archive = 1..Len(archive)
      /\ DOMAIN archive' = 1..(Len(archive) + 1)
      /\ \A i \in 1..Len(archive) : archive'[i] = archive[i]
      /\ archive'[Len(archive) + 1] = x
  BY <1>1
<1>3. ArchivedFiles \in Seq(Files) /\ Len(ArchivedFiles) = Len(archive)
      /\ \A i \in 1..Len(archive) : ArchivedFiles[i] = found[archive[i]]
  <2>1. ArchivedFiles = [i \in 1..Len(archive) |-> found[archive[i]]]
    BY <1>2 DEF ArchivedFiles
  <2>2. \A y \in DOMAIN found : found[y] \in Files
    BY <1>1
  <2>3. \A i \in 1..Len(archive) : found[archive[i]] \in Files
    BY <1>1, <1>2, <2>2
  <2> QED BY <1>1, <2>1, <2>3
<1>4. found[x] \in Range(found) /\ found[x] \in Files
  BY <1>1 DEF Range
<1>5. found[x] \notin Job!Written
  <2>1. SUFFICES ASSUME NEW i \in 1..Len(archive), found[x] = ArchivedFiles[i]
                 PROVE  FALSE
    BY <1>3 DEF Job!Written
  <2>2. archive[i] = x
    BY <1>1, <1>2, <1>3, <2>1 DEF IsInjective
  <2> QED BY <1>2, <2>2 DEF Range
<1>6. ArchivedFiles' = Append(ArchivedFiles, found[x])
  <2>1. ArchivedFiles' = [i \in 1..(Len(archive) + 1) |-> found[archive'[i]]]
    BY <1>2 DEF ArchivedFiles
  <2>2. Append(ArchivedFiles, found[x]) \in Seq(Files)
        /\ DOMAIN Append(ArchivedFiles, found[x]) = 1..(Len(archive) + 1)
        /\ \A i \in 1..Len(archive) :
             Append(ArchivedFiles, found[x])[i] = ArchivedFiles[i]
        /\ Append(ArchivedFiles, found[x])[Len(archive) + 1] = found[x]
    BY <1>1, <1>3, <1>4
  <2>3. \A i \in 1..(Len(archive) + 1) : i = Len(archive) + 1 \/ i \in 1..Len(archive)
    BY <1>1
  <2>4. \A i \in 1..(Len(archive) + 1) :
          found[archive'[i]] = Append(ArchivedFiles, found[x])[i]
    BY <1>2, <1>3, <2>2, <2>3
  <2>5. Append(ArchivedFiles, found[x])
          = [i \in 1..(Len(archive) + 1) |-> Append(ArchivedFiles, found[x])[i]]
    <3> DEFINE s == Append(ArchivedFiles, found[x])
    <3> HIDE DEF s
    <3>1. s \in Seq(Files) /\ DOMAIN s = 1..(Len(archive) + 1)
      BY <2>2 DEF s
    <3>2. s = [i \in 1..(Len(archive) + 1) |-> s[i]]
      BY <3>1
    <3> QED BY <3>2 DEF s
  <2> QED BY <2>1, <2>4, <2>5
<1> QED BY <1>3, <1>4, <1>5, <1>6 DEF Job!Write

LEMMA StepRefines ==
  ASSUME IInv, NoPanic, CpuJobs # 0, [Next]_vars
  PROVE  [Job!Next]_(Job!vars)
<1>1. CASE UNCHANGED <<found, archive, exit>>
  BY <1>1 DEF Job!vars, ArchivedFiles
<1>2. CASE BridgeReceives
  <2>1. Head(wchan) \in Files
    BY <1>2, TailFacts DEF BridgeReceives, IInv, TypeOK, WalkTypes
  <2>2. Job!Discover(Head(wchan))
    BY <1>2, <2>1, IndexingDiscovers DEF BridgeReceives, mainVars
  <2> QED BY <2>1, <2>2 DEF Job!Next, Job!Files, Files
<1>3. CASE BatchTakesNext
  <2>1. CASE Len(found) < NumFiles
    <3>1. Len(found) + 1 \in Files
      BY <2>1, FoundFacts, PipelineAssumption DEF Files
    <3>2. Job!Discover(Len(found) + 1)
      BY <1>3, <2>1, <3>1, IndexingDiscovers DEF BatchTakesNext, mainVars
    <3> QED BY <3>1, <3>2 DEF Job!Next, Job!Files, Files
  <2>2. CASE ~(Len(found) < NumFiles)
    BY <1>1, <1>3, <2>2 DEF BatchTakesNext, mainVars
  <2> QED BY <2>1, <2>2
<1>4. CASE WriteArrival
  <2> DEFINE x == Head(enc)
  <2>1. enc \in Seq(Nat) /\ enc # <<>>
    BY <1>4 DEF WriteArrival, IInv, TypeOK, CpuTypes
  <2>2. x \in Held["enc"]
    BY <2>1, TailFacts, HeldStages
  <2>3. x \in 1..Len(found) /\ x \notin Range(archive)
    BY <2>2, HeldStages, HeldFacts DEF IInv, EachIndexInOnePlace, Disjoint
  <2>4. x \in DOMAIN found /\ found[x] \in Files
    BY <2>3, FoundFacts
  <2>5. Job!Write(found[x])
    BY <1>4, <2>3, <2>4, AppendingWrites DEF WriteArrival, feedVars
  <2> QED BY <2>4, <2>5 DEF Job!Next, Job!Files, Files
<1>5. CASE WriteNextInOrder
  <2> DEFINE x == NextIdx
  <2>1. x \in Held["pending"]
    BY <1>5, HeldStages DEF WriteNextInOrder
  <2>2. x \in 1..Len(found) /\ x \notin Range(archive)
    BY <2>1, HeldStages, HeldFacts DEF IInv, EachIndexInOnePlace, Disjoint
  <2>3. x \in DOMAIN found /\ found[x] \in Files
    BY <2>2, FoundFacts
  <2>4. found[x] = Len(archive) + 1
    BY <1>5, <2>3 DEF WriteNextInOrder, IInv, WalkAccount, NextIdx
  <2>5. Job!Write(found[x])
    BY <1>5, <2>2, <2>3, <2>4, AppendingWrites DEF WriteNextInOrder, feedVars
  <2> QED BY <2>3, <2>5 DEF Job!Next, Job!Files, Files
<1>6. CASE exit = "running" /\ exit' = "error" /\ UNCHANGED <<found, archive>>
  BY <1>6 DEF Job!Next, Job!Fail, ArchivedFiles
<1>7. CASE Finish
  <2>1. ~Trouble
    BY <1>7 DEF Finish, IInv, JoinedWell, Trouble, Broken, NoPanic
  <2>2. Range(ArchivedFiles) = Files /\ Range(found) = Files
    BY <1>7, <2>1, CompleteAtFinish DEF Finish
  <2>3. Job!Written = Files
    <3>1. DOMAIN ArchivedFiles = 1..Len(archive) /\ Len(archive) \in Nat
      BY FoundFacts DEF ArchivedFiles
    <3>2. Len(ArchivedFiles) = Len(archive)
      BY <3>1 DEF ArchivedFiles
    <3> QED BY <2>2, <3>1, <3>2 DEF Job!Written, Range
  <2>4. ArchivedFiles' = ArchivedFiles /\ Range(found)' = Range(found)
    BY <1>7 DEF Finish, ArchivedFiles, feedVars
  <2> QED BY <1>7, <2>2, <2>3, <2>4
          DEF Finish, Job!Next, Job!Succeed, Job!Files, Files
<1>8. CASE MainMove
  BY <1>1, <1>4, <1>5, <1>6, <1>7, <1>8
     DEF MainMove, CollectAndSort, CollectFails, HoldArrival, WriteFails,
         WriterSeesEncClosed, JoinFeeder, JoinReaders, JoinCpus, JoinNext,
         FinishFails, feedVars
<1>9. CASE FeederStep
  BY <1>1, <1>2, <1>3, <1>9
     DEF FeederStep, BridgeSeesWalkClosed, BridgeJoinsWalker, FeederSends,
         FeederSendFails, mainVars
<1>10. CASE \/ \E f \in Files : WalkerSends(f)
            \/ WalkerEnds \/ WalkerFails
            \/ \E r \in Readers : ReaderMove(r)
            \/ \E c \in Workers : CpuMove(c)
            \/ UNCHANGED vars
  BY <1>1, <1>10
     DEF WalkerSends, WalkerEnds, WalkerFails, ReaderMove, ReaderTakes, ReaderSends,
         ReaderSendFails, ReaderSeesFeedClosed, CpuMove, CpuTakes, CpuSends,
         CpuSeesRawClosed, vars, feedVars, mainVars
<1> QED BY <1>8, <1>9, <1>10, Moves

(* With a worker, and in a build where a panic does not unwind, the threads  *)
(* and channels of `run` implement the abstract job: every step is a step of *)
(* ArchiveJob or leaves its variables alone.                                 *)
THEOREM Refinement ==
  ASSUME CpuJobs # 0, "unwind" \notin Faults
  PROVE  Spec => ImplementsArchiveJob
<1>1. Init => NoPanic
  BY DEF Init, NoPanic
<1>2. IInv /\ NoPanic /\ [Next]_vars => NoPanic'
  BY NoPanicStep DEF IInv
<1>3. Spec => []NoPanic
  BY <1>1, <1>2, InductiveInvariant, PTL DEF Spec
<1>4. IInv /\ NoPanic /\ [Next]_vars => [Job!Next]_(Job!vars)
  BY StepRefines
<1> QED BY <1>3, <1>4, InitRefines, InductiveInvariant, PTL
        DEF Spec, ImplementsArchiveJob, Job!Spec
=============================================================================
