---------------------------- MODULE BulkPipeline ----------------------------
(* pipeline.rs `run` with a source that reorders its reads: the splitter     *)
(* drains the feed and cuts it into contiguous chunks, each chunk reader     *)
(* reads a chunk through `bulk_read_all` (raw_apfs.rs, linux_raw.rs) window  *)
(* by window with a volume from the pool, and files leave a window in disk   *)
(* order, which is any order of indices.                                     *)
(*                                                                           *)
(* The CPU pool and the writer are Pipeline's subject; here one consumer, a  *)
(* single worker together with the writer loop, stands for both, since it is *)
(* the order and the loss of entries before the raw channel that the bulk    *)
(* path changes.  Indices count from 1.                                      *)
EXTENDS Naturals, Sequences, FiniteSets, Functions

CONSTANTS
  MaxFiles,    \* most files the feed brings
  ReadJobs,    \* reader threads, and chunks
  Pool,        \* pool_size: volumes the source tries to open
  Window,      \* files in a window: 512 in raw_apfs.rs, 256 in linux_raw.rs
  RawBound,    \* capacity of the raw channel
  Faults       \* "drop": a lookup fails and the file is left out;
               \* "io": a read of the device fails; "encode": a worker fails

ASSUME BulkAssumption ==
  /\ MaxFiles \in Nat
  /\ ReadJobs \in Nat \ {0}
  /\ Pool \in Nat \ {0}
  /\ Window \in Nat \ {0}
  /\ RawBound \in Nat \ {0}
  /\ Faults \subseteq {"drop", "io", "encode"}

Readers == 1..ReadJobs
Ended == {"done", "failed"}

VARIABLES
  sort,      \* opts.sort
  opened,    \* volumes open_impl could open ("only opened {} of {}")
  total,     \* items the splitter has drained; "feeding" ends with the feed
  splitter,  \* "drain", "cut", "done"
  cuts,      \* chunks cut so far
  chunks,    \* chunk channel (room for ReadJobs): sequences of indices
  reader,    \* per reader: "recv", "pool", "read", "send", "done", "failed"
  todo,      \* per reader: what is left of its chunk
  window,    \* per reader: files of its window not yet sent
  item,      \* per reader: the index it is sending
  pool,      \* volumes in the pool
  dropped,   \* indices left out of a window
  raw,       \* raw channel
  consumer,  \* CPU pool and writer loop: "recv", "done", "failed"
  pending, archive,
  main,      \* "write", "join"
  joined,    \* reader handles joined
  exit       \* "running", "ok", "error"

options == <<sort, opened>>
splitVars == <<total, splitter, cuts, chunks>>
readVars  == <<reader, todo, window, item, pool, dropped, raw>>
mainVars  == <<consumer, pending, archive, main, joined, exit>>
vars == <<options, splitVars, readVars, mainVars>>

Indices == 1..total
NextIdx == Len(archive) + 1
ReadersGone == \A r \in Readers : reader[r] \in Ended

Init ==
  /\ sort \in BOOLEAN
  /\ opened \in 1..Pool
  /\ total = 0
  /\ splitter = "drain"
  /\ cuts = 0
  /\ chunks = <<>>
  /\ reader = [r \in Readers |-> "recv"]
  /\ todo = [r \in Readers |-> <<>>]
  /\ window = [r \in Readers |-> {}]
  /\ item = [r \in Readers |-> 0]
  /\ pool = opened
  /\ dropped = {}
  /\ raw = <<>>
  /\ consumer = "recv"
  /\ pending = {}
  /\ archive = <<>>
  /\ main = "write"
  /\ joined = 0
  /\ exit = "running"

(* Defects, each with one change to the action it is paired with.            *)
PerRoundedDown == total \div ReadJobs

(* run keeps a chunk_tx of its own.                                          *)
ChunkTxKept(r) == FALSE

VolumeKept(r) ==
  /\ exit = "running"
  /\ reader[r] = "read"
  /\ window[r] = {} /\ todo[r] = <<>>
  /\ reader' = [reader EXCEPT ![r] = "recv"]
  /\ UNCHANGED <<options, splitVars, todo, window, item, pool, dropped, raw, mainVars>>

WindowReread(r, x) ==
  /\ exit = "running"
  /\ reader[r] = "read"
  /\ x \in window[r]
  /\ item' = [item EXCEPT ![r] = x]
  /\ reader' = [reader EXCEPT ![r] = "send"]
  /\ \E left \in {window[r], window[r] \ {x}} :
       window' = [window EXCEPT ![r] = left]
  /\ UNCHANGED <<options, splitVars, todo, pool, dropped, raw, mainVars>>

JoinIgnoresError ==
  /\ exit = "running"
  /\ main = "join"
  /\ joined < ReadJobs
  /\ reader[joined + 1] \in Ended
  /\ joined' = joined + 1
  /\ UNCHANGED <<options, splitVars, readVars, consumer, pending, archive, main, exit>>

-----------------------------------------------------------------------------
(* The splitter.  It alone receives from the feed, and receives until the    *)
(* feed closes, so the feeder's send never fails in this mode.               *)

SplitterReceives ==
  /\ exit = "running"
  /\ splitter = "drain"
  /\ total < MaxFiles
  /\ total' = total + 1
  /\ UNCHANGED <<options, splitter, cuts, chunks, readVars, mainVars>>

SplitterSeesFeedClosed ==
  /\ exit = "running"
  /\ splitter = "drain"
  /\ splitter' = "cut"
  /\ UNCHANGED <<options, total, cuts, chunks, readVars, mainVars>>

(* per = (total + n - 1) / n.                                                *)
Per == (total + ReadJobs - 1) \div ReadJobs

Chunk(i) ==
  LET end == IF (i + 1) * Per < total THEN (i + 1) * Per ELSE total
  IN  [k \in 1..(end - i * Per) |-> i * Per + k]

(* The send has room for every chunk; it fails when all readers have ended.  *)
SplitterSendsChunk ==
  /\ exit = "running"
  /\ splitter = "cut"
  /\ cuts < ReadJobs
  /\ cuts * Per < total
  /\ ~ReadersGone
  /\ chunks' = Append(chunks, Chunk(cuts))
  /\ cuts' = cuts + 1
  /\ UNCHANGED <<options, total, splitter, readVars, mainVars>>

SplitterEnds ==
  /\ exit = "running"
  /\ splitter = "cut"
  /\ cuts = ReadJobs \/ cuts * Per >= total \/ ReadersGone
  /\ splitter' = "done"
  /\ UNCHANGED <<options, total, cuts, chunks, readVars, mainVars>>

-----------------------------------------------------------------------------
(* A chunk reader.                                                           *)

ReaderTakesChunk(r) ==
  /\ exit = "running"
  /\ reader[r] = "recv"
  /\ chunks # <<>>
  /\ chunks' = Tail(chunks)
  /\ todo' = [todo EXCEPT ![r] = Head(chunks)]
  /\ reader' = [reader EXCEPT ![r] = "pool"]
  /\ UNCHANGED <<options, total, splitter, cuts, window, item, pool, dropped, raw,
                 mainVars>>

(* pool_recv.recv(): the source itself holds a sender, so it never fails.    *)
ReaderTakesVolume(r) ==
  /\ exit = "running"
  /\ reader[r] = "pool"
  /\ pool > 0
  /\ pool' = pool - 1
  /\ reader' = [reader EXCEPT ![r] = "read"]
  /\ UNCHANGED <<options, splitVars, todo, window, item, dropped, raw, mainVars>>

(* Phase 1 of a window leaves out the files whose oid or inode is not found. *)
ReaderOpensWindow(r) ==
  LET n == IF Len(todo[r]) < Window THEN Len(todo[r]) ELSE Window
      files == {todo[r][k] : k \in 1..n}
  IN  /\ exit = "running"
      /\ reader[r] = "read"
      /\ window[r] = {} /\ todo[r] # <<>>
      /\ \E lost \in SUBSET files :
           /\ lost # {} => "drop" \in Faults
           /\ dropped' = dropped \cup lost
           /\ window' = [window EXCEPT ![r] = files \ lost]
      /\ todo' = [todo EXCEPT ![r] = SubSeq(@, n + 1, Len(@))]
      /\ UNCHANGED <<options, splitVars, reader, item, pool, raw, mainVars>>

(* Files complete in the order of their last extents on the disk.            *)
ReaderReads(r, x) ==
  /\ exit = "running"
  /\ reader[r] = "read"
  /\ x \in window[r]
  /\ item' = [item EXCEPT ![r] = x]
  /\ window' = [window EXCEPT ![r] = @ \ {x}]
  /\ reader' = [reader EXCEPT ![r] = "send"]
  /\ UNCHANGED <<options, splitVars, todo, pool, dropped, raw, mainVars>>

(* The `?` on a failed read leaves bulk_read_all with the volume.            *)
ReaderFails(r) ==
  /\ exit = "running"
  /\ "io" \in Faults
  /\ reader[r] = "read"
  /\ window[r] # {}
  /\ reader' = [reader EXCEPT ![r] = "failed"]
  /\ UNCHANGED <<options, splitVars, todo, window, item, pool, dropped, raw, mainVars>>

ReaderSends(r) ==
  /\ exit = "running"
  /\ reader[r] = "send"
  /\ consumer = "recv"
  /\ Len(raw) < RawBound
  /\ raw' = Append(raw, item[r])
  /\ item' = [item EXCEPT ![r] = 0]
  /\ reader' = [reader EXCEPT ![r] = "read"]
  /\ UNCHANGED <<options, splitVars, todo, window, pool, dropped, mainVars>>

(* Ok(true): the volume goes back, the rest of the chunk is let go, and the  *)
(* thread asks for the next chunk.                                           *)
ReaderSendFails(r) ==
  /\ exit = "running"
  /\ reader[r] = "send"
  /\ consumer \in Ended
  /\ item' = [item EXCEPT ![r] = 0]
  /\ todo' = [todo EXCEPT ![r] = <<>>]
  /\ window' = [window EXCEPT ![r] = {}]
  /\ pool' = pool + 1
  /\ reader' = [reader EXCEPT ![r] = "recv"]
  /\ UNCHANGED <<options, splitVars, dropped, raw, mainVars>>

ReaderEndsChunk(r) ==
  /\ exit = "running"
  /\ reader[r] = "read"
  /\ window[r] = {} /\ todo[r] = <<>>
  /\ pool' = pool + 1
  /\ reader' = [reader EXCEPT ![r] = "recv"]
  /\ UNCHANGED <<options, splitVars, todo, window, item, dropped, raw, mainVars>>

ReaderSeesChunksClosed(r) ==
  /\ exit = "running"
  /\ reader[r] = "recv"
  /\ chunks = <<>>
  /\ splitter = "done"
  /\ reader' = [reader EXCEPT ![r] = "done"]
  /\ UNCHANGED <<options, splitVars, todo, window, item, pool, dropped, raw, mainVars>>

-----------------------------------------------------------------------------
(* The CPU pool and the writer loop.                                         *)

WriteArrival ==
  /\ exit = "running"
  /\ ~sort
  /\ consumer = "recv"
  /\ raw # <<>>
  /\ raw' = Tail(raw)
  /\ archive' = Append(archive, Head(raw))
  /\ UNCHANGED <<options, splitVars, reader, todo, window, item, pool, dropped,
                 consumer, pending, main, joined, exit>>

HoldArrival ==
  /\ exit = "running"
  /\ sort
  /\ consumer = "recv"
  /\ NextIdx \notin pending
  /\ raw # <<>>
  /\ raw' = Tail(raw)
  /\ pending' = pending \cup {Head(raw)}
  /\ UNCHANGED <<options, splitVars, reader, todo, window, item, pool, dropped,
                 consumer, archive, main, joined, exit>>

WriteNextInOrder ==
  /\ exit = "running"
  /\ sort
  /\ main = "write"
  /\ NextIdx \in pending
  /\ pending' = pending \ {NextIdx}
  /\ archive' = Append(archive, NextIdx)
  /\ UNCHANGED <<options, splitVars, readVars, consumer, main, joined, exit>>

EncodeFails ==
  /\ exit = "running"
  /\ "encode" \in Faults
  /\ consumer = "recv"
  /\ raw # <<>>
  /\ raw' = Tail(raw)
  /\ consumer' = "failed"
  /\ UNCHANGED <<options, splitVars, reader, todo, window, item, pool, dropped,
                 pending, archive, main, joined, exit>>

ConsumerSeesRawClosed ==
  /\ exit = "running"
  /\ consumer = "recv"
  /\ raw = <<>>
  /\ ReadersGone
  /\ consumer' = "done"
  /\ UNCHANGED <<options, splitVars, readVars, pending, archive, main, joined, exit>>

(* What is still held back then is let go with the map.                      *)
WriterLoopEnds ==
  /\ exit = "running"
  /\ main = "write"
  /\ consumer \in Ended
  /\ NextIdx \notin pending
  /\ main' = "join"
  /\ UNCHANGED <<options, splitVars, readVars, consumer, pending, archive, joined, exit>>

(* The readers in handle order, behind the splitter.                         *)
JoinReader ==
  /\ exit = "running"
  /\ main = "join"
  /\ splitter = "done"
  /\ joined < ReadJobs
  /\ reader[joined + 1] \in Ended
  /\ IF reader[joined + 1] = "failed"
       THEN exit' = "error" /\ joined' = joined
       ELSE exit' = exit /\ joined' = joined + 1
  /\ UNCHANGED <<options, splitVars, readVars, consumer, pending, archive, main>>

JoinConsumerAndFinish ==
  /\ exit = "running"
  /\ main = "join"
  /\ joined = ReadJobs
  /\ exit' = IF consumer = "failed" THEN "error" ELSE "ok"
  /\ UNCHANGED <<options, splitVars, readVars, consumer, pending, archive, main, joined>>

-----------------------------------------------------------------------------
SplitterStep ==
  SplitterReceives \/ SplitterSeesFeedClosed \/ SplitterSendsChunk \/ SplitterEnds

ReaderStep(r) ==
  \/ ReaderTakesChunk(r) \/ ReaderTakesVolume(r) \/ ReaderOpensWindow(r)
  \/ \E x \in window[r] : ReaderReads(r, x)
  \/ ReaderSends(r) \/ ReaderSendFails(r)
  \/ ReaderEndsChunk(r) \/ ReaderSeesChunksClosed(r)

ConsumerStep ==
  \/ WriteArrival \/ HoldArrival \/ WriteNextInOrder \/ ConsumerSeesRawClosed
  \/ WriterLoopEnds \/ JoinReader \/ JoinConsumerAndFinish

Fault == EncodeFails \/ \E r \in Readers : ReaderFails(r)

Step ==
  \/ SplitterStep
  \/ \E r \in Readers : ReaderStep(r)
  \/ ConsumerStep
  \/ Fault

Returned == exit # "running" /\ UNCHANGED vars

Next == Step \/ Returned

Fairness ==
  /\ WF_vars(SplitterStep)
  /\ \A r \in Readers : WF_vars(ReaderStep(r))
  /\ WF_vars(ConsumerStep)

Spec == Init /\ [][Next]_vars /\ Fairness

-----------------------------------------------------------------------------
(* Properties.                                                               *)

(* An index is on its way, left out or archived once: the chunks are         *)
(* disjoint, windows do not overlap, and no file is sent twice.              *)
OnlyOnce ==
  LET places ==
        <<UNION {Range(chunks[k]) : k \in DOMAIN chunks}, dropped, Range(raw),
          pending, Range(archive)>>
        \o [r \in Readers |-> Range(todo[r]) \cup window[r] \cup ({item[r]} \ {0})]
  IN  /\ \A p, q \in DOMAIN places : p # q => places[p] \cap places[q] = {}
      /\ IsInjective(raw) /\ IsInjective(archive)
      /\ UNION Range(places) \subseteq Indices

(* A volume is in the pool, with a reader, or was lost to a failed read.     *)
VolumesAccounted ==
  pool + Cardinality({r \in Readers : reader[r] \in {"read", "send", "failed"}})
    = opened

(* What Ok means in bulk mode: without --sort all files but those a lookup   *)
(* failed for; with --sort only those before the first of them.              *)
OkMeansUpToGaps ==
  exit = "ok" =>
    Range(archive) =
      {i \in Indices : IF sort THEN \A j \in 1..i : j \notin dropped
                               ELSE i \notin dropped}

(* What the run would owe its user: a file that cannot be found costs its    *)
(* own entry and no other.                                                   *)
GapCostsOneEntry == exit = "ok" => Range(archive) = Indices \ dropped

(* Every run returns.                                                        *)
Terminates == <>(exit # "running")

(* With a volume for every reader it does.                                   *)
TerminatesWithEnoughVolumes == opened >= ReadJobs => Terminates

(* A reader's error then is the run's.                                       *)
ReadErrorIsReported ==
  opened >= ReadJobs =>
    \A r \in Readers : reader[r] = "failed" ~> exit = "error"

(* A run that stands still waits for volumes that failed readers took along. *)
VolumesAreGone ==
  /\ pool = 0
  /\ \E r \in Readers : reader[r] = "pool"
  /\ Cardinality({r \in Readers : reader[r] = "failed"}) = opened
HangsOnlyForVolumes == exit = "running" /\ ~ENABLED Step => VolumesAreGone
=============================================================================
