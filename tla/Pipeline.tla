------------------------------ MODULE Pipeline ------------------------------
(* pipeline.rs `run` with a per-file source: walker -> bridge (or the        *)
(* --sort replay of a collected list) -> reader pool -> CPU pool -> writer,  *)
(* over bounded crossbeam channels, and the joins that decide the exit       *)
(* status.                                                                   *)
(*                                                                           *)
(* File f is the f-th input file in archive-name order, so the list --sort   *)
(* builds is <<1, ..., NumFiles>>.  A message is the walk index of its file  *)
(* (found[index], counted from 1 where the code counts from 0).              *)
(* The model starts once `run` has spawned the threads and dropped its own   *)
(* channel ends.  A send to a channel with no receiver and a receive from an *)
(* empty channel with no sender fail; any other send or receive that cannot  *)
(* proceed blocks, i.e. is not enabled.                                      *)
EXTENDS Naturals, Sequences, FiniteSets, Functions

CONSTANTS
  NumFiles,    \* files under the input paths, after --exclude
  Sort,        \* --sort: the batch feeder and the reordering writer
  ReadJobs,    \* reader threads (cli.rs refuses 0)
  CpuJobs,     \* CPU workers (cli.rs accepts 0)
  WalkBound,   \* capacity of the walk channel:        max(2 * ReadJobs, 64)
  ReadBound,   \* capacity of the feed and raw channels: max(2 * ReadJobs, 2)
  CpuBound,    \* capacity of the encoded channel:       max(2 * CpuJobs, 2)
  Faults       \* what may fail: "walk", "read", "encode", "write", and
               \* "unwind" for a panic in a build without panic = "abort"

FaultKinds == {"walk", "read", "encode", "write", "unwind"}

ASSUME PipelineAssumption ==
  /\ NumFiles \in Nat
  /\ Sort \in BOOLEAN
  /\ ReadJobs \in Nat \ {0}
  /\ CpuJobs \in Nat
  /\ WalkBound \in Nat \ {0}
  /\ ReadBound \in Nat \ {0}
  /\ CpuBound \in Nat \ {0}
  /\ Faults \subseteq FaultKinds

Files == 1..NumFiles
Readers == 1..ReadJobs
Workers == 1..CpuJobs

NoItem == 0                              \* a thread that holds no message
Ended == {"done", "failed", "panicked"}  \* the closure returned or unwound

VARIABLES
  walker,      \* walker thread: "walking", "done", "failed"
  walked,      \* files the walk has produced
  wchan,       \* walk channel, walker -> bridge
  feeder,      \* bridge or batch feeder: "recv", "send", "join", "done", "failed"
  found,       \* found[i] is the file that was given index i
  feedItem,    \* the index the feeder holds
  feed,        \* feed channel, feeder -> readers
  reader,      \* state of each reader thread
  readItem,    \* the index each reader holds
  raw,         \* raw channel, readers -> CPU workers
  cpu,         \* state of each CPU worker
  cpuItem,     \* the index each CPU worker holds
  enc,         \* encoded channel, CPU workers -> writer
  pending,     \* --sort: entries the writer holds back
  archive,     \* indices in the order they were written
  main,        \* main thread: "collect", "write", "joinFeeder",
               \* "joinReaders", "joinCpus", "finish"
  joined,      \* threads of the pool being joined that were joined
  exit         \* "running", or what `run` returned: "ok", "error"

walkVars == <<walker, walked, wchan>>
feedVars == <<feeder, found, feedItem, feed>>
readVars == <<reader, readItem, raw>>
cpuVars  == <<cpu, cpuItem, enc>>
mainVars == <<pending, archive, main, joined, exit>>
vars == <<walkVars, feedVars, readVars, cpuVars, mainVars>>

(* The order in which the writer takes entries under --sort: next_idx.       *)
NextIdx == Len(archive) + 1

(* Defect: the main thread forgets drop(feed_tx).                            *)
FeedTxLeaked == FALSE

(* Defect: the first worker to end takes its channel with it (a poisoned     *)
(* mutex).                                                                   *)
AnyWorkerGone == \E c \in Workers : cpu[c] \in Ended

FeedClosed == feeder \in {"done", "failed"}
ReadersGone == \A r \in Readers : reader[r] \in Ended
WorkersGone == \A c \in Workers : cpu[c] \in Ended

Init ==
  /\ walker = IF Sort THEN "done" ELSE "walking"
  /\ walked = {}
  /\ wchan = <<>>
  /\ feeder = "recv"
  /\ found = <<>>
  /\ feedItem = NoItem
  /\ feed = <<>>
  /\ reader = [r \in Readers |-> "recv"]
  /\ readItem = [r \in Readers |-> NoItem]
  /\ raw = <<>>
  /\ cpu = [c \in Workers |-> "recv"]
  /\ cpuItem = [c \in Workers |-> NoItem]
  /\ enc = <<>>
  /\ pending = {}
  /\ archive = <<>>
  /\ main = IF Sort THEN "collect" ELSE "write"
  /\ joined = 0
  /\ exit = "running"

-----------------------------------------------------------------------------
(* Actions with one defect each.  No specification uses them: PROJECT.json   *)
(* pairs each with the property that tells it from the action it stands for. *)

(* The item stays with the feeder after the send.                            *)
FeederSendsTwice ==
  /\ exit = "running"
  /\ feeder = "send"
  /\ ~ReadersGone
  /\ Len(feed) < ReadBound
  /\ feed' = Append(feed, feedItem)
  /\ feeder' = "recv"
  /\ UNCHANGED <<walkVars, found, feedItem, readVars, cpuVars, mainVars>>

(* The loop retries a failed send.                                           *)
FeederRetries ==
  /\ exit = "running"
  /\ feeder = "send"
  /\ ReadersGone
  /\ UNCHANGED vars

(* The bridge returns without joining the walker.                            *)
FeederReturnsEarly ==
  /\ exit = "running"
  /\ feeder = "send"
  /\ ReadersGone
  /\ feeder' = "done"
  /\ UNCHANGED <<walkVars, found, feedItem, feed, readVars, cpuVars, mainVars>>

(* Two readers are given the same item.                                      *)
ReaderPeeks(r, state) ==
  /\ exit = "running"
  /\ reader[r] = "recv"
  /\ feed # <<>>
  /\ readItem' = [readItem EXCEPT ![r] = Head(feed)]
  /\ reader' = [reader EXCEPT ![r] = state]
  /\ UNCHANGED <<walkVars, feedVars, raw, cpuVars, mainVars>>

(* A worker's buffer is sent a second time.                                  *)
CpuSendsAgain(c) ==
  /\ exit = "running"
  /\ cpu[c] = "send"
  /\ Len(enc) < CpuBound
  /\ enc' = Append(enc, cpuItem[c])
  /\ cpu' \in {cpu, [cpu EXCEPT ![c] = "recv"]}
  /\ cpuItem' = IF cpu' = cpu THEN cpuItem ELSE [cpuItem EXCEPT ![c] = NoItem]
  /\ UNCHANGED <<walkVars, feedVars, readVars, mainVars>>

(* The encoded channel is unbounded.                                         *)
CpuSendsUnbounded(c) ==
  /\ exit = "running"
  /\ cpu[c] = "send"
  /\ enc' = Append(enc, cpuItem[c])
  /\ cpu' = [cpu EXCEPT ![c] = "recv"]
  /\ cpuItem' = [cpuItem EXCEPT ![c] = NoItem]
  /\ UNCHANGED <<walkVars, feedVars, readVars, mainVars>>

(* --sort writes whichever pending entry comes to hand.                      *)
WriteAnyPending ==
  /\ exit = "running"
  /\ Sort
  /\ main = "write"
  /\ \E i \in pending : /\ pending' = pending \ {i}
                       /\ archive' = Append(archive, i)
  /\ UNCHANGED <<walkVars, feedVars, readVars, cpuVars, main, joined, exit>>

(* The writer takes an empty channel for a closed one (try_recv).            *)
WriterStopsAtEmpty ==
  /\ exit = "running"
  /\ main = "write"
  /\ NextIdx \notin pending
  /\ enc = <<>>
  /\ main' = "joinFeeder"
  /\ UNCHANGED <<walkVars, feedVars, readVars, cpuVars,
                 pending, archive, joined, exit>>

(* The join drops a thread's error along with its panic.                     *)
JoinIgnoresErrors(stage, size, state, next) ==
  /\ exit = "running"
  /\ main = stage
  /\ IF joined = size
       THEN main' = next /\ joined' = 0
       ELSE /\ state[joined + 1] \in Ended
            /\ main' = main
            /\ joined' = joined + 1
  /\ UNCHANGED <<walkVars, feedVars, readVars, cpuVars, pending, archive, exit>>

-----------------------------------------------------------------------------
(* The walk.  The walker's `tx.send(..).is_err()` return is unreachable: the *)
(* bridge keeps the receiver until it has joined the walker                  *)
(* (WalkReceiverOutlivesWalker).                                             *)

WalkerSends(f) ==
  /\ exit = "running"
  /\ walker = "walking"
  /\ f \in Files \ walked
  /\ Len(wchan) < WalkBound
  /\ walked' = walked \cup {f}
  /\ wchan' = Append(wchan, f)
  /\ UNCHANGED <<walker, feedVars, readVars, cpuVars, mainVars>>

WalkerEnds ==
  /\ exit = "running"
  /\ walker = "walking"
  /\ walked = Files
  /\ walker' = "done"
  /\ UNCHANGED <<walked, wchan, feedVars, readVars, cpuVars, mainVars>>

WalkerFails ==
  /\ exit = "running"
  /\ "walk" \in Faults
  /\ walker = "walking"
  /\ walker' = "failed"
  /\ UNCHANGED <<walked, wchan, feedVars, readVars, cpuVars, mainVars>>

(* --sort: the main thread walks and sorts before any other thread exists.   *)
CollectAndSort ==
  /\ exit = "running"
  /\ main = "collect"
  /\ walked' = Files
  /\ IF NumFiles = 0
       THEN exit' = "error" /\ main' = main   \* "no files to archive"
       ELSE exit' = exit    /\ main' = "write"
  /\ UNCHANGED <<walker, wchan, feedVars, readVars, cpuVars,
                 pending, archive, joined>>

CollectFails ==
  /\ exit = "running"
  /\ "walk" \in Faults
  /\ main = "collect"
  /\ exit' = "error"
  /\ UNCHANGED <<walkVars, feedVars, readVars, cpuVars,
                 pending, archive, main, joined>>

-----------------------------------------------------------------------------
(* The feeder gives the next item the next index (index_counter.fetch_add)   *)
(* and then sends it; found is the record of the indices given.              *)

BridgeReceives ==
  /\ exit = "running"
  /\ ~Sort
  /\ feeder = "recv"
  /\ wchan # <<>>
  /\ wchan' = Tail(wchan)
  /\ found' = Append(found, Head(wchan))
  /\ feedItem' = Len(found) + 1
  /\ feeder' = "send"
  /\ UNCHANGED <<walker, walked, feed, readVars, cpuVars, mainVars>>

BridgeSeesWalkClosed ==
  /\ exit = "running"
  /\ ~Sort
  /\ feeder = "recv"
  /\ wchan = <<>>
  /\ walker \in Ended
  /\ feeder' = "join"
  /\ UNCHANGED <<walkVars, found, feedItem, feed, readVars, cpuVars, mainVars>>

BatchTakesNext ==
  /\ exit = "running"
  /\ Sort
  /\ main # "collect"
  /\ feeder = "recv"
  /\ IF Len(found) < NumFiles
       THEN /\ found' = Append(found, Len(found) + 1)
            /\ feedItem' = Len(found) + 1
            /\ feeder' = "send"
       ELSE UNCHANGED <<found, feedItem>> /\ feeder' = "done"
  /\ UNCHANGED <<walkVars, feed, readVars, cpuVars, mainVars>>

FeederSends ==
  /\ exit = "running"
  /\ feeder = "send"
  /\ ~ReadersGone
  /\ Len(feed) < ReadBound
  /\ feed' = Append(feed, feedItem)
  /\ feedItem' = NoItem
  /\ feeder' = "recv"
  /\ UNCHANGED <<walkVars, found, readVars, cpuVars, mainVars>>

(* The send fails and drops the item, the loop breaks: a bridge goes on to join the walker,     *)
(* still holding the receiving end of the walk channel.                      *)
FeederSendFails ==
  /\ exit = "running"
  /\ feeder = "send"
  /\ ReadersGone
  /\ feeder' = IF Sort THEN "done" ELSE "join"
  /\ UNCHANGED <<walkVars, found, feedItem, feed, readVars, cpuVars, mainVars>>

BridgeJoinsWalker ==
  /\ exit = "running"
  /\ feeder = "join"
  /\ walker \in Ended
  /\ feeder' = walker
  /\ UNCHANGED <<walkVars, found, feedItem, feed, readVars, cpuVars, mainVars>>

-----------------------------------------------------------------------------
(* A reader: receive and source.read, then send.                             *)

ReaderTakes(r, state) ==
  /\ exit = "running"
  /\ reader[r] = "recv"
  /\ feed # <<>>
  /\ feed' = Tail(feed)
  /\ readItem' = [readItem EXCEPT ![r] = Head(feed)]
  /\ reader' = [reader EXCEPT ![r] = state]
  /\ UNCHANGED <<walkVars, feeder, found, feedItem, raw, cpuVars, mainVars>>

ReaderReads(r) == ReaderTakes(r, "send")
ReaderFails(r) == "read" \in Faults /\ ReaderTakes(r, "failed")
ReaderPanics(r) == "unwind" \in Faults /\ ReaderTakes(r, "panicked")

ReaderSends(r) ==
  /\ exit = "running"
  /\ reader[r] = "send"
  /\ ~WorkersGone
  /\ Len(raw) < ReadBound
  /\ raw' = Append(raw, readItem[r])
  /\ reader' = [reader EXCEPT ![r] = "recv"]
  /\ readItem' = [readItem EXCEPT ![r] = NoItem]
  /\ UNCHANGED <<walkVars, feedVars, cpuVars, mainVars>>

(* The break drops the item the reader holds.                                *)
ReaderSendFails(r) ==
  /\ exit = "running"
  /\ reader[r] = "send"
  /\ WorkersGone
  /\ reader' = [reader EXCEPT ![r] = "done"]
  /\ UNCHANGED <<walkVars, feedVars, readItem, raw, cpuVars, mainVars>>

ReaderSeesFeedClosed(r) ==
  /\ exit = "running"
  /\ reader[r] = "recv"
  /\ feed = <<>>
  /\ FeedClosed
  /\ reader' = [reader EXCEPT ![r] = "done"]
  /\ UNCHANGED <<walkVars, feedVars, readItem, raw, cpuVars, mainVars>>

-----------------------------------------------------------------------------
(* A CPU worker: receive and encode_one, then send.  The send cannot fail:   *)
(* the writer keeps enc_rx until `run` returns.                              *)

CpuTakes(c, state) ==
  /\ exit = "running"
  /\ cpu[c] = "recv"
  /\ raw # <<>>
  /\ raw' = Tail(raw)
  /\ cpuItem' = [cpuItem EXCEPT ![c] = Head(raw)]
  /\ cpu' = [cpu EXCEPT ![c] = state]
  /\ UNCHANGED <<walkVars, feedVars, reader, readItem, enc, mainVars>>

CpuEncodes(c) == CpuTakes(c, "send")
CpuFails(c) == "encode" \in Faults /\ CpuTakes(c, "failed")
CpuPanics(c) == "unwind" \in Faults /\ CpuTakes(c, "panicked")

CpuSends(c) ==
  /\ exit = "running"
  /\ cpu[c] = "send"
  /\ Len(enc) < CpuBound
  /\ enc' = Append(enc, cpuItem[c])
  /\ cpu' = [cpu EXCEPT ![c] = "recv"]
  /\ cpuItem' = [cpuItem EXCEPT ![c] = NoItem]
  /\ UNCHANGED <<walkVars, feedVars, readVars, mainVars>>

CpuSeesRawClosed(c) ==
  /\ exit = "running"
  /\ cpu[c] = "recv"
  /\ raw = <<>>
  /\ ReadersGone
  /\ cpu' = [cpu EXCEPT ![c] = "done"]
  /\ UNCHANGED <<walkVars, feedVars, readVars, cpuItem, enc, mainVars>>

-----------------------------------------------------------------------------
(* The writer loop on the main thread.  A write error returns from `run`.    *)

WriteArrival ==
  /\ exit = "running"
  /\ ~Sort
  /\ main = "write"
  /\ enc # <<>>
  /\ enc' = Tail(enc)
  /\ archive' = Append(archive, Head(enc))
  /\ UNCHANGED <<walkVars, feedVars, readVars, cpu, cpuItem,
                 pending, main, joined, exit>>

HoldArrival ==
  /\ exit = "running"
  /\ Sort
  /\ main = "write"
  /\ NextIdx \notin pending
  /\ enc # <<>>
  /\ enc' = Tail(enc)
  /\ pending' = pending \cup {Head(enc)}
  /\ UNCHANGED <<walkVars, feedVars, readVars, cpu, cpuItem,
                 archive, main, joined, exit>>

WriteNextInOrder ==
  /\ exit = "running"
  /\ Sort
  /\ main = "write"
  /\ NextIdx \in pending
  /\ pending' = pending \ {NextIdx}
  /\ archive' = Append(archive, NextIdx)
  /\ UNCHANGED <<walkVars, feedVars, readVars, cpuVars, main, joined, exit>>

WriteFails ==
  /\ exit = "running"
  /\ "write" \in Faults
  /\ main = "write"
  /\ IF Sort THEN NextIdx \in pending ELSE enc # <<>>
  /\ exit' = "error"
  /\ UNCHANGED <<walkVars, feedVars, readVars, cpuVars,
                 pending, archive, main, joined>>

WriterSeesEncClosed ==
  /\ exit = "running"
  /\ main = "write"
  /\ NextIdx \notin pending
  /\ enc = <<>>
  /\ WorkersGone
  /\ main' = "joinFeeder"
  /\ UNCHANGED <<walkVars, feedVars, readVars, cpuVars,
                 pending, archive, joined, exit>>

-----------------------------------------------------------------------------
(* The joins, in handle order.  `h.join().ok().transpose()?` passes over a   *)
(* reader or worker that panicked and returns the error of one that failed.  *)

JoinFeeder ==
  /\ exit = "running"
  /\ main = "joinFeeder"
  /\ FeedClosed
  /\ IF feeder = "failed"
       THEN exit' = "error" /\ main' = main
       ELSE exit' = exit /\ main' = "joinReaders"
  /\ UNCHANGED <<walkVars, feedVars, readVars, cpuVars,
                 pending, archive, joined>>

JoinNext(stage, size, state, next) ==
  /\ exit = "running"
  /\ main = stage
  /\ IF joined = size
       THEN main' = next /\ joined' = 0 /\ exit' = exit
       ELSE /\ state[joined + 1] \in Ended
            /\ main' = main
            /\ IF state[joined + 1] = "failed"
                 THEN exit' = "error" /\ joined' = joined
                 ELSE exit' = exit /\ joined' = joined + 1
  /\ UNCHANGED <<walkVars, feedVars, readVars, cpuVars, pending, archive>>

JoinReaders == JoinNext("joinReaders", ReadJobs, reader, "joinCpus")
JoinCpus == JoinNext("joinCpus", CpuJobs, cpu, "finish")

(* zw.finish, flush and the trim of the preallocated tail.                   *)
Finish ==
  /\ exit = "running"
  /\ main = "finish"
  /\ exit' = "ok"
  /\ UNCHANGED <<walkVars, feedVars, readVars, cpuVars,
                 pending, archive, main, joined>>

FinishFails ==
  /\ exit = "running"
  /\ "write" \in Faults
  /\ main = "finish"
  /\ exit' = "error"
  /\ UNCHANGED <<walkVars, feedVars, readVars, cpuVars,
                 pending, archive, main, joined>>

-----------------------------------------------------------------------------
WalkerStep == (\E f \in Files : WalkerSends(f)) \/ WalkerEnds

FeederStep ==
  \/ BridgeReceives \/ BridgeSeesWalkClosed \/ BridgeJoinsWalker
  \/ BatchTakesNext \/ FeederSends \/ FeederSendFails

ReaderStep(r) ==
  \/ ReaderReads(r) \/ ReaderSends(r)
  \/ ReaderSendFails(r) \/ ReaderSeesFeedClosed(r)

CpuStep(c) == CpuEncodes(c) \/ CpuSends(c) \/ CpuSeesRawClosed(c)

MainStep ==
  \/ CollectAndSort
  \/ WriteArrival \/ HoldArrival \/ WriteNextInOrder \/ WriterSeesEncClosed
  \/ JoinFeeder \/ JoinReaders \/ JoinCpus \/ Finish

Fault ==
  \/ WalkerFails \/ CollectFails \/ WriteFails \/ FinishFails
  \/ \E r \in Readers : ReaderFails(r) \/ ReaderPanics(r)
  \/ \E c \in Workers : CpuFails(c) \/ CpuPanics(c)

Step ==
  \/ WalkerStep
  \/ FeederStep
  \/ \E r \in Readers : ReaderStep(r)
  \/ \E c \in Workers : CpuStep(c)
  \/ MainStep
  \/ Fault

(* The process ends when `run` returns: no thread moves after that.          *)
Returned == exit # "running" /\ UNCHANGED vars

Next == Step \/ Returned

Spec == Init /\ [][Next]_vars

(* The operating system runs every thread that can run; nothing has to fail. *)
Fairness ==
  /\ WF_vars(WalkerStep)
  /\ WF_vars(FeederStep)
  /\ \A r \in Readers : WF_vars(ReaderStep(r))
  /\ \A c \in Workers : WF_vars(CpuStep(c))
  /\ WF_vars(MainStep)

FairSpec == Spec /\ Fairness

-----------------------------------------------------------------------------
(* Properties.                                                               *)

WalkTypes ==
  /\ walker \in {"walking", "done", "failed"}
  /\ walked \subseteq Files
  /\ wchan \in Seq(Files) /\ Len(wchan) <= WalkBound

FeedTypes ==
  /\ feeder \in {"recv", "send", "join", "done", "failed"}
  /\ found \in Seq(Files)
  /\ feedItem \in Nat
  /\ feed \in Seq(Nat) /\ Len(feed) <= ReadBound

ReadTypes ==
  /\ reader \in [Readers -> {"recv", "send"} \cup Ended]
  /\ readItem \in [Readers -> Nat]
  /\ raw \in Seq(Nat) /\ Len(raw) <= ReadBound

CpuTypes ==
  /\ cpu \in [Workers -> {"recv", "send"} \cup Ended]
  /\ cpuItem \in [Workers -> Nat]
  /\ enc \in Seq(Nat) /\ Len(enc) <= CpuBound

MainTypes ==
  /\ pending \in SUBSET Nat
  /\ archive \in Seq(Nat)
  /\ main \in {"collect", "write", "joinFeeder",
               "joinReaders", "joinCpus", "finish"}
  /\ joined \in Nat
  /\ exit \in {"running", "ok", "error"}

TypeOK == WalkTypes /\ FeedTypes /\ ReadTypes /\ CpuTypes /\ MainTypes

(* Where the indices are: the stage that holds each of them.                 *)
Held ==
  [feeder  |-> {feedItem} \ {NoItem},
   feed    |-> Range(feed),
   readers |-> Range(readItem) \ {NoItem},
   raw     |-> Range(raw),
   workers |-> Range(cpuItem) \ {NoItem},
   enc     |-> Range(enc),
   pending |-> pending,
   archive |-> Range(archive)]

HeldPartition ==
  LET held == Held IN
  /\ UNION Range(held) = 1..Len(found)
  /\ \A p, q \in DOMAIN held : p # q => held[p] \cap held[q] = {}

HeldOnce ==
  /\ \A s \in {feed, raw, enc, archive} : IsInjective(s)
  /\ \A r, t \in Readers :
       readItem[r] = readItem[t] /\ readItem[r] # NoItem => r = t
  /\ \A c, d \in Workers :
       cpuItem[c] = cpuItem[d] /\ cpuItem[c] # NoItem => c = d

(* Every index ever given out is in exactly one place, and there once: no    *)
(* interleaving of feeder, readers, workers and writer loses an entry        *)
(* without a thread to show for it or sends one twice.                       *)
EachIndexInOnePlace == HeldPartition /\ HeldOnce

(* The archive's entries as files.                                           *)
ArchivedFiles == [i \in DOMAIN archive |-> found[archive[i]]]

NoPanic ==
  /\ \A r \in Readers : reader[r] # "panicked"
  /\ \A c \in Workers : cpu[c] # "panicked"

(* `run` returns Ok only with every input file in the archive, once.  (A     *)
(* panic that unwinds is passed over by the joins; release builds abort.)    *)
OkMeansComplete ==
  exit = "ok" /\ NoPanic =>
    Range(ArchivedFiles) = Files /\ IsInjective(ArchivedFiles)

(* `run` never returns Ok over a thread that returned an error.              *)
OkMeansNoFailure ==
  exit = "ok" =>
    /\ walker # "failed"
    /\ \A r \in Readers : reader[r] # "failed"
    /\ \A c \in Workers : cpu[c] # "failed"

(* With --sort the archive is at every moment a prefix of the files in name  *)
(* order, whatever order the workers finish in.                              *)
SortedPrefix ==
  Sort => \A i \in DOMAIN archive : ArchivedFiles[i] = i

(* The index a thread had in hand when it panicked.                          *)
Dropped ==
  {readItem[r] : r \in {t \in Readers : reader[t] = "panicked"}}
    \cup {cpuItem[c] : c \in {d \in Workers : cpu[d] = "panicked"}}

Survived ==
  /\ \E r \in Readers : reader[r] = "done"
  /\ \E c \in Workers : cpu[c] = "done"

(* The joins make success of a panic.  As long as one reader and one worker  *)
(* live to see their channels closed, every file was given an index, what Ok *)
(* passes over is what the panicking threads had in hand, and with --sort    *)
(* also every file whose name comes after the first of those.  (With no      *)
(* survivor in a pool, or with -j 0, there is no telling what Ok leaves out.)*)
OkLosesOnlyDropped ==
  exit = "ok" /\ Survived =>
    /\ Range(found) = Files
    /\ Range(archive) = IF Sort THEN {i \in DOMAIN found : Dropped \cap 1..i = {}}
                               ELSE DOMAIN found \ Dropped

(* The receiver of the walk channel outlives the walker, so the walker's     *)
(* send never fails.                                                         *)
WalkReceiverOutlivesWalker == FeedClosed => walker \in Ended

(* A run returns, or ends up in the one place where it can hang: the bridge, *)
(* its readers all gone, waits for a walker that waits for room in the       *)
(* channel the bridge no longer drains.  No other end of a channel that is   *)
(* held too long keeps a thread waiting.                                     *)
StuckInBridgeJoin ==
  feeder = "join" /\ walker = "walking" /\ Len(wchan) = WalkBound /\ ReadersGone

HangsOnlyInBridgeJoin == <>(exit # "running") \/ <>[]StuckInBridgeJoin

(* Every run returns.                                                        *)
Terminates == <>(exit # "running")

(* A reader's or a worker's error becomes the exit status of the run.        *)
FailureIsReported ==
  /\ \A r \in Readers : reader[r] = "failed" ~> exit = "error"
  /\ \A c \in Workers : cpu[c] = "failed" ~> exit = "error"

(* The pipeline implements the promise of ArchiveJob: discovering a file is  *)
(* giving it an index, writing it is the writer's append.                    *)
Job == INSTANCE ArchiveJob WITH
         discovered <- Range(found),
         archive <- ArchivedFiles

ImplementsArchiveJob == Job!Spec
=============================================================================
