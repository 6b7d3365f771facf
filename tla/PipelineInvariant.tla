-------------------------- MODULE PipelineInvariant --------------------------
(* The inductive invariant behind Pipeline's safety properties: what each    *)
(* thread's state says about the channels and about the threads before and   *)
(* after it.  TLC checks it on small instances, PipelineProofs proves it.    *)
EXTENDS Pipeline

Broken == {"failed", "panicked"}

(* Why a stage may have dropped an index: a thread after it ended early.     *)
Trouble ==
  \/ \E r \in Readers : reader[r] \in Broken
  \/ \E c \in Workers : cpu[c] \in Broken
  \/ CpuJobs = 0

(* Which thread states go with which items in hand.                          *)
FeederHands ==
  /\ feeder = "recv" => feedItem = NoItem
  /\ feeder = "send" => feedItem = Len(found) /\ found # <<>>
  /\ feeder \notin {"send"} /\ feedItem # NoItem => Trouble

ReaderHands == \A r \in Readers :
  /\ reader[r] = "recv" => readItem[r] = NoItem
  /\ reader[r] = "send" => readItem[r] # NoItem
  /\ reader[r] = "done" /\ readItem[r] # NoItem => Trouble
  /\ reader[r] = "done" /\ readItem[r] = NoItem => FeedClosed /\ feed = <<>>

CpuHands == \A c \in Workers :
  /\ cpu[c] \in {"recv", "done"} => cpuItem[c] = NoItem
  /\ cpu[c] = "send" => cpuItem[c] # NoItem
  /\ cpu[c] = "done" => ReadersGone /\ raw = <<>>

(* What has been walked is what was indexed and what waits for the bridge.   *)
WalkAccount ==
  IF Sort
    THEN /\ walker = "done"
         /\ wchan = <<>>
         /\ Len(found) <= NumFiles
         /\ \A i \in DOMAIN found : found[i] = i
         /\ feeder \notin {"join", "failed"}
         /\ feeder = "done" /\ feedItem = NoItem => Len(found) = NumFiles
    ELSE /\ walked = Range(found) \cup Range(wchan)
         /\ Range(found) \cap Range(wchan) = {}
         /\ IsInjective(found)
         /\ IsInjective(wchan)
         /\ walker = "done" => walked = Files
         /\ FeedClosed => feeder = walker
         /\ feeder \in {"join", "done", "failed"} /\ feedItem = NoItem =>
              wchan = <<>> /\ walker \in Ended
         /\ pending = {}
         /\ main # "collect"

(* --sort writes the indices 1, 2, 3, ...                                    *)
ArchiveInOrder == Sort => \A i \in DOMAIN archive : archive[i] = i

(* What the main thread has joined has ended, and without an error.          *)
JoinedWell ==
  /\ main \notin {"collect", "write"} =>
       WorkersGone /\ enc = <<>> /\ NextIdx \notin pending
  /\ main \in {"joinReaders", "joinCpus", "finish"} => feeder = "done"
  /\ main = "joinReaders" =>
       \A r \in Readers : r <= joined => reader[r] \in {"done", "panicked"}
  /\ main \in {"joinCpus", "finish"} =>
       \A r \in Readers : reader[r] \in {"done", "panicked"}
  /\ main = "joinCpus" =>
       \A c \in Workers : c <= joined => cpu[c] \in {"done", "panicked"}
  /\ main = "finish" =>
       \A c \in Workers : cpu[c] \in {"done", "panicked"}
  /\ main \notin {"joinReaders", "joinCpus"} => joined = 0
  /\ main = "joinReaders" => joined <= ReadJobs
  /\ main = "joinCpus" => joined <= CpuJobs
  /\ exit = "ok" => main = "finish"

IInv ==
  /\ TypeOK
  /\ EachIndexInOnePlace
  /\ FeederHands
  /\ ReaderHands
  /\ CpuHands
  /\ WalkAccount
  /\ ArchiveInOrder
  /\ JoinedWell
=============================================================================
