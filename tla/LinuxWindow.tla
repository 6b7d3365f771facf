----------------------------- MODULE LinuxWindow -----------------------------
(* linux_raw.rs `bulk_read_all`, one window: the files are opened and asked  *)
(* for their place on the disk, sorted by it, and read in that order, either *)
(* one by one or, with --io-uring, by `read_batch` (IoUring), whose jobs are *)
(* the files that could be opened.  (The windows of a chunk, and the chunks, *)
(* are BulkPipeline's.)                                                      *)
(*                                                                           *)
(* Of IoUring's constants MaxJobs is the number of files in the window.      *)
EXTENDS IoUring, SequencesExt, Ordered

CONSTANT Gone   \* whether a file may have gone since the walk

ASSUME WindowAssumption == Gone \in BOOLEAN

Files == 1..MaxJobs
NoPlace == MaxJobs + 1   \* u64::MAX: no FIEMAP, no extent, or not opened

VARIABLES
  useRing,   \* --io-uring, and the kernel has it
  listed,    \* item.size of each file, from the walk
  now,       \* its length now; Missing if it is gone
  opened,    \* files opened by the probe
  order,     \* entries: files in disk order
  at,        \* entry the loop has come to
  jobs,      \* jobs and job_to_entry: [file, entry]
  sent,      \* sent to the raw channel: [index, of, n]
  stage      \* "probe", "collect", "batch", "blocking"; then "ok", "closed"
             \* (Ok, early), "error"

winVars == <<useRing, listed, now, opened, order, at, jobs, sent, stage>>
allVars == <<vars, winVars>>

Missing == -1

WindowInit ==
  /\ Init
  /\ useRing \in BOOLEAN
  /\ listed \in [Files -> Lens]
  /\ now \in [Files -> UNION {SizesNow(n) : n \in Lens} \cup (IF Gone THEN {Missing} ELSE {})]
  /\ \A f \in Files : now[f] \in SizesNow(listed[f]) \cup {Missing}
  /\ opened = {}
  /\ order = <<>>
  /\ at = 1
  /\ jobs = <<>>
  /\ sent = <<>>
  /\ stage = "probe"

-----------------------------------------------------------------------------
(* Defects for the pairs in PROJECT.json.                                    *)

(* A job's number is taken for its place in the window.                      *)
JobAsEntry(i) == i

(* A file that could not be opened is passed over.                           *)
UnopenedSkipped(then) ==
  /\ at' = at + 1
  /\ UNCHANGED <<sent, stage>>

-----------------------------------------------------------------------------
(* FIEMAP's first extent: none for a file without any, and the ioctl may     *)
(* fail.                                                                     *)
FirstOffset(f, o) ==
  {NoPlace} \cup (IF f \in o /\ now[f] > 0 THEN Files ELSE {})

(* entries.sort_by is stable: files at one place keep their order.           *)
Before(place) ==
  {p \in Files \X Files :
     place[p[1]] < place[p[2]] \/ (place[p[1]] = place[p[2]] /\ p[1] < p[2])}

(* Pass 1.  A file that is gone cannot be opened, one that is there may be   *)
(* refused (descriptors run out) and opened again later.                     *)
Probe ==
  /\ stage = "probe"
  /\ \E o \in SUBSET {f \in Files : now[f] # Missing}, place \in [Files -> Files \cup {NoPlace}] :
       /\ \A f \in Files : place[f] \in FirstOffset(f, o)
       /\ opened' = o
       /\ order' = InOrder(Files, Before(place))
  /\ stage' = IF useRing THEN "collect" ELSE "blocking"
  /\ UNCHANGED <<vars, useRing, listed, now, at, jobs, sent>>

Item(f, of, n) == [index |-> f, of |-> of, n |-> n]

(* raw_tx.send, or the channel is closed.                                    *)
Send(item, then) ==
  \/ sent' = Append(sent, item) /\ stage' = then
  \/ sent' = sent /\ stage' = "closed"

(* read_input and read_from_file read all there is, whatever was listed.     *)
ReadsWhole(f, then) ==
  /\ \/ now[f] # Missing /\ Send(Item(f, f, now[f]), then)
     \/ sent' = sent /\ stage' = "error"
  /\ at' = at + 1

-----------------------------------------------------------------------------
(* Pass 2a.                                                                  *)
FallBackToPath(then) == ReadsWhole(order[at], then)

CollectJob ==
  /\ stage = "collect"
  /\ at <= Len(order)
  /\ order[at] \in opened
  /\ jobs' = Append(jobs, [file |-> order[at], entry |-> at])
  /\ at' = at + 1
  /\ UNCHANGED <<vars, useRing, listed, now, opened, order, sent, stage>>

CollectUnopened ==
  /\ stage = "collect"
  /\ at <= Len(order)
  /\ order[at] \notin opened
  /\ FallBackToPath("collect")
  /\ UNCHANGED <<vars, useRing, listed, now, opened, order, jobs>>

StartBatch ==
  /\ stage = "collect"
  /\ at > Len(order)
  /\ Call([i \in DOMAIN jobs |-> listed[jobs[i].file]], [i \in DOMAIN jobs |-> now[jobs[i].file]])
  /\ stage' = "batch"
  /\ UNCHANGED <<useRing, listed, now, opened, order, at, jobs, sent>>

EntryOf(i) == jobs[i].entry

(* What the step hands to `emit` goes out under the entry of its job.        *)
EmitSends ==
  LET new == {i \in DOMAIN jobs : emitted'[i] # emitted[i]} IN
  sent' = sent \o SetToSeq({Item(order[EntryOf(i)], jobs[i].file, Last(emitted'[i])) : i \in new})

BatchStep ==
  /\ stage = "batch"
  /\ ReaderStep
  /\ EmitSends
  /\ UNCHANGED <<useRing, listed, now, opened, order, at, jobs, stage>>

BatchFails ==
  /\ stage = "batch"
  /\ WaitFails
  /\ UNCHANGED winVars

KernelWorks ==
  /\ \E e \in kernel : KernelReads(e)
  /\ UNCHANGED winVars

KernelHasError ==
  /\ \E e \in kernel : KernelFails(e)
  /\ UNCHANGED winVars

BatchReturns ==
  /\ stage = "batch"
  /\ Returned
  /\ stage' = CASE pc = "ok" -> "ok" [] pc = "refused" -> "closed" [] pc = "err" -> "error"
  /\ UNCHANGED <<vars, useRing, listed, now, opened, order, at, jobs, sent>>

-----------------------------------------------------------------------------
(* Pass 2b.                                                                  *)
BlockingReads ==
  /\ stage = "blocking"
  /\ at <= Len(order)
  /\ ReadsWhole(order[at], "blocking")
  /\ UNCHANGED <<vars, useRing, listed, now, opened, order, jobs>>

BlockingEnds ==
  /\ stage = "blocking"
  /\ at > Len(order)
  /\ stage' = "ok"
  /\ UNCHANGED <<vars, useRing, listed, now, opened, order, at, jobs, sent>>

-----------------------------------------------------------------------------
ThreadStep ==
  \/ Probe \/ CollectJob \/ CollectUnopened \/ StartBatch \/ BatchStep
  \/ BatchReturns \/ BlockingReads \/ BlockingEnds

WindowOver == stage \in {"ok", "closed", "error"} /\ kernel = {} /\ UNCHANGED allVars

WindowNext == ThreadStep \/ BatchFails \/ KernelWorks \/ KernelHasError \/ WindowOver

WindowSpec ==
  WindowInit /\ [][WindowNext]_allVars /\ WF_allVars(ThreadStep) /\ WF_allVars(KernelWorks)

-----------------------------------------------------------------------------
(* Properties.                                                               *)

(* "`index` is carried through untouched": through the sort, the split into  *)
(* opened and unopened and completions in any order, what goes out under a   *)
(* file's index are that file's bytes: all there is now, but with --io-uring *)
(* no more than the walk listed.                                             *)
IndexCarriesItsBytes ==
  \A k \in DOMAIN sent :
    LET m == sent[k] IN
      /\ m.of = m.index
      /\ m.n \in {now[m.index]}
                 \cup (IF useRing THEN {Smaller(listed[m.index], now[m.index])} ELSE {})

(* No file of the window goes out twice, and a window that is reported read  *)
(* has sent them all, also those that FIEMAP or the probe's open failed for. *)
WindowIsComplete ==
  /\ \A j, k \in DOMAIN sent : j # k => sent[j].index # sent[k].index
  /\ stage = "ok" => {sent[k].index : k \in DOMAIN sent} = Files

(* bulk_read_all comes to an end with the window.                            *)
WindowEnds == <>(stage \in {"ok", "closed", "error"})
=============================================================================
