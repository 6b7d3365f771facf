------------------------------- MODULE IoUring -------------------------------
(* io_uring_src.rs `read_batch`: one thread keeps up to QUEUE_DEPTH reads    *)
(* outstanding, reaps completions in whatever order they land, continues     *)
(* short reads from where they stopped and hands each finished file to       *)
(* `emit`, which may refuse it when the raw channel is closed.  LinuxWindow  *)
(* is its caller.                                                            *)
(* The kernel's half of the ring is modelled from how this code uses it.     *)
EXTENDS Integers, Sequences, FiniteSets, Functions

CONSTANTS
  MaxJobs,   \* most jobs of a batch
  Lens,      \* lengths files were listed with, in blocks
  Sizes,     \* lengths they may have when they are read, if they changed
  MaxRead,   \* most blocks one entry may ask for (the code's u32 limit)
  Depth,     \* QUEUE_DEPTH
  Faults     \* "resize": a file is shorter or longer than it was listed;
             \* "read": the kernel fails a read; "enter": submit_and_wait
             \* fails; "refuse": emit returns false

ASSUME IoUringAssumption ==
  /\ MaxJobs \in Nat
  /\ Lens \subseteq Nat /\ Sizes \subseteq Nat
  /\ MaxRead \in Nat \ {0}
  /\ Depth \in Nat \ {0}
  /\ Faults \subseteq {"resize", "read", "enter", "refuse"}

Smaller(a, b) == IF a < b THEN a ELSE b

VARIABLES
  len,          \* jobs: len[i] is the length job i was listed with
  size,         \* size[i]: the file's length now
  filled,       \* states[i].filled
  buffer,       \* states[i].buf: "none", "held", "taken"
  next,         \* next job to submit
  inflight, done,
  sq,           \* submission queue: [job, off, n]
  kernel,       \* reads the kernel is carrying out
  cq,           \* completion queue: [job, res], res < 0 for an error
  completions,  \* the local buffer the completions are drained into
  resubmit,     \* jobs to continue
  emitted,      \* emitted[i]: lengths handed to emit
  pc            \* "idle" until called; "topup", "wait", "drain"; then "ok",
                \* "refused" (which also returns Ok) or "err"

files == <<len, size>>
ring == <<sq, kernel, cq>>
vars == <<files, filled, buffer, next, inflight, done, ring, completions,
          resubmit, emitted, pc>>

Jobs == DOMAIN len
Returned == pc \in {"ok", "refused", "err"}
Running == pc \in {"topup", "wait", "drain"}

Init ==
  /\ len = <<>> /\ size = <<>>
  /\ filled = <<>> /\ buffer = <<>>
  /\ next = 1 /\ inflight = 0 /\ done = 0
  /\ sq = <<>> /\ kernel = {} /\ cq = <<>>
  /\ completions = <<>> /\ resubmit = <<>>
  /\ emitted = <<>>
  /\ pc = "idle"

(* The call, for files that were listed as `lens` long and are `sizes` long. *)
(* The ring may not be had.                                                  *)
Call(lens, sizes) ==
  /\ pc = "idle"
  /\ len' = lens /\ size' = sizes
  /\ filled' = [i \in DOMAIN lens |-> 0]
  /\ buffer' = [i \in DOMAIN lens |-> "none"]
  /\ emitted' = [i \in DOMAIN lens |-> <<>>]
  /\ pc' \in IF lens = <<>> THEN {"ok"}
              ELSE {"topup"} \cup (IF "enter" \in Faults THEN {"err"} ELSE {})
  /\ UNCHANGED <<next, inflight, done, ring, completions, resubmit>>

(* What has become of a file that was n blocks long.                         *)
SizesNow(n) == IF "resize" \in Faults THEN Sizes ELSE {n}

(* A defect of Sqe: the continuation starts over.                            *)
SqeFromStart(i, off) ==
  [job |-> i, off |-> 0, n |-> Smaller(len[i] - off, MaxRead)]

(* make_sqe, for a job that has `off` blocks.                                *)
Sqe(i, off) == [job |-> i, off |-> off, n |-> Smaller(len[i] - off, MaxRead)]

(* `emit` took the buffer of job i, n blocks long, or returned false.        *)
Accepts(i, n) == emitted' = [emitted EXCEPT ![i] = Append(@, n)]
Refuses == "refuse" \in Faults /\ emitted' = emitted

-----------------------------------------------------------------------------
(* Defects for the pairs in PROJECT.json.                                    *)

(* A job that ends early stays counted.                                      *)
EofStillCounted ==
  /\ pc = "drain"
  /\ completions # <<>>
  /\ LET i == Head(completions).job IN
       /\ Head(completions).res = 0
       /\ Accepts(i, filled[i])
       /\ buffer' = [buffer EXCEPT ![i] = "taken"]
       /\ pc' = pc
  /\ done' = done + 1
  /\ completions' = Tail(completions)
  /\ UNCHANGED <<files, filled, next, inflight, ring, resubmit>>

(* The continuations are forgotten.                                          *)
DrainEndsWithoutResubmit ==
  /\ pc = "drain"
  /\ completions = <<>>
  /\ resubmit' = <<>>
  /\ pc' = IF done < Len(len) THEN "topup" ELSE "ok"
  /\ UNCHANGED <<files, filled, buffer, next, inflight, done, ring, completions, emitted>>

-----------------------------------------------------------------------------
(* A continuation is taken for a finished file.                              *)
FullAtAnyLength ==
  LET c == Head(completions) IN
  /\ pc = "drain"
  /\ completions # <<>>
  /\ c.res > 0
  /\ emitted' = [emitted EXCEPT ![c.job] = Append(@, filled[c.job] + c.res)]
  /\ filled' = [filled EXCEPT ![c.job] = @ + c.res]
  /\ buffer' = [buffer EXCEPT ![c.job] = "taken"]
  /\ inflight' = inflight - 1
  /\ done' = done + 1
  /\ completions' = Tail(completions)
  /\ UNCHANGED <<files, next, ring, resubmit, pc>>

-----------------------------------------------------------------------------
(* Topping up the submission queue.                                          *)

TopUpEmptyFile ==
  /\ pc = "topup"
  /\ inflight < Depth
  /\ next <= Len(len)
  /\ len[next] = 0
  /\ \/ /\ Accepts(next, 0)
        /\ done' = done + 1
        /\ next' = next + 1
        /\ pc' = pc
     \/ /\ Refuses
        /\ pc' = "refused"
        /\ UNCHANGED <<done, next>>
  /\ UNCHANGED <<files, filled, buffer, inflight, ring, completions, resubmit>>

TopUpRead ==
  /\ pc = "topup"
  /\ inflight < Depth
  /\ next <= Len(len)
  /\ len[next] # 0
  /\ sq' = Append(sq, Sqe(next, 0))
  /\ buffer' = [buffer EXCEPT ![next] = "held"]
  /\ inflight' = inflight + 1
  /\ next' = next + 1
  /\ UNCHANGED <<files, filled, done, kernel, cq, completions, resubmit, emitted, pc>>

NothingOutstanding ==
  /\ pc = "topup"
  /\ next > Len(len)
  /\ inflight = 0
  /\ pc' = "ok"
  /\ UNCHANGED <<files, filled, buffer, next, inflight, done, ring, completions,
                 resubmit, emitted>>

(* submit_and_wait(1) gives the queue to the kernel.                         *)
SubmitAndWait ==
  /\ pc = "topup"
  /\ inflight = Depth \/ next > Len(len)
  /\ inflight > 0
  /\ kernel' = kernel \cup Range(sq)
  /\ sq' = <<>>
  /\ pc' = "wait"
  /\ UNCHANGED <<files, filled, buffer, next, inflight, done, cq, completions,
                 resubmit, emitted>>

WaitFails ==
  /\ "enter" \in Faults
  /\ pc = "wait"
  /\ pc' = "err"
  /\ UNCHANGED <<files, filled, buffer, next, inflight, done, ring, completions,
                 resubmit, emitted>>

ReapCompletions ==
  /\ pc = "wait"
  /\ cq # <<>>
  /\ completions' = cq
  /\ cq' = <<>>
  /\ pc' = "drain"
  /\ UNCHANGED <<files, filled, buffer, next, inflight, done, sq, kernel,
                 resubmit, emitted>>

-----------------------------------------------------------------------------
(* Handling the completions one after another.                               *)

CompletionError ==
  /\ pc = "drain"
  /\ completions # <<>>
  /\ Head(completions).res < 0
  /\ pc' = "err"
  /\ UNCHANGED <<files, filled, buffer, next, inflight, done, ring, completions,
                 resubmit, emitted>>

(* The file is finished with n blocks.                                       *)
Finish(i, n) ==
  /\ filled' = [filled EXCEPT ![i] = n]
  /\ buffer' = [buffer EXCEPT ![i] = "taken"]
  /\ inflight' = inflight - 1
  /\ done' = done + 1
  /\ \/ Accepts(i, n) /\ pc' = pc
     \/ Refuses /\ pc' = "refused"

CompletionEof ==
  /\ pc = "drain"
  /\ completions # <<>>
  /\ Head(completions).res = 0
  /\ Finish(Head(completions).job, filled[Head(completions).job])
  /\ completions' = Tail(completions)
  /\ UNCHANGED <<files, next, ring, resubmit>>

CompletionFull ==
  LET c == Head(completions) IN
  /\ pc = "drain"
  /\ completions # <<>>
  /\ c.res > 0
  /\ filled[c.job] + c.res >= len[c.job]
  /\ Finish(c.job, filled[c.job] + c.res)
  /\ completions' = Tail(completions)
  /\ UNCHANGED <<files, next, ring, resubmit>>

CompletionShort ==
  LET c == Head(completions) IN
  /\ pc = "drain"
  /\ completions # <<>>
  /\ c.res > 0
  /\ filled[c.job] + c.res < len[c.job]
  /\ filled' = [filled EXCEPT ![c.job] = @ + c.res]
  /\ resubmit' = Append(resubmit, c.job)
  /\ completions' = Tail(completions)
  /\ UNCHANGED <<files, buffer, next, inflight, done, ring, emitted, pc>>

(* The continuations, and the test of `while done < n`.  A push that finds   *)
(* the queue full would be an error; CountersAgree says there is none.       *)
DrainEnds ==
  /\ pc = "drain"
  /\ completions = <<>>
  /\ sq' = sq \o [k \in DOMAIN resubmit |-> Sqe(resubmit[k], filled[resubmit[k]])]
  /\ resubmit' = <<>>
  /\ pc' = IF done < Len(len) THEN "topup" ELSE "ok"
  /\ UNCHANGED <<files, filled, buffer, next, inflight, done, kernel, cq,
                 completions, emitted>>

-----------------------------------------------------------------------------
(* The kernel: a read returns some of what was asked for, nothing only at    *)
(* the end of the file.  It goes on after read_batch has returned.           *)

KernelReads(e) ==
  /\ e \in kernel
  /\ kernel' = kernel \ {e}
  /\ \E k \in 0..e.n :
       /\ k <= size[e.job] - e.off \/ k = 0
       /\ k = 0 => size[e.job] <= e.off
       /\ cq' = Append(cq, [job |-> e.job, res |-> k])
  /\ UNCHANGED <<files, filled, buffer, next, inflight, done, sq, completions,
                 resubmit, emitted, pc>>

KernelFails(e) ==
  /\ "read" \in Faults
  /\ e \in kernel
  /\ kernel' = kernel \ {e}
  /\ cq' = Append(cq, [job |-> e.job, res |-> -1])
  /\ UNCHANGED <<files, filled, buffer, next, inflight, done, sq, completions,
                 resubmit, emitted, pc>>

ReaderStep ==
  \/ TopUpEmptyFile \/ TopUpRead \/ NothingOutstanding \/ SubmitAndWait
  \/ ReapCompletions \/ CompletionError \/ CompletionEof \/ CompletionFull
  \/ CompletionShort \/ DrainEnds

KernelStep == \E e \in kernel : KernelReads(e)

Fault == WaitFails \/ \E e \in kernel : KernelFails(e)

Stopped == Returned /\ kernel = {} /\ UNCHANGED vars

CallOnce ==
  \E n \in 0..MaxJobs : \E lens \in [1..n -> Lens] :
    \E sizes \in [1..n -> UNION {SizesNow(l) : l \in Lens}] :
      /\ \A i \in 1..n : sizes[i] \in SizesNow(lens[i])
      /\ Call(lens, sizes)

Next == CallOnce \/ ReaderStep \/ KernelStep \/ Fault \/ Stopped

Spec == Init /\ [][Next]_vars /\ WF_vars(ReaderStep) /\ WF_vars(KernelStep)

-----------------------------------------------------------------------------
(* Properties.                                                               *)

(* The places in which a read of job i may be under way.                     *)
Underway(i) ==
  Cardinality({k \in DOMAIN sq : sq[k].job = i})
  + Cardinality({e \in kernel : e.job = i})
  + Cardinality({k \in DOMAIN cq : cq[k].job = i})
  + Cardinality({k \in DOMAIN completions : completions[k].job = i})
  + Cardinality({k \in DOMAIN resubmit : resubmit[k] = i})

(* The two counters that end the loop say what is the case: each job is      *)
(* untouched, finished, or under way in exactly one place.  So the queue of  *)
(* Depth entries has room for every push, of new reads and continuations:    *)
(* the branches for a full queue are dead code.                              *)
CountersAgree ==
  Running =>
    /\ inflight = Cardinality({i \in Jobs : Underway(i) = 1})
    /\ done = Cardinality({i \in Jobs : i < next /\ Underway(i) = 0})
    /\ \A i \in Jobs : Underway(i) <= 1 /\ (i >= next => Underway(i) = 0)
    /\ Len(sq) <= Depth

(* Every read goes to the unfilled part of its buffer.                       *)
ReadsStayInBuffer ==
  Running => \A e \in kernel \cup Range(sq) :
    /\ buffer[e.job] = "held"
    /\ e.off = filled[e.job]
    /\ e.n > 0 /\ e.off + e.n <= len[e.job]

(* If the caller refused nothing, Ok comes only after every file was handed  *)
(* over once, with as much of it as was listed and still is there.           *)
OkMeansAllEmitted ==
  pc = "ok" => \A i \in Jobs : emitted[i] = <<Smaller(len[i], size[i])>>

(* The SAFETY comment of make_sqe: the buffer lives until the job completes. *)
BufferLivesUntilCompletion == Returned => kernel = {}
=============================================================================
