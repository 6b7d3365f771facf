-------------------------- MODULE LinuxWindowProofs --------------------------
(* The extent-order reader, in two parts.                                    *)
(*                                                                           *)
(* read_batch (IoUring), for any files, any ring and any answers of the      *)
(* kernel: its counters say what is under way, its reads stay inside their   *)
(* buffers, and Ok means that every file was handed over once.               *)
(*                                                                           *)
(* The window (LinuxWindow), of any number of files, wherever they lie and   *)
(* whatever they have become: read_batch is called as it may be, what goes   *)
(* out under an index is the bytes of that file, and every file goes out     *)
(* once.                                                                     *)
EXTENDS LinuxWindow, DataLemmas, SequenceTheorems

Entry == [job : Jobs, off : Nat, n : Nat]
Answer == [job : Jobs, res : Int]

(* The reads asked for, their answers, and the jobs in each place.           *)
Asked == kernel \cup Range(sq)
Answers == Range(cq) \cup Range(completions)
JobsOf(s) == {s[k].job : k \in DOMAIN s}
InSq == JobsOf(sq)
InKernel == {e.job : e \in kernel}
InCq == JobsOf(cq)
InHand == JobsOf(completions)
Again == Range(resubmit)
Busy == InSq \cup InKernel \cup InCq \cup InHand \cup Again

OnceIn(s) == \A j, k \in DOMAIN s : s[j].job = s[k].job => j = k

Typed ==
  /\ len \in Seq(Nat) /\ size \in [Jobs -> Nat]
  /\ filled \in [Jobs -> Nat]
  /\ buffer \in [Jobs -> {"none", "held", "taken"}]
  /\ emitted \in [Jobs -> Seq(Nat)]
  /\ next \in 1..(Len(len) + 1)
  /\ sq \in Seq(Entry) /\ kernel \subseteq Entry
  /\ cq \in Seq(Answer) /\ completions \in Seq(Answer)
  /\ resubmit \in Seq(Jobs)

(* A job is in one place at most, and there once.                            *)
OnceEach ==
  /\ OnceIn(sq) /\ OnceIn(cq) /\ OnceIn(completions)
  /\ \A d, e \in kernel : d.job = e.job => d = e
  /\ \A j, k \in DOMAIN resubmit : resubmit[j] = resubmit[k] => j = k

Apart ==
  /\ InSq \cap InKernel = {} /\ InSq \cap InCq = {} /\ InSq \cap InHand = {}
  /\ InSq \cap Again = {} /\ InKernel \cap InCq = {} /\ InKernel \cap InHand = {}
  /\ InKernel \cap Again = {} /\ InCq \cap InHand = {} /\ InCq \cap Again = {}
  /\ InHand \cap Again = {}

Counted ==
  /\ Busy \subseteq 1..(next - 1)
  /\ inflight = Cardinality(Busy)
  /\ done = next - 1 - inflight
  /\ inflight <= Depth

(* A read asks for the unfilled part of its buffer, ...                      *)
ReadFits(e) ==
  /\ buffer[e.job] = "held"
  /\ e.off = filled[e.job]
  /\ e.n > 0 /\ e.off + e.n <= len[e.job]

(* ... is answered with something of it that the file still has, ...         *)
AnswerFits(c) ==
  /\ buffer[c.job] = "held"
  /\ filled[c.job] < len[c.job]
  /\ c.res > 0 => /\ filled[c.job] + c.res <= len[c.job]
                  /\ filled[c.job] + c.res <= size[c.job]
  /\ c.res = 0 => size[c.job] <= filled[c.job]

(* ... and continued for the rest.                                           *)
Fits ==
  /\ \A e \in Asked : ReadFits(e)
  /\ \A c \in Answers : AnswerFits(c)
  /\ \A i \in Again : buffer[i] = "held" /\ filled[i] < len[i]

Filled ==
  \A i \in Jobs : /\ filled[i] <= len[i] /\ filled[i] <= size[i]
                  /\ i >= next => filled[i] = 0

Handed ==
  \A i \in Jobs :
    /\ i < next /\ i \notin Busy => emitted[i] = <<Smaller(len[i], size[i])>>
    /\ i >= next \/ i \in Busy => emitted[i] = <<>>

Phases == pc # "drain" => completions = <<>> /\ resubmit = <<>>

(* While read_batch runs.                                                    *)
Loop ==
  Typed /\ OnceEach /\ Apart /\ Counted /\ Fits /\ Filled /\ Handed /\ Phases

BatchIInv ==
  /\ pc = "idle" => /\ next = 1 /\ inflight = 0 /\ done = 0
                    /\ sq = <<>> /\ kernel = {} /\ cq = <<>>
                    /\ completions = <<>> /\ resubmit = <<>>
                    /\ len = <<>>
  /\ Running => Loop
  /\ OkMeansAllEmitted

(* What a caller may call read_batch with, and its every step.               *)
BatchNext ==
  \/ \E lens \in Seq(Nat) : \E sizes \in [DOMAIN lens -> Nat] : Call(lens, sizes)
  \/ ReaderStep \/ KernelStep \/ Fault

-----------------------------------------------------------------------------
(* Sequences of entries: what a push, a pop and a drain do to their jobs.    *)

LEMMA JobsAppend ==
  ASSUME NEW S, NEW s \in Seq(S), NEW x \in S, OnceIn(s), x.job \notin JobsOf(s)
  PROVE  /\ Append(s, x) \in Seq(S) /\ OnceIn(Append(s, x))
         /\ JobsOf(Append(s, x)) = JobsOf(s) \cup {x.job}
         /\ Range(Append(s, x)) = Range(s) \cup {x}
<1> DEFINE t == Append(s, x)
<1>1. /\ t \in Seq(S) /\ DOMAIN t = 1..(Len(s) + 1) /\ DOMAIN s = 1..Len(s)
      /\ \A k \in 1..Len(s) : t[k] = s[k]
      /\ t[Len(s) + 1] = x /\ Len(s) \in Nat
  OBVIOUS
<1> HIDE DEF t
<1>2. \A k \in DOMAIN t : k \in DOMAIN s \/ k = Len(s) + 1
  BY <1>1
<1>3. OnceIn(t)
  BY <1>1, <1>2 DEF OnceIn, JobsOf
<1>4. JobsOf(t) = JobsOf(s) \cup {x.job} /\ Range(t) = Range(s) \cup {x}
  BY <1>1, <1>2 DEF JobsOf, Range
<1> QED BY <1>1, <1>3, <1>4 DEF t

LEMMA JobsTail ==
  ASSUME NEW S, NEW s \in Seq(S), s # <<>>, OnceIn(s)
  PROVE  /\ Tail(s) \in Seq(S) /\ OnceIn(Tail(s)) /\ Head(s) \in S
         /\ Head(s) \in Range(s) /\ Head(s).job \in JobsOf(s)
         /\ JobsOf(Tail(s)) = JobsOf(s) \ {Head(s).job}
         /\ Range(Tail(s)) \subseteq Range(s)
         /\ \A c \in Range(Tail(s)) : c.job # Head(s).job
<1> DEFINE t == Tail(s)
<1>1. /\ t \in Seq(S) /\ DOMAIN t = 1..(Len(s) - 1) /\ DOMAIN s = 1..Len(s)
      /\ \A k \in 1..(Len(s) - 1) : t[k] = s[k + 1]
      /\ Head(s) = s[1] /\ Len(s) \in Nat \ {0} /\ Head(s) \in S
  OBVIOUS
<1> HIDE DEF t
<1>2. 1 \in DOMAIN s /\ \A k \in DOMAIN t : k + 1 \in DOMAIN s /\ t[k] = s[k + 1] /\ k + 1 # 1
  BY <1>1
<1>3. \A k \in DOMAIN s : k = 1 \/ (k - 1 \in DOMAIN t /\ t[k - 1] = s[k])
  BY <1>1
<1>4. \A j, k \in DOMAIN t : j + 1 = k + 1 => j = k
  BY <1>1
<1>5. OnceIn(t)
  BY <1>2, <1>4 DEF OnceIn
<1>6. \A k \in DOMAIN t : t[k].job # Head(s).job
  BY <1>1, <1>2 DEF OnceIn
<1>7. JobsOf(t) = JobsOf(s) \ {Head(s).job}
  BY <1>1, <1>2, <1>3, <1>6 DEF JobsOf
<1>8. /\ Range(t) \subseteq Range(s) /\ Head(s) \in Range(s) /\ Head(s).job \in JobsOf(s)
      /\ \A c \in Range(t) : c.job # Head(s).job
  BY <1>1, <1>2, <1>6 DEF Range, JobsOf
<1> QED BY <1>1, <1>5, <1>7, <1>8 DEF t

LEMMA JobsConcat ==
  ASSUME NEW S, NEW s \in Seq(S), NEW u \in Seq(S), OnceIn(s), OnceIn(u),
         JobsOf(s) \cap JobsOf(u) = {}
  PROVE  /\ s \o u \in Seq(S) /\ OnceIn(s \o u)
         /\ JobsOf(s \o u) = JobsOf(s) \cup JobsOf(u)
         /\ Range(s \o u) = Range(s) \cup Range(u)
<1> DEFINE t == s \o u
<1>1. /\ t \in Seq(S) /\ DOMAIN t = 1..(Len(s) + Len(u))
      /\ DOMAIN s = 1..Len(s) /\ DOMAIN u = 1..Len(u)
      /\ Len(s) \in Nat /\ Len(u) \in Nat
      /\ \A k \in 1..Len(s) : t[k] = s[k]
      /\ \A k \in 1..Len(u) : t[Len(s) + k] = u[k]
  OBVIOUS
<1> HIDE DEF t
<1>2. \A k \in DOMAIN t : k \in DOMAIN s \/ (k - Len(s) \in DOMAIN u /\ t[k] = u[k - Len(s)])
  BY <1>1
<1>3. /\ \A k \in DOMAIN s : k \in DOMAIN t /\ t[k] = s[k]
      /\ \A k \in DOMAIN u : Len(s) + k \in DOMAIN t /\ t[Len(s) + k] = u[k]
  BY <1>1
<1>4. JobsOf(t) = JobsOf(s) \cup JobsOf(u) /\ Range(t) = Range(s) \cup Range(u)
  BY <1>2, <1>3 DEF JobsOf, Range
<1>5. \A j, k \in DOMAIN t : j - Len(s) = k - Len(s) => j = k
  BY <1>1
<1>6. ASSUME NEW j \in DOMAIN t, NEW k \in DOMAIN t, t[j].job = t[k].job
      PROVE  j = k
  <2>1. CASE j \in DOMAIN s /\ k \in DOMAIN s
    BY <1>3, <1>6, <2>1 DEF OnceIn
  <2>2. CASE j \notin DOMAIN s /\ k \notin DOMAIN s
    <3>1. j - Len(s) = k - Len(s)
      BY <1>2, <1>6, <2>2 DEF OnceIn
    <3> QED BY <3>1, <1>5
  <2>3. CASE j \in DOMAIN s /\ k \notin DOMAIN s
    <3>1. t[j].job \in JobsOf(s) /\ t[k].job \in JobsOf(u)
      BY <1>2, <1>3, <2>3 DEF JobsOf
    <3> QED BY <3>1, <1>6
  <2>4. CASE j \notin DOMAIN s /\ k \in DOMAIN s
    <3>1. t[k].job \in JobsOf(s) /\ t[j].job \in JobsOf(u)
      BY <1>2, <1>3, <2>4 DEF JobsOf
    <3> QED BY <3>1, <1>6
  <2> QED BY <2>1, <2>2, <2>3, <2>4
<1>7. OnceIn(t)
  BY <1>6 DEF OnceIn
<1> QED BY <1>1, <1>4, <1>7 DEF t

(* How often a job comes in a sequence of entries.                           *)
LEMMA TimesIn ==
  ASSUME NEW S, NEW s \in Seq(S), OnceIn(s), NEW i
  PROVE  Cardinality({k \in DOMAIN s : s[k].job = i})
           = IF i \in JobsOf(s) THEN 1 ELSE 0
<1>1. CASE i \in JobsOf(s)
  <2>1. PICK k \in DOMAIN s : s[k].job = i
    BY <1>1 DEF JobsOf
  <2>2. {j \in DOMAIN s : s[j].job = i} = {k}
    BY <2>1 DEF OnceIn
  <2> QED BY <1>1, <2>2, FS_Singleton
<1>2. CASE i \notin JobsOf(s)
  <2>1. {j \in DOMAIN s : s[j].job = i} = {}
    BY <1>2 DEF JobsOf
  <2> QED BY <1>2, <2>1, FS_EmptySet
<1> QED BY <1>1, <1>2

-----------------------------------------------------------------------------
LEMMA Types ==
  ASSUME Typed
  PROVE  /\ Len(len) \in Nat /\ Jobs = 1..Len(len)
         /\ next \in Nat /\ next >= 1 /\ next <= Len(len) + 1
         /\ \A i \in Jobs : len[i] \in Nat /\ size[i] \in Nat /\ filled[i] \in Nat
         /\ \A e \in Asked : e \in Entry /\ e.job \in Jobs /\ e.off \in Nat /\ e.n \in Nat
         /\ \A c \in Answers : c \in Answer /\ c.job \in Jobs /\ c.res \in Int
         /\ Again \subseteq Jobs
<1>1. /\ Len(len) \in Nat /\ Jobs = 1..Len(len)
      /\ next \in Nat /\ next >= 1 /\ next <= Len(len) + 1
      /\ \A i \in Jobs : len[i] \in Nat /\ size[i] \in Nat /\ filled[i] \in Nat
  BY DEF Typed, Jobs
<1>2. /\ sq \in Seq(Entry) /\ kernel \subseteq Entry
      /\ cq \in Seq(Answer) /\ completions \in Seq(Answer)
      /\ resubmit \in Seq(Jobs)
  BY DEF Typed
<1>3. Asked \subseteq Entry
  BY <1>2 DEF Asked, Range
<1>4. Answers \subseteq Answer
  BY <1>2 DEF Answers, Range
<1>5. Again \subseteq Jobs
  BY <1>2 DEF Again, Range
<1> QED BY <1>1, <1>3, <1>4, <1>5 DEF Entry, Answer

LEMMA BusyFinite ==
  ASSUME Typed, Counted
  PROVE  IsFiniteSet(Busy) /\ inflight \in Nat /\ done \in Nat
<1>1. next - 1 \in Nat
  BY DEF Typed
<1>2. IsFiniteSet(1..(next - 1)) /\ Cardinality(1..(next - 1)) = next - 1
  BY <1>1, FS_Interval
<1>3. IsFiniteSet(Busy) /\ Cardinality(Busy) <= next - 1
  BY <1>2, FS_Subset DEF Counted
<1>4. Cardinality(Busy) \in Nat
  BY <1>3, FS_CardinalityType
<1> QED BY <1>1, <1>3, <1>4 DEF Counted

LEMMA SamePlaces ==
  ASSUME UNCHANGED <<ring, completions, resubmit>>
  PROVE  /\ InSq' = InSq /\ InKernel' = InKernel /\ InCq' = InCq
         /\ InHand' = InHand /\ Again' = Again /\ Busy' = Busy
         /\ Asked' = Asked /\ Answers' = Answers
         /\ OnceEach => OnceEach'
         /\ Apart => Apart'
<1>1. /\ InSq' = InSq /\ InKernel' = InKernel /\ InCq' = InCq /\ InHand' = InHand /\ Again' = Again
      /\ Asked' = Asked /\ Answers' = Answers
  BY DEF InSq, InKernel, InCq, InHand, Again, Asked, Answers, ring
<1>2. OnceEach => OnceEach'
  BY DEF OnceEach, OnceIn, ring
<1> QED BY <1>1, <1>2 DEF Busy, Apart

(* The call.                                                                 *)
LEMMA CallStep ==
  ASSUME BatchIInv, NEW lens \in Seq(Nat), NEW sizes \in [DOMAIN lens -> Nat],
         Call(lens, sizes)
  PROVE  BatchIInv'
<1>1. /\ pc = "idle" /\ len' = lens /\ size' = sizes /\ Jobs' = DOMAIN lens
      /\ next' = 1 /\ inflight' = 0 /\ done' = 0
      /\ sq' = <<>> /\ kernel' = {} /\ cq' = <<>> /\ completions' = <<>> /\ resubmit' = <<>>
      /\ filled' = [i \in DOMAIN lens |-> 0]
      /\ buffer' = [i \in DOMAIN lens |-> "none"]
      /\ emitted' = [i \in DOMAIN lens |-> <<>>]
  BY DEF BatchIInv, Call, ring, Jobs
<1>2. Len(lens) \in Nat /\ DOMAIN lens = 1..Len(lens) /\ \A i \in DOMAIN lens : lens[i] \in Nat
  OBVIOUS
<1>3. /\ InSq' = {} /\ InKernel' = {} /\ InCq' = {} /\ InHand' = {} /\ Again' = {} /\ Busy' = {}
      /\ Asked' = {} /\ Answers' = {}
  BY <1>1 DEF InSq, InKernel, InCq, InHand, Again, Busy, Asked, Answers, JobsOf, Range
<1>4. Typed'
  <2>1. len' \in Seq(Nat) /\ size' \in [Jobs' -> Nat] /\ next' \in 1..(Len(len') + 1)
    BY <1>1, <1>2
  <2>2. filled' \in [Jobs' -> Nat] /\ buffer' \in [Jobs' -> {"none", "held", "taken"}]
        /\ emitted' \in [Jobs' -> Seq(Nat)]
    BY <1>1
  <2>3. sq' \in Seq(Entry') /\ kernel' \subseteq Entry' /\ cq' \in Seq(Answer')
        /\ completions' \in Seq(Answer') /\ resubmit' \in Seq(Jobs')
    BY <1>1
  <2> QED BY <2>1, <2>2, <2>3 DEF Typed
<1>5. OnceEach'
  BY <1>1 DEF OnceEach, OnceIn
<1>6. Apart'
  BY <1>3 DEF Apart
<1>7. Counted'
  BY <1>1, <1>3, FS_EmptySet, IoUringAssumption DEF Counted
<1>8. Fits'
  BY <1>3 DEF Fits
<1>9. Filled' /\ Handed'
  BY <1>1, <1>2 DEF Filled, Handed
<1>10. Phases'
  BY <1>1 DEF Phases
<1>11. pc' = "ok" => Jobs' = {}
  BY <1>1 DEF Call, Jobs
<1>12. OkMeansAllEmitted'
  BY <1>11 DEF OkMeansAllEmitted
<1>13. pc' # "idle"
  BY DEF Call
<1> QED BY <1>4, <1>5, <1>6, <1>7, <1>8, <1>9, <1>10, <1>12, <1>13 DEF BatchIInv, Loop

-----------------------------------------------------------------------------
(* Topping up.                                                               *)

LEMMA NextIsFree ==
  ASSUME Loop, next <= Len(len)
  PROVE  /\ next \in Jobs /\ next \notin Busy /\ emitted[next] = <<>>
         /\ filled[next] = 0 /\ len[next] \in Nat
<1>1. next \in Jobs /\ len[next] \in Nat /\ next \in Nat
  BY Types DEF Loop
<1>2. next \notin Busy
  BY <1>1 DEF Loop, Counted
<1>3. emitted[next] = <<>>
  BY <1>1 DEF Loop, Handed
<1>4. filled[next] = 0
  BY <1>1 DEF Loop, Filled
<1> QED BY <1>1, <1>2, <1>3, <1>4

LEMMA TopUpEmptyStep ==
  ASSUME Loop, TopUpEmptyFile, pc' = "topup"
  PROVE  Loop'
<1> USE DEF Loop
<1>1. /\ emitted' = [emitted EXCEPT ![next] = Append(@, 0)] /\ done' = done + 1
      /\ next' = next + 1 /\ next <= Len(len) /\ len[next] = 0 /\ pc = "topup"
      /\ len' = len /\ size' = size /\ filled' = filled /\ buffer' = buffer
      /\ inflight' = inflight /\ UNCHANGED <<ring, completions, resubmit>>
  BY DEF TopUpEmptyFile, Accepts, files
<1>2. Jobs' = Jobs /\ Entry' = Entry /\ Answer' = Answer
  BY <1>1 DEF Jobs, Entry, Answer
<1>3. OnceEach' /\ Apart' /\ Busy' = Busy
  BY <1>1, SamePlaces
<1>4. next \in Jobs /\ next \notin Busy /\ emitted[next] = <<>>
  BY <1>1, NextIsFree
<1>5. emitted'[next] = <<0>> /\ \A i \in Jobs \ {next} : emitted'[i] = emitted[i]
  BY <1>1, <1>4 DEF Typed
<1>6. Typed'
  <2>1. emitted' \in [Jobs -> Seq(Nat)]
    BY <1>1, <1>4 DEF Typed
  <2>2. next' \in 1..(Len(len) + 1)
    BY <1>1 DEF Typed
  <2> QED BY <1>1, <1>2, <2>1, <2>2 DEF Typed, ring
<1>7. Counted'
  <2>1. next \in Nat /\ inflight \in Nat
    BY BusyFinite DEF Typed
  <2> QED BY <1>1, <1>3, <2>1 DEF Counted
<1>8. Fits'
  BY <1>1, SamePlaces DEF Fits, ReadFits, AnswerFits
<1>9. Filled'
  <2>1. \A i \in Jobs : i >= next + 1 => i >= next
    BY Types
  <2> QED BY <1>1, <1>2, <2>1 DEF Filled
<1>10. Handed'
  <2>1. Smaller(len[next], size[next]) = 0
    BY <1>1, <1>4, Types DEF Smaller
  <2>2. \A i \in Jobs \ {next} : (i < next + 1 <=> i < next) /\ (i >= next + 1 <=> i >= next)
    BY Types
  <2>3. next < next + 1 /\ ~(next >= next + 1)
    BY Types
  <2> QED BY <1>1, <1>2, <1>3, <1>4, <1>5, <2>1, <2>2, <2>3 DEF Handed
<1>11. Phases'
  BY <1>1 DEF Phases, ring
<1> QED BY <1>3, <1>6, <1>7, <1>8, <1>9, <1>10, <1>11

LEMMA TopUpReadStep ==
  ASSUME Loop, TopUpRead
  PROVE  Loop'
<1> USE DEF Loop
<1>1. /\ sq' = Append(sq, Sqe(next, 0)) /\ buffer' = [buffer EXCEPT ![next] = "held"]
      /\ inflight' = inflight + 1 /\ inflight < Depth
      /\ next' = next + 1 /\ next <= Len(len) /\ len[next] # 0 /\ pc = "topup" /\ pc' = pc
      /\ len' = len /\ size' = size /\ filled' = filled /\ done' = done
      /\ kernel' = kernel /\ cq' = cq /\ completions' = completions /\ resubmit' = resubmit
      /\ emitted' = emitted
  BY DEF TopUpRead, files
<1>2. Jobs' = Jobs /\ Entry' = Entry /\ Answer' = Answer
  BY <1>1 DEF Jobs, Entry, Answer
<1>3. /\ next \in Jobs /\ next \notin Busy /\ emitted[next] = <<>> /\ filled[next] = 0
      /\ len[next] \in Nat \ {0}
  BY <1>1, NextIsFree
<1>4. PICK e \in Entry : /\ e = Sqe(next, 0) /\ e.job = next /\ e.off = 0
                         /\ e.n \in Nat /\ e.n > 0 /\ e.n <= len[next]
  <2>1. Smaller(len[next] - 0, MaxRead) \in Nat \ {0} /\ Smaller(len[next] - 0, MaxRead) <= len[next]
    BY <1>3, IoUringAssumption DEF Smaller
  <2>2. /\ Sqe(next, 0) \in Entry /\ Sqe(next, 0).job = next /\ Sqe(next, 0).off = 0
        /\ Sqe(next, 0).n = Smaller(len[next] - 0, MaxRead)
    BY <1>3, <2>1 DEF Sqe, Entry
  <2> QED BY <2>1, <2>2
<1>5. next \notin InSq /\ next \notin InKernel /\ next \notin InCq /\ next \notin InHand
      /\ next \notin Again
  BY <1>3 DEF Busy
<1>6. /\ sq' \in Seq(Entry) /\ OnceIn(sq') /\ InSq' = InSq \cup {next}
      /\ Range(sq') = Range(sq) \cup {e}
  BY <1>1, <1>4, <1>5, JobsAppend DEF Typed, OnceEach, InSq
<1>7. /\ InKernel' = InKernel /\ InCq' = InCq /\ InHand' = InHand /\ Again' = Again
      /\ Asked' = Asked \cup {e} /\ Answers' = Answers
  BY <1>1, <1>6 DEF InKernel, InCq, InHand, Again, Asked, Answers
<1>8. Busy' = Busy \cup {next}
  BY <1>6, <1>7 DEF Busy
<1>9. Typed'
  <2>1. buffer' \in [Jobs -> {"none", "held", "taken"}]
    BY <1>1, <1>3 DEF Typed
  <2>2. next' \in 1..(Len(len) + 1)
    BY <1>1 DEF Typed
  <2> QED BY <1>1, <1>2, <1>6, <2>1, <2>2 DEF Typed
<1>10. OnceEach'
  BY <1>1, <1>6 DEF OnceEach, OnceIn
<1>11. Apart'
  BY <1>5, <1>6, <1>7 DEF Apart
<1>12. Counted'
  <2>1. next \in Nat /\ inflight \in Nat /\ IsFiniteSet(Busy) /\ next >= 1
    BY BusyFinite DEF Typed
  <2>2. Cardinality(Busy') = Cardinality(Busy) + 1
    BY <1>3, <1>8, <2>1, FS_AddElement
  <2>3. Busy' \subseteq 1..(next' - 1)
    BY <1>1, <1>8, <2>1 DEF Counted
  <2>4. inflight' <= Depth
    BY <1>1, <2>1, IoUringAssumption
  <2>5. inflight' = Cardinality(Busy')
    BY <1>1, <2>2 DEF Counted
  <2>6. done' = next' - 1 - inflight'
    BY <1>1, <2>1 DEF Counted
  <2> QED BY <2>3, <2>4, <2>5, <2>6 DEF Counted
<1>13. buffer'[next] = "held" /\ \A i \in Jobs \ {next} : buffer'[i] = buffer[i]
  BY <1>1, <1>3 DEF Typed
<1>14. Fits'
  <2>1. \A i \in Jobs : buffer[i] = "held" => buffer'[i] = "held"
    BY <1>13
  <2>2. ReadFits(e)'
    BY <1>1, <1>3, <1>4, <1>13 DEF ReadFits
  <2>3. \A d \in Asked' : ReadFits(d)'
    BY <1>1, <1>7, <2>1, <2>2, Types DEF Fits, ReadFits
  <2>4. \A c \in Answers' : AnswerFits(c)'
    BY <1>1, <1>7, <2>1, Types DEF Fits, AnswerFits
  <2>5. \A i \in Again' : buffer'[i] = "held" /\ filled'[i] < len'[i]
    BY <1>1, <1>7, <2>1, Types DEF Fits
  <2> QED BY <2>3, <2>4, <2>5 DEF Fits
<1>15. Filled'
  <2>1. \A i \in Jobs : i >= next + 1 => i >= next
    BY Types
  <2> QED BY <1>1, <1>2, <2>1 DEF Filled
<1>16. Handed'
  <2>1. \A i \in Jobs \ {next} : (i < next + 1 <=> i < next) /\ (i >= next + 1 <=> i >= next)
    BY Types
  <2> QED BY <1>1, <1>2, <1>3, <1>8, <2>1 DEF Handed
<1>17. Phases'
  BY <1>1 DEF Phases
<1> QED BY <1>9, <1>10, <1>11, <1>12, <1>14, <1>15, <1>16, <1>17

-----------------------------------------------------------------------------
(* Steps that only move reads on.                                            *)

LEMMA MovedOn ==
  ASSUME Loop, UNCHANGED <<files, filled, next, inflight, done, emitted>>, Busy' = Busy
  PROVE  /\ Jobs' = Jobs /\ Entry' = Entry /\ Answer' = Answer
         /\ Counted' /\ Filled' /\ Handed'
<1>1. Jobs' = Jobs
  BY DEF Jobs, files
<1>2. Counted'
  BY DEF Loop, Counted
<1>3. Filled'
  BY <1>1 DEF Loop, Filled, files
<1>4. Handed'
  BY <1>1 DEF Loop, Handed, files
<1> QED BY <1>1, <1>2, <1>3, <1>4 DEF Entry, Answer

(* Fitting is a matter of the job's buffer and lengths alone.                *)
LEMMA StillFits ==
  ASSUME UNCHANGED <<files, filled, buffer>>
  PROVE  /\ \A e : ReadFits(e) => ReadFits(e)'
         /\ \A c : AnswerFits(c) => AnswerFits(c)'
         /\ \A i : buffer[i] = "held" /\ filled[i] < len[i] => buffer'[i] = "held" /\ filled'[i] < len'[i]
  BY DEF ReadFits, AnswerFits, files

LEMMA SubmitStep ==
  ASSUME Loop, SubmitAndWait
  PROVE  Loop'
<1> USE DEF Loop
<1>1. /\ kernel' = kernel \cup Range(sq) /\ sq' = <<>> /\ pc' = "wait" /\ pc = "topup"
      /\ cq' = cq /\ completions' = completions /\ resubmit' = resubmit
      /\ UNCHANGED <<files, filled, buffer>>
      /\ UNCHANGED <<files, filled, next, inflight, done, emitted>>
  BY DEF SubmitAndWait
<1>2. InSq' = {} /\ Range(sq') = {}
  BY <1>1 DEF InSq, JobsOf, Range
<1>3. InKernel' = InKernel \cup InSq
  BY <1>1 DEF InKernel, InSq, JobsOf, Range
<1>4. InCq' = InCq /\ InHand' = InHand /\ Again' = Again /\ Answers' = Answers
  BY <1>1 DEF InCq, InHand, Again, Answers
<1>5. Asked' = Asked
  BY <1>1, <1>2 DEF Asked
<1>6. Busy' = Busy
  BY <1>2, <1>3, <1>4 DEF Busy
<1>7. Jobs' = Jobs /\ Entry' = Entry /\ Answer' = Answer /\ Counted' /\ Filled' /\ Handed'
  BY <1>1, <1>6, MovedOn
<1>8. Typed'
  <2>1. kernel' \subseteq Entry
    BY <1>1, Types DEF Asked, Typed
  <2>2. sq' \in Seq(Entry)
    BY <1>1
  <2> QED BY <1>1, <1>7, <2>1, <2>2 DEF Typed, files
<1>9. OnceEach'
  <2>1. OnceIn(sq)'
    BY <1>1 DEF OnceIn
  <2>2. ASSUME NEW d \in kernel', NEW e \in kernel', d.job = e.job
        PROVE  d = e
    <3>1. CASE d \in kernel /\ e \in kernel
      BY <2>2, <3>1 DEF OnceEach
    <3>2. CASE d \notin kernel /\ e \notin kernel
      BY <1>1, <2>2, <3>2 DEF OnceEach, OnceIn, Range
    <3>3. CASE d \in kernel /\ e \notin kernel
      <4>1. d.job \in InKernel /\ e.job \in InSq
        BY <1>1, <3>3 DEF InKernel, InSq, JobsOf, Range
      <4> QED BY <2>2, <4>1 DEF Apart
    <3>4. CASE d \notin kernel /\ e \in kernel
      <4>1. e.job \in InKernel /\ d.job \in InSq
        BY <1>1, <3>4 DEF InKernel, InSq, JobsOf, Range
      <4> QED BY <2>2, <4>1 DEF Apart
    <3> QED BY <3>1, <3>2, <3>3, <3>4
  <2>3. OnceIn(cq)' /\ OnceIn(completions)'
    BY <1>1 DEF OnceEach, OnceIn
  <2>4. \A j, k \in DOMAIN resubmit' : resubmit'[j] = resubmit'[k] => j = k
    BY <1>1 DEF OnceEach
  <2> QED BY <2>1, <2>2, <2>3, <2>4 DEF OnceEach
<1>10. Apart'
  BY <1>2, <1>3, <1>4 DEF Apart
<1>11. Fits'
  BY <1>1, <1>4, <1>5, StillFits DEF Fits
<1>12. Phases'
  BY <1>1 DEF Phases
<1> QED BY <1>7, <1>8, <1>9, <1>10, <1>11, <1>12

LEMMA ReapStep ==
  ASSUME Loop, ReapCompletions
  PROVE  Loop'
<1> USE DEF Loop
<1>1. /\ completions' = cq /\ cq' = <<>> /\ pc' = "drain" /\ pc = "wait"
      /\ sq' = sq /\ kernel' = kernel /\ resubmit' = resubmit /\ buffer' = buffer
      /\ UNCHANGED <<files, filled, buffer>>
      /\ UNCHANGED <<files, filled, next, inflight, done, emitted>>
  BY DEF ReapCompletions
<1>2. completions = <<>>
  BY <1>1 DEF Phases
<1>3. InHand' = InCq /\ InCq' = {} /\ InHand = {}
  BY <1>1, <1>2 DEF InHand, InCq, JobsOf
<1>4. InSq' = InSq /\ InKernel' = InKernel /\ Again' = Again /\ Asked' = Asked
  BY <1>1 DEF InSq, InKernel, Again, Asked
<1>5. Answers' = Answers
  BY <1>1, <1>2 DEF Answers, Range
<1>6. Busy' = Busy
  BY <1>3, <1>4 DEF Busy
<1>7. Jobs' = Jobs /\ Entry' = Entry /\ Answer' = Answer /\ Counted' /\ Filled' /\ Handed'
  BY <1>1, <1>6, MovedOn
<1>8. Typed'
  <2>1. cq' \in Seq(Answer)
    BY <1>1
  <2> QED BY <1>1, <1>7, <2>1 DEF Typed, files
<1>9. OnceEach'
  BY <1>1 DEF OnceEach, OnceIn
<1>10. Apart'
  BY <1>3, <1>4 DEF Apart
<1>11. Fits'
  BY <1>1, <1>4, <1>5, StillFits DEF Fits
<1>12. Phases'
  BY <1>1 DEF Phases
<1> QED BY <1>7, <1>8, <1>9, <1>10, <1>11, <1>12

(* The kernel's answer c to the read e.                                      *)
LEMMA AnswerStep ==
  ASSUME Loop, NEW e \in kernel, NEW c, c \in Answer, c.job = e.job,
         AnswerFits(c),
         kernel' = kernel \ {e}, cq' = Append(cq, c),
         UNCHANGED <<files, filled, buffer, next, inflight, done, sq, completions,
                     resubmit, emitted, pc>>
  PROVE  Loop'
<1> USE DEF Loop
<1>1. /\ sq' = sq /\ completions' = completions /\ resubmit' = resubmit /\ pc' = pc
      /\ UNCHANGED <<files, filled, buffer>>
      /\ UNCHANGED <<files, filled, next, inflight, done, emitted>>
  OBVIOUS
<1>2. e.job \in InKernel /\ e.job \notin InCq
  BY DEF InKernel, Apart
<1>3. cq' \in Seq(Answer) /\ OnceIn(cq') /\ InCq' = InCq \cup {e.job} /\ Range(cq') = Range(cq) \cup {c}
  BY <1>2, JobsAppend DEF Typed, OnceEach, InCq
<1>4. InKernel' = InKernel \ {e.job}
  BY DEF InKernel, OnceEach
<1>5. InSq' = InSq /\ InHand' = InHand /\ Again' = Again
  BY <1>1 DEF InSq, InHand, Again
<1>6. Asked' \subseteq Asked /\ Answers' = Answers \cup {c}
  BY <1>1, <1>3 DEF Asked, Answers
<1>7. Busy' = Busy
  BY <1>2, <1>3, <1>4, <1>5 DEF Busy
<1>8. Jobs' = Jobs /\ Entry' = Entry /\ Answer' = Answer /\ Counted' /\ Filled' /\ Handed'
  BY <1>1, <1>7, MovedOn
<1>9. Typed'
  BY <1>1, <1>3, <1>8 DEF Typed, files
<1>10. OnceEach'
  BY <1>1, <1>3 DEF OnceEach, OnceIn
<1>11. Apart'
  BY <1>2, <1>3, <1>4, <1>5 DEF Apart
<1>12. Fits'
  <2>1. \A d \in Asked' : ReadFits(d)'
    BY <1>1, <1>6, StillFits DEF Fits
  <2>2. \A d \in Answers' : AnswerFits(d)'
    BY <1>1, <1>6, StillFits DEF Fits
  <2>3. \A i \in Again' : buffer'[i] = "held" /\ filled'[i] < len'[i]
    BY <1>1, <1>5, StillFits DEF Fits
  <2> QED BY <2>1, <2>2, <2>3 DEF Fits
<1>13. Phases'
  BY <1>1 DEF Phases
<1> QED BY <1>8, <1>9, <1>10, <1>11, <1>12, <1>13

LEMMA KernelReadsStep ==
  ASSUME Loop, NEW e \in kernel, KernelReads(e)
  PROVE  Loop'
<1>1. PICK k \in 0..e.n :
        /\ k <= size[e.job] - e.off \/ k = 0
        /\ k = 0 => size[e.job] <= e.off
        /\ cq' = Append(cq, [job |-> e.job, res |-> k])
  BY DEF KernelReads
<1>2. /\ e \in Asked /\ ReadFits(e) /\ e.n \in Nat /\ e.off \in Nat /\ e.job \in Jobs
      /\ size[e.job] \in Nat /\ len[e.job] \in Nat /\ filled[e.job] \in Nat
  BY Types DEF Loop, Asked, Fits
<1>3. PICK c \in Answer : c = [job |-> e.job, res |-> k] /\ c.job = e.job /\ c.res = k
  <2>1. [job |-> e.job, res |-> k] \in Answer
    BY <1>2 DEF Answer
  <2> QED BY <2>1
<1>4. AnswerFits(c)
  <2>1. /\ filled[e.job] < len[e.job]
        /\ k > 0 => filled[e.job] + k <= len[e.job] /\ filled[e.job] + k <= size[e.job]
        /\ k = 0 => size[e.job] <= filled[e.job]
    BY <1>1, <1>2 DEF ReadFits
  <2> QED BY <1>2, <1>3, <2>1 DEF AnswerFits, ReadFits
<1>5. cq' = Append(cq, c)
  BY <1>1, <1>3
<1> QED BY <1>3, <1>4, <1>5, AnswerStep DEF KernelReads

LEMMA KernelFailsStep ==
  ASSUME Loop, NEW e \in kernel, KernelFails(e)
  PROVE  Loop'
<1>1. /\ e \in Asked /\ ReadFits(e) /\ e.n \in Nat /\ e.off \in Nat /\ e.job \in Jobs
      /\ len[e.job] \in Nat /\ filled[e.job] \in Nat
  BY Types DEF Loop, Asked, Fits
<1>2. PICK c \in Answer : c = [job |-> e.job, res |-> -1] /\ c.job = e.job /\ c.res = -1
  <2>1. [job |-> e.job, res |-> -1] \in Answer
    BY <1>1 DEF Answer
  <2> QED BY <2>1
<1>3. filled[e.job] < len[e.job]
  BY <1>1 DEF ReadFits
<1>4. AnswerFits(c)
  BY <1>1, <1>2, <1>3 DEF AnswerFits, ReadFits
<1> QED BY <1>2, <1>4, AnswerStep DEF KernelFails

-----------------------------------------------------------------------------
(* Handling the completions.                                                 *)

(* The first of them.                                                        *)
LEMMA FirstCompletion ==
  ASSUME Loop, completions # <<>>,
         completions' = Tail(completions), UNCHANGED <<len, ring>>
  PROVE  LET c == Head(completions) IN
         /\ c \in Answers /\ c.job \in Jobs /\ c.job \in Busy /\ AnswerFits(c) /\ c.res \in Int
         /\ c.job \notin InSq /\ c.job \notin InKernel /\ c.job \notin InCq /\ c.job \notin Again
         /\ InHand' = InHand \ {c.job} /\ c.job \in InHand
         /\ completions' \in Seq(Answer) /\ OnceIn(completions')
         /\ InSq' = InSq /\ InKernel' = InKernel /\ InCq' = InCq
         /\ Asked' = Asked /\ Answers' \subseteq Answers
         /\ \A d \in Answers' : d.job # c.job
         /\ \A e \in Asked : e.job # c.job
<1> USE DEF Loop
<1> DEFINE c == Head(completions)
<1>1. /\ completions' \in Seq(Answer) /\ OnceIn(completions')
      /\ c \in Range(completions) /\ c.job \in InHand
      /\ InHand' = InHand \ {c.job}
      /\ Range(completions') \subseteq Range(completions)
      /\ \A d \in Range(completions') : d.job # c.job
  BY JobsTail DEF Typed, OnceEach, InHand
<1> HIDE DEF c
<1>2. c \in Answers /\ AnswerFits(c) /\ c.job \in Jobs /\ c.res \in Int
  BY <1>1, Types DEF Answers, Fits
<1>3. /\ c.job \notin InSq /\ c.job \notin InKernel /\ c.job \notin InCq /\ c.job \notin Again
      /\ c.job \in Busy
  BY <1>1 DEF Apart, Busy
<1>4. /\ InSq' = InSq /\ InKernel' = InKernel /\ InCq' = InCq /\ Asked' = Asked
      /\ Range(cq') = Range(cq)
  BY DEF InSq, InKernel, InCq, Asked, ring
<1>5. /\ \A d \in Range(cq) : d.job # c.job
      /\ \A e \in Asked : e.job # c.job
  BY <1>3 DEF InCq, InSq, InKernel, Asked, JobsOf, Range
<1>6. Answers' \subseteq Answers /\ \A d \in Answers' : d.job # c.job
  BY <1>1, <1>4, <1>5 DEF Answers
<1> QED BY <1>1, <1>2, <1>3, <1>4, <1>6, <1>5 DEF c

(* What fits still does when only another job's buffer has changed.          *)
LEMMA OthersFit ==
  ASSUME Loop, NEW i \in Jobs, files' = files,
         \A j \in Jobs \ {i} : filled'[j] = filled[j] /\ buffer'[j] = buffer[j]
  PROVE  /\ \A e \in Asked : e.job # i => ReadFits(e)'
         /\ \A c \in Answers : c.job # i => AnswerFits(c)'
         /\ \A j \in Again : j # i => buffer'[j] = "held" /\ filled'[j] < len'[j]
<1> USE DEF Loop, files
<1>1. \A e \in Asked : e.job # i => ReadFits(e)'
  BY Types DEF Fits, ReadFits
<1>2. \A c \in Answers : c.job # i => AnswerFits(c)'
  BY Types DEF Fits, AnswerFits
<1>3. \A j \in Again : j # i => buffer'[j] = "held" /\ filled'[j] < len'[j]
  BY Types DEF Fits
<1> QED BY <1>1, <1>2, <1>3

(* A job is finished with n blocks and handed over.                          *)
LEMMA FinishStep ==
  ASSUME Loop, pc = "drain", completions # <<>>, completions' = Tail(completions),
         UNCHANGED <<files, next, ring, resubmit>>, pc' = pc,
         NEW i, i = Head(completions).job, NEW n \in Nat,
         n = Smaller(len[i], size[i]),
         filled' = [filled EXCEPT ![i] = n], buffer' = [buffer EXCEPT ![i] = "taken"],
         inflight' = inflight - 1, done' = done + 1, Accepts(i, n)
  PROVE  Loop'
<1> USE DEF Loop
<1>1. /\ len' = len /\ size' = size /\ next' = next /\ sq' = sq /\ kernel' = kernel /\ cq' = cq
      /\ resubmit' = resubmit /\ UNCHANGED <<len, ring>> /\ files' = files
      /\ emitted' = [emitted EXCEPT ![i] = Append(@, n)]
  BY DEF files, ring, Accepts
<1>2. /\ i \in Jobs /\ i \in Busy /\ i \in InHand
      /\ i \notin InSq /\ i \notin InKernel /\ i \notin InCq /\ i \notin Again
      /\ InHand' = InHand \ {i}
      /\ completions' \in Seq(Answer) /\ OnceIn(completions')
      /\ InSq' = InSq /\ InKernel' = InKernel /\ InCq' = InCq
      /\ Asked' = Asked /\ Answers' \subseteq Answers
      /\ \A d \in Answers' : d.job # i
      /\ \A e \in Asked : e.job # i
  BY <1>1, FirstCompletion
<1>3. Again' = Again
  BY <1>1 DEF Again
<1>4. Busy' = Busy \ {i}
  BY <1>2, <1>3 DEF Busy
<1>5. Jobs' = Jobs /\ Entry' = Entry /\ Answer' = Answer
  BY <1>1 DEF Jobs, Entry, Answer
<1>6. emitted[i] = <<>> /\ i < next
  <2>1. emitted[i] = <<>>
    BY <1>2 DEF Handed
  <2>2. i \in 1..(next - 1) /\ next \in Nat
    <3>1. Busy \subseteq 1..(next - 1)
      BY DEF Counted
    <3>2. next \in Nat
      BY Types
    <3> QED BY <1>2, <3>1, <3>2
  <2> QED BY <2>1, <2>2
<1>7. emitted'[i] = <<n>> /\ \A j \in Jobs \ {i} : emitted'[j] = emitted[j]
  <2>1. Append(<<>>, n) = <<n>>
    OBVIOUS
  <2>2. emitted' = [emitted EXCEPT ![i] = <<n>>]
    BY <1>1, <1>6, <2>1
  <2>3. emitted \in [Jobs -> Seq(Nat)]
    BY DEF Typed
  <2> QED BY <1>2, <2>2, <2>3
<1>8. \A j \in Jobs \ {i} : filled'[j] = filled[j] /\ buffer'[j] = buffer[j]
  BY <1>2 DEF Typed
<1>9. filled'[i] = n
  BY <1>2 DEF Typed
<1>10. Typed'
  <2>1. emitted' \in [Jobs -> Seq(Nat)]
    BY <1>1, <1>2, <1>6 DEF Typed
  <2>2. filled' \in [Jobs -> Nat] /\ buffer' \in [Jobs -> {"none", "held", "taken"}]
    BY DEF Typed
  <2> QED BY <1>1, <1>2, <1>5, <2>1, <2>2 DEF Typed
<1>11. OnceEach'
  BY <1>1, <1>2 DEF OnceEach, OnceIn
<1>12. Apart'
  BY <1>2, <1>3 DEF Apart
<1>13. Counted'
  <2>1. /\ IsFiniteSet(Busy) /\ inflight \in Nat /\ done \in Nat /\ next \in Nat
    BY BusyFinite, Types
  <2>2. Cardinality(Busy') = Cardinality(Busy) - 1
    BY <1>2, <1>4, <2>1, FS_RemoveElement
  <2>3. Busy' \subseteq 1..(next' - 1)
    BY <1>1, <1>4 DEF Counted
  <2> QED BY <1>1, <2>1, <2>2, <2>3, IoUringAssumption DEF Counted
<1>14. Fits'
  <2>1. \A e \in Asked' : ReadFits(e)'
    BY <1>1, <1>2, <1>8, OthersFit
  <2>2. \A c \in Answers' : AnswerFits(c)'
    BY <1>1, <1>2, <1>8, OthersFit
  <2>3. \A j \in Again' : buffer'[j] = "held" /\ filled'[j] < len'[j]
    BY <1>1, <1>2, <1>3, <1>8, OthersFit
  <2> QED BY <2>1, <2>2, <2>3 DEF Fits
<1>15. Filled'
  <2>1. n <= len[i] /\ n <= size[i]
    BY <1>2, Types DEF Smaller
  <2>2. ~(i >= next)
    BY <1>2, <1>6, Types
  <2> QED BY <1>1, <1>5, <1>8, <1>9, <2>1, <2>2 DEF Filled
<1>16. Handed'
  <2>1. ~(i >= next)
    BY <1>2, <1>6, Types
  <2> QED BY <1>1, <1>4, <1>5, <1>7, <2>1 DEF Handed
<1>17. Phases'
  BY DEF Phases
<1> QED BY <1>10, <1>11, <1>12, <1>13, <1>14, <1>15, <1>16, <1>17

LEMMA EofStep ==
  ASSUME Loop, CompletionEof, pc' = "drain"
  PROVE  Loop'
<1> DEFINE i == Head(completions).job
<1>1. /\ pc = "drain" /\ completions # <<>> /\ completions' = Tail(completions)
      /\ UNCHANGED <<files, next, ring, resubmit>> /\ UNCHANGED <<len, ring>>
      /\ Head(completions).res = 0
  BY DEF CompletionEof, files
<1>2. i \in Jobs /\ AnswerFits(Head(completions))
  BY <1>1, FirstCompletion
<1>3. /\ filled[i] \in Nat /\ len[i] \in Nat /\ size[i] \in Nat
      /\ filled[i] < len[i] /\ size[i] <= filled[i] /\ filled[i] <= size[i]
  BY <1>1, <1>2, Types DEF Loop, AnswerFits, Filled
<1>4. filled[i] = Smaller(len[i], size[i])
  BY <1>3 DEF Smaller
<1>5. /\ filled' = [filled EXCEPT ![i] = filled[i]] /\ buffer' = [buffer EXCEPT ![i] = "taken"]
      /\ inflight' = inflight - 1 /\ done' = done + 1 /\ Accepts(i, filled[i])
  BY <1>1 DEF CompletionEof, Finish
<1> QED BY <1>1, <1>3, <1>4, <1>5, FinishStep

LEMMA FullStep ==
  ASSUME Loop, CompletionFull, pc' = "drain"
  PROVE  Loop'
<1> DEFINE c == Head(completions)
           i == Head(completions).job
           n == filled[i] + c.res
<1>1. /\ pc = "drain" /\ completions # <<>> /\ completions' = Tail(completions)
      /\ UNCHANGED <<files, next, ring, resubmit>> /\ UNCHANGED <<len, ring>>
      /\ c.res > 0 /\ n >= len[i]
  BY DEF CompletionFull, files
<1>2. i \in Jobs /\ AnswerFits(c) /\ c.res \in Int
  BY <1>1, FirstCompletion
<1>3. /\ filled[i] \in Nat /\ len[i] \in Nat /\ size[i] \in Nat /\ n \in Nat
      /\ n <= len[i] /\ n <= size[i]
  BY <1>1, <1>2, Types DEF Loop, AnswerFits
<1>4. n = Smaller(len[i], size[i])
  BY <1>1, <1>3 DEF Smaller
<1>5. /\ filled' = [filled EXCEPT ![i] = n] /\ buffer' = [buffer EXCEPT ![i] = "taken"]
      /\ inflight' = inflight - 1 /\ done' = done + 1 /\ Accepts(i, n)
  BY <1>1 DEF CompletionFull, Finish
<1> QED BY <1>1, <1>3, <1>4, <1>5, FinishStep

LEMMA ShortStep ==
  ASSUME Loop, CompletionShort
  PROVE  Loop'
<1> USE DEF Loop
<1>1. /\ len' = len /\ size' = size /\ next' = next /\ sq' = sq /\ kernel' = kernel /\ cq' = cq
      /\ completions # <<>> /\ completions' = Tail(completions)
      /\ UNCHANGED <<len, ring>> /\ files' = files
      /\ buffer' = buffer /\ inflight' = inflight /\ done' = done /\ emitted' = emitted
      /\ pc = "drain" /\ pc' = pc
  BY DEF CompletionShort, files, ring
<1>2. PICK c \in Answers : c = Head(completions)
  BY <1>1, FirstCompletion
<1>3. PICK i \in Jobs : i = c.job
  BY <1>1, <1>2, FirstCompletion
<1>4. /\ filled' = [filled EXCEPT ![i] = @ + c.res] /\ resubmit' = Append(resubmit, i)
      /\ c.res > 0 /\ filled[i] + c.res < len[i]
  BY <1>2, <1>3 DEF CompletionShort
<1>5. /\ i \in Busy /\ i \in InHand /\ AnswerFits(c) /\ c.res \in Int
      /\ i \notin InSq /\ i \notin InKernel /\ i \notin InCq /\ i \notin Again
      /\ InHand' = InHand \ {i}
      /\ completions' \in Seq(Answer) /\ OnceIn(completions')
      /\ InSq' = InSq /\ InKernel' = InKernel /\ InCq' = InCq
      /\ Asked' = Asked /\ Answers' \subseteq Answers
      /\ \A d \in Answers' : d.job # i
      /\ \A e \in Asked : e.job # i
  BY <1>1, <1>2, <1>3, FirstCompletion
<1>6. /\ resubmit' \in Seq(Jobs) /\ Again' = Again \cup {i}
      /\ \A j, k \in DOMAIN resubmit' : resubmit'[j] = resubmit'[k] => j = k
  <2>1. /\ resubmit \in Seq(Jobs) /\ \A k \in DOMAIN resubmit : resubmit[k] # i
        /\ \A j, k \in DOMAIN resubmit : resubmit[j] = resubmit[k] => j = k
    BY <1>5 DEF Typed, Again, Range, OnceEach
  <2>2. /\ resubmit' \in Seq(Jobs) /\ DOMAIN resubmit' = 1..(Len(resubmit) + 1)
        /\ DOMAIN resubmit = 1..Len(resubmit) /\ Len(resubmit) \in Nat
        /\ \A k \in 1..Len(resubmit) : resubmit'[k] = resubmit[k]
        /\ resubmit'[Len(resubmit) + 1] = i
    BY <1>4, <2>1
  <2>3. \A k \in DOMAIN resubmit' : k \in DOMAIN resubmit \/ k = Len(resubmit) + 1
    BY <2>2
  <2>4. Again' = Again \cup {i}
    BY <2>2, <2>3 DEF Again, Range
  <2>5. \A j, k \in DOMAIN resubmit' : resubmit'[j] = resubmit'[k] => j = k
    BY <2>1, <2>2, <2>3
  <2> QED BY <2>2, <2>4, <2>5
<1>7. Busy' = Busy
  BY <1>5, <1>6 DEF Busy
<1>8. Jobs' = Jobs /\ Entry' = Entry /\ Answer' = Answer
  BY <1>1 DEF Jobs, Entry, Answer
<1>9. \A j \in Jobs \ {i} : filled'[j] = filled[j] /\ buffer'[j] = buffer[j]
  BY <1>1, <1>4 DEF Typed
<1>10. filled'[i] = filled[i] + c.res /\ filled[i] \in Nat /\ filled[i] + c.res \in Nat
  <2>1. filled \in [Jobs -> Nat] /\ filled[i] \in Nat
    BY DEF Typed
  <2>2. filled'[i] = filled[i] + c.res
    BY <1>4, <2>1
  <2>3. filled[i] + c.res \in Nat
    BY <1>4, <1>5, <2>1
  <2> QED BY <2>1, <2>2, <2>3
<1>11. Typed'
  <2>1. filled' \in [Jobs -> Nat]
    BY <1>4, <1>10 DEF Typed
  <2> QED BY <1>1, <1>5, <1>6, <1>8, <2>1 DEF Typed
<1>12. OnceEach'
  BY <1>1, <1>5, <1>6 DEF OnceEach, OnceIn
<1>13. Apart'
  BY <1>5, <1>6 DEF Apart
<1>14. Counted'
  BY <1>1, <1>7 DEF Counted
<1>15. Fits'
  <2>1. \A e \in Asked' : ReadFits(e)'
    BY <1>1, <1>5, <1>9, OthersFit
  <2>2. \A d \in Answers' : AnswerFits(d)'
    BY <1>1, <1>5, <1>9, OthersFit
  <2>3. buffer'[i] = "held" /\ filled'[i] < len'[i]
    BY <1>1, <1>3, <1>4, <1>5, <1>10 DEF AnswerFits
  <2>4. \A j \in Again : buffer'[j] = "held" /\ filled'[j] < len'[j]
    BY <1>1, <1>5, <1>9, OthersFit
  <2> QED BY <1>6, <2>1, <2>2, <2>3, <2>4 DEF Fits
<1>16. Filled'
  <2>1. filled'[i] <= len[i] /\ filled'[i] <= size[i]
    BY <1>3, <1>4, <1>5, <1>10, Types DEF AnswerFits
  <2>2. ~(i >= next)
    BY <1>5, Types DEF Counted
  <2> QED BY <1>1, <1>8, <1>9, <2>1, <2>2 DEF Filled
<1>17. Handed'
  BY <1>1, <1>7, <1>8 DEF Handed
<1>18. Phases'
  BY <1>1 DEF Phases
<1> QED BY <1>11, <1>12, <1>13, <1>14, <1>15, <1>16, <1>17, <1>18

(* The reads that continue what came back short.                             *)
LEMMA Continuations ==
  ASSUME Loop
  PROVE  \E u \in Seq(Entry) :
           /\ u = [k \in DOMAIN resubmit |-> Sqe(resubmit[k], filled[resubmit[k]])]
           /\ OnceIn(u) /\ JobsOf(u) = Again
           /\ \A e \in Range(u) : ReadFits(e)
<1> USE DEF Loop
<1> DEFINE u == [k \in DOMAIN resubmit |-> Sqe(resubmit[k], filled[resubmit[k]])]
<1>1. /\ resubmit \in Seq(Jobs) /\ DOMAIN resubmit = 1..Len(resubmit) /\ Len(resubmit) \in Nat
      /\ \A k \in DOMAIN resubmit : resubmit[k] \in Again
      /\ \A i \in Again : \E k \in DOMAIN resubmit : i = resubmit[k]
  BY DEF Typed, Again, Range
<1>2. ASSUME NEW i \in Again
      PROVE  LET e == Sqe(i, filled[i]) IN
             e \in Entry /\ e.job = i /\ ReadFits(e)
  <2>1. /\ i \in Jobs /\ filled[i] \in Nat /\ len[i] \in Nat /\ filled[i] < len[i]
        /\ buffer[i] = "held"
    BY Types DEF Fits
  <2>2. PICK n \in Nat : n = Smaller(len[i] - filled[i], MaxRead) /\ n > 0 /\ filled[i] + n <= len[i]
    BY <2>1, IoUringAssumption DEF Smaller
  <2>3. Sqe(i, filled[i]) = [job |-> i, off |-> filled[i], n |-> n]
    BY <2>2 DEF Sqe
  <2>4. [job |-> i, off |-> filled[i], n |-> n] \in Entry
    BY <2>1 DEF Entry
  <2> QED BY <2>1, <2>2, <2>3, <2>4 DEF ReadFits
<1>3. /\ DOMAIN u = DOMAIN resubmit
      /\ \A k \in DOMAIN u : u[k] \in Entry /\ u[k].job = resubmit[k] /\ ReadFits(u[k])
  BY <1>1, <1>2
<1>4. u \in Seq(Entry)
  BY <1>1, <1>3
<1> HIDE DEF u
<1>5. OnceIn(u)
  BY <1>3 DEF OnceIn, OnceEach
<1>6. JobsOf(u) = Again
  BY <1>1, <1>3 DEF JobsOf
<1>7. \A e \in Range(u) : ReadFits(e)
  BY <1>3 DEF Range
<1> QED BY <1>4, <1>5, <1>6, <1>7 DEF u

LEMMA DrainStep ==
  ASSUME Loop, DrainEnds, pc' = "topup"
  PROVE  Loop'
<1> USE DEF Loop
<1>1. /\ resubmit' = <<>> /\ completions = <<>> /\ completions' = completions
      /\ kernel' = kernel /\ cq' = cq /\ buffer' = buffer
      /\ UNCHANGED <<files, filled, buffer>>
      /\ UNCHANGED <<files, filled, next, inflight, done, emitted>>
  BY DEF DrainEnds
<1>2. PICK u \in Seq(Entry) :
        /\ u = [k \in DOMAIN resubmit |-> Sqe(resubmit[k], filled[resubmit[k]])]
        /\ OnceIn(u) /\ JobsOf(u) = Again /\ \A e \in Range(u) : ReadFits(e)
  BY Continuations
<1>3. sq' = sq \o u
  BY <1>2 DEF DrainEnds
<1>4. /\ sq' \in Seq(Entry) /\ OnceIn(sq') /\ InSq' = InSq \cup Again
      /\ Range(sq') = Range(sq) \cup Range(u)
  <2>1. sq \in Seq(Entry) /\ OnceIn(sq) /\ JobsOf(sq) \cap JobsOf(u) = {} /\ InSq = JobsOf(sq)
    BY <1>2 DEF Typed, OnceEach, Apart, InSq
  <2>2. /\ sq \o u \in Seq(Entry) /\ OnceIn(sq \o u) /\ JobsOf(sq \o u) = JobsOf(sq) \cup JobsOf(u)
        /\ Range(sq \o u) = Range(sq) \cup Range(u)
    BY <1>2, <2>1, JobsConcat
  <2> QED BY <1>2, <1>3, <2>1, <2>2 DEF InSq
<1>5. Again' = {}
  BY <1>1 DEF Again, Range
<1>6. InKernel' = InKernel /\ InCq' = InCq /\ InHand' = InHand /\ Answers' = Answers
  BY <1>1 DEF InKernel, InCq, InHand, Answers
<1>7. Asked' = Asked \cup Range(u)
  BY <1>1, <1>4 DEF Asked
<1>8. Busy' = Busy
  BY <1>4, <1>5, <1>6 DEF Busy
<1>9. Jobs' = Jobs /\ Entry' = Entry /\ Answer' = Answer /\ Counted' /\ Filled' /\ Handed'
  BY <1>1, <1>8, MovedOn
<1>10. Typed'
  <2>1. resubmit' \in Seq(Jobs)
    BY <1>1
  <2> QED BY <1>1, <1>4, <1>9, <2>1 DEF Typed, files
<1>11. OnceEach'
  BY <1>1, <1>4 DEF OnceEach, OnceIn
<1>12. Apart'
  BY <1>4, <1>5, <1>6 DEF Apart
<1>13. Fits'
  <2>1. \A e \in Asked' : ReadFits(e)'
    BY <1>1, <1>2, <1>7, StillFits DEF Fits
  <2>2. \A c \in Answers' : AnswerFits(c)'
    BY <1>1, <1>6, StillFits DEF Fits
  <2> QED BY <1>5, <2>1, <2>2 DEF Fits
<1>14. Phases'
  BY <1>1 DEF Phases
<1> QED BY <1>9, <1>10, <1>11, <1>12, <1>13, <1>14

-----------------------------------------------------------------------------
(* The two ways to Ok: no job is left.                                       *)

LEMMA NobodyBusy ==
  ASSUME Loop, next > Len(len), Busy = {}
  PROVE  \A i \in Jobs : emitted[i] = <<Smaller(len[i], size[i])>>
<1>1. \A i \in Jobs : i < next
  BY Types DEF Loop
<1> QED BY <1>1 DEF Loop, Handed

LEMMA NothingOutstandingStep ==
  ASSUME Loop, NothingOutstanding
  PROVE  OkMeansAllEmitted'
<1>1. IsFiniteSet(Busy) /\ Cardinality(Busy) = 0
  BY BusyFinite DEF Loop, Counted, NothingOutstanding
<1>2. Busy = {}
  BY <1>1, FS_EmptySet
<1>3. \A i \in Jobs : emitted[i] = <<Smaller(len[i], size[i])>>
  BY <1>2, NobodyBusy DEF NothingOutstanding
<1> QED BY <1>3 DEF OkMeansAllEmitted, NothingOutstanding, files, Jobs

LEMMA LoopEnds ==
  ASSUME Loop, DrainEnds, pc' = "ok"
  PROVE  OkMeansAllEmitted'
<1>1. done >= Len(len)
  <2>1. ~(done < Len(len))
    BY DEF DrainEnds
  <2>2. done \in Nat /\ Len(len) \in Nat
    BY BusyFinite, Types DEF Loop
  <2> QED BY <2>1, <2>2
<1>2. /\ IsFiniteSet(Busy) /\ inflight \in Nat /\ next \in Nat /\ next <= Len(len) + 1
      /\ Len(len) \in Nat /\ done = next - 1 - inflight
  BY BusyFinite, Types DEF Loop, Counted
<1>3. inflight = 0 /\ next > Len(len)
  BY <1>1, <1>2
<1>4. Busy = {}
  BY <1>2, <1>3, FS_EmptySet DEF Loop, Counted
<1>5. \A i \in Jobs : emitted[i] = <<Smaller(len[i], size[i])>>
  BY <1>3, <1>4, NobodyBusy
<1> QED BY <1>5 DEF OkMeansAllEmitted, DrainEnds, files, Jobs

-----------------------------------------------------------------------------
(* A step of the loop either stays in the loop or returns, and one that      *)
(* returns Ok does so with everything handed over.                           *)
LEMMA ReaderStepKeeps ==
  ASSUME BatchIInv, ReaderStep
  PROVE  /\ Running' => Loop'
         /\ pc' = "ok" => OkMeansAllEmitted'
         /\ pc' # "idle" /\ Loop
<1>1. Running /\ Loop
  BY DEF BatchIInv, Running, ReaderStep, TopUpEmptyFile, TopUpRead, NothingOutstanding, SubmitAndWait,
         ReapCompletions, CompletionError, CompletionEof, CompletionFull, CompletionShort, DrainEnds
<1>2. CASE TopUpEmptyFile
  BY <1>1, <1>2, TopUpEmptyStep DEF TopUpEmptyFile, Running
<1>3. CASE TopUpRead
  BY <1>1, <1>3, TopUpReadStep DEF TopUpRead
<1>4. CASE NothingOutstanding
  BY <1>1, <1>4, NothingOutstandingStep DEF NothingOutstanding, Running
<1>5. CASE SubmitAndWait
  BY <1>1, <1>5, SubmitStep DEF SubmitAndWait
<1>6. CASE ReapCompletions
  BY <1>1, <1>6, ReapStep DEF ReapCompletions
<1>7. CASE CompletionError
  BY <1>1, <1>7 DEF CompletionError, Running
<1>8. CASE CompletionEof
  BY <1>1, <1>8, EofStep DEF CompletionEof, Finish, Running
<1>9. CASE CompletionFull
  BY <1>1, <1>9, FullStep DEF CompletionFull, Finish, Running
<1>10. CASE CompletionShort
  BY <1>1, <1>10, ShortStep DEF CompletionShort
<1>11. CASE DrainEnds
  BY <1>1, <1>11, DrainStep, LoopEnds DEF DrainEnds, Running
<1> QED BY <1>2, <1>3, <1>4, <1>5, <1>6, <1>7, <1>8, <1>9, <1>10, <1>11 DEF ReaderStep

LEMMA BatchStepKeeps ==
  ASSUME BatchIInv, BatchNext
  PROVE  BatchIInv'
<1>1. CASE \E lens \in Seq(Nat) : \E sizes \in [DOMAIN lens -> Nat] : Call(lens, sizes)
  BY <1>1, CallStep
<1>2. CASE ReaderStep
  BY <1>2, ReaderStepKeeps DEF BatchIInv, OkMeansAllEmitted
<1>3. ASSUME NEW e \in kernel, KernelReads(e)
      PROVE  BatchIInv'
  <2>1. /\ pc' = pc /\ len' = len /\ size' = size /\ emitted' = emitted /\ pc # "idle"
    BY <1>3 DEF KernelReads, BatchIInv, files
  <2> QED BY <1>3, <2>1, KernelReadsStep DEF BatchIInv, Running, OkMeansAllEmitted, Jobs
<1>4. ASSUME NEW e \in kernel, KernelFails(e)
      PROVE  BatchIInv'
  <2>1. /\ pc' = pc /\ len' = len /\ size' = size /\ emitted' = emitted /\ pc # "idle"
    BY <1>4 DEF KernelFails, BatchIInv, files
  <2> QED BY <1>4, <2>1, KernelFailsStep DEF BatchIInv, Running, OkMeansAllEmitted, Jobs
<1>5. CASE WaitFails
  BY <1>5 DEF WaitFails, BatchIInv, Running, OkMeansAllEmitted
<1> QED BY <1>1, <1>2, <1>3, <1>4, <1>5 DEF BatchNext, KernelStep, Fault

LEMMA BatchStutters ==
  ASSUME BatchIInv, UNCHANGED vars
  PROVE  BatchIInv'
<1>1. /\ UNCHANGED <<ring, completions, resubmit>> /\ UNCHANGED <<files, filled, buffer>>
      /\ UNCHANGED <<files, filled, next, inflight, done, emitted>>
      /\ pc' = pc /\ len' = len /\ size' = size /\ emitted' = emitted
      /\ sq' = sq /\ kernel' = kernel /\ cq' = cq
  BY DEF vars, files, ring
<1>2. ASSUME Loop
      PROVE  Loop'
  <2>1. OnceEach' /\ Apart' /\ Busy' = Busy /\ Asked' = Asked /\ Answers' = Answers /\ Again' = Again
    BY <1>1, <1>2, SamePlaces DEF Loop
  <2>2. Jobs' = Jobs /\ Entry' = Entry /\ Answer' = Answer /\ Counted' /\ Filled' /\ Handed'
    BY <1>1, <1>2, <2>1, MovedOn
  <2>3. Typed'
    BY <1>1, <1>2, <2>2 DEF Loop, Typed
  <2>4. Fits'
    BY <1>1, <1>2, <2>1, StillFits DEF Loop, Fits
  <2>5. Phases'
    BY <1>1, <1>2 DEF Loop, Phases
  <2> QED BY <2>1, <2>2, <2>3, <2>4, <2>5 DEF Loop
<1> QED BY <1>1, <1>2 DEF BatchIInv, Running, OkMeansAllEmitted, Jobs

-----------------------------------------------------------------------------
(* What the invariant means.                                                 *)

LEMMA UnderwayIsBusy ==
  ASSUME Loop, NEW i
  PROVE  Underway(i) = IF i \in Busy THEN 1 ELSE 0
<1> USE DEF Loop
<1>1. Cardinality({k \in DOMAIN sq : sq[k].job = i}) = IF i \in InSq THEN 1 ELSE 0
  BY TimesIn DEF Typed, OnceEach, InSq
<1>2. Cardinality({k \in DOMAIN cq : cq[k].job = i}) = IF i \in InCq THEN 1 ELSE 0
  BY TimesIn DEF Typed, OnceEach, InCq
<1>3. Cardinality({k \in DOMAIN completions : completions[k].job = i}) = IF i \in InHand THEN 1 ELSE 0
  BY TimesIn DEF Typed, OnceEach, InHand
<1>4. Cardinality({e \in kernel : e.job = i}) = IF i \in InKernel THEN 1 ELSE 0
  <2>1. CASE i \in InKernel
    <3>1. PICK e \in kernel : e.job = i
      BY <2>1 DEF InKernel
    <3>2. {d \in kernel : d.job = i} = {e}
      BY <3>1 DEF OnceEach
    <3> QED BY <2>1, <3>2, FS_Singleton
  <2>2. CASE i \notin InKernel
    <3>1. {d \in kernel : d.job = i} = {}
      BY <2>2 DEF InKernel
    <3> QED BY <2>2, <3>1, FS_EmptySet
  <2> QED BY <2>1, <2>2
<1>5. Cardinality({k \in DOMAIN resubmit : resubmit[k] = i}) = IF i \in Again THEN 1 ELSE 0
  <2>1. CASE i \in Again
    <3>1. PICK k \in DOMAIN resubmit : resubmit[k] = i
      BY <2>1 DEF Again, Range
    <3>2. {j \in DOMAIN resubmit : resubmit[j] = i} = {k}
      BY <3>1 DEF OnceEach
    <3> QED BY <2>1, <3>2, FS_Singleton
  <2>2. CASE i \notin Again
    <3>1. {j \in DOMAIN resubmit : resubmit[j] = i} = {}
      BY <2>2 DEF Again, Range
    <3> QED BY <2>2, <3>1, FS_EmptySet
  <2> QED BY <2>1, <2>2
<1>6. /\ i \in InSq => i \notin InKernel /\ i \notin InCq /\ i \notin InHand /\ i \notin Again
      /\ i \in InKernel => i \notin InCq /\ i \notin InHand /\ i \notin Again
      /\ i \in InCq => i \notin InHand /\ i \notin Again
      /\ i \in InHand => i \notin Again
      /\ i \in Busy <=> i \in InSq \/ i \in InKernel \/ i \in InCq \/ i \in InHand \/ i \in Again
  BY DEF Apart, Busy
<1> QED BY <1>1, <1>2, <1>3, <1>4, <1>5, <1>6 DEF Underway

LEMMA LoopCounts ==
  ASSUME Loop
  PROVE  CountersAgree
<1> USE DEF Loop
<1>1. /\ IsFiniteSet(Busy) /\ Busy \subseteq 1..(next - 1) /\ inflight = Cardinality(Busy)
      /\ done = next - 1 - inflight /\ inflight <= Depth /\ inflight \in Nat
      /\ next \in Nat /\ next >= 1 /\ next <= Len(len) + 1 /\ Len(len) \in Nat /\ Jobs = 1..Len(len)
  BY BusyFinite, Types DEF Counted
<1>2. {i \in Jobs : Underway(i) = 1} = Busy
  <2>1. Busy \subseteq Jobs
    BY <1>1
  <2>2. \A i \in Jobs : Underway(i) = 1 <=> i \in Busy
    BY UnderwayIsBusy
  <2> QED BY <2>1, <2>2
<1>3. {i \in Jobs : i < next /\ Underway(i) = 0} = (1..(next - 1)) \ Busy
  BY <1>1, UnderwayIsBusy
<1>4. done = Cardinality((1..(next - 1)) \ Busy)
  <2> DEFINE Rest == (1..(next - 1)) \ Busy
  <2>1. IsFiniteSet(1..(next - 1)) /\ Cardinality(1..(next - 1)) = next - 1
    BY <1>1, FS_Interval
  <2>2. IsFiniteSet(Rest)
    BY <2>1, FS_Subset
  <2>3. Rest \cup Busy = 1..(next - 1) /\ Rest \cap Busy = {}
    BY <1>1
  <2>4. Cardinality(Rest \cup Busy) = Cardinality(Rest) + Cardinality(Busy) - Cardinality(Rest \cap Busy)
    BY <1>1, <2>2, FS_Union
  <2>5. Cardinality(Rest) \in Nat
    BY <2>2, FS_CardinalityType
  <2>6. Cardinality(Rest \cap Busy) = 0
    BY <2>3, FS_EmptySet
  <2>7. Cardinality(Rest \cup Busy) = next - 1
    BY <2>1, <2>3
  <2> HIDE DEF Rest
  <2>8. done = Cardinality(Rest)
    BY <1>1, <2>4, <2>5, <2>6, <2>7
  <2> QED BY <2>8 DEF Rest
<1>5. \A i \in Jobs : Underway(i) <= 1 /\ (i >= next => Underway(i) = 0)
  BY <1>1, UnderwayIsBusy
<1>6. Len(sq) <= Depth
  <2>1. sq \in Seq(Entry) /\ DOMAIN sq = 1..Len(sq) /\ Len(sq) \in Nat
    BY DEF Typed
  <2> DEFINE f == [k \in 1..Len(sq) |-> sq[k].job]
  <2>2. f \in Injection(1..Len(sq), Busy)
    <3>1. \A k \in 1..Len(sq) : sq[k].job \in Busy
      BY <2>1 DEF InSq, JobsOf, Busy
    <3>2. \A j, k \in 1..Len(sq) : f[j] = f[k] => j = k
      BY <2>1 DEF OnceEach, OnceIn
    <3> QED BY <3>1, <3>2 DEF Injection, IsInjective
  <2>3. Cardinality(1..Len(sq)) <= Cardinality(Busy)
    BY <1>1, <2>2, FS_Injection
  <2>4. Cardinality(1..Len(sq)) = Len(sq)
    BY <2>1, FS_Interval
  <2> QED BY <1>1, <2>1, <2>3, <2>4, IoUringAssumption
<1> QED BY <1>1, <1>2, <1>3, <1>4, <1>5, <1>6 DEF CountersAgree

LEMMA LoopStaysInside ==
  ASSUME Loop
  PROVE  ReadsStayInBuffer
BY DEF Loop, Fits, Asked, ReadFits, ReadsStayInBuffer

LEMMA BatchMeans ==
  ASSUME BatchIInv
  PROVE  CountersAgree /\ ReadsStayInBuffer /\ OkMeansAllEmitted
<1>1. CASE Running
  BY <1>1, LoopCounts, LoopStaysInside DEF BatchIInv
<1>2. CASE ~Running
  BY <1>2 DEF BatchIInv, CountersAgree, ReadsStayInBuffer
<1> QED BY <1>1, <1>2

-----------------------------------------------------------------------------
LEMMA BatchInit ==
  ASSUME Init
  PROVE  BatchIInv
BY DEF Init, BatchIInv, Running, OkMeansAllEmitted

LEMMA NextIsBatchNext ==
  ASSUME Next
  PROVE  BatchNext \/ UNCHANGED vars
<1>1. ASSUME NEW n \in 0..MaxJobs, NEW lens \in [1..n -> Lens],
             NEW sizes \in [1..n -> UNION {SizesNow(l) : l \in Lens}], Call(lens, sizes)
      PROVE  BatchNext
  <2>1. lens \in Seq(Nat) /\ DOMAIN lens = 1..n
    <3>1. n \in Nat /\ Lens \subseteq Nat
      BY IoUringAssumption
    <3>2. lens \in [1..n -> Lens]
      OBVIOUS
    <3>3. lens \in [1..n -> Nat]
      BY <3>1, <3>2
    <3> QED BY <3>1, <3>3
  <2>2. UNION {SizesNow(l) : l \in Lens} \subseteq Nat
    BY IoUringAssumption DEF SizesNow
  <2>3. sizes \in [DOMAIN lens -> Nat]
    BY <2>1, <2>2
  <2> QED BY <1>1, <2>1, <2>3 DEF BatchNext
<1> QED BY <1>1 DEF Next, CallOnce, BatchNext, Stopped

(* The two counters of read_batch, the places a read can be and the bounds   *)
(* of the reads fit together at every step.                                  *)
THEOREM BatchInvariant == Spec => []BatchIInv
<1>1. BatchIInv /\ [Next]_vars => BatchIInv'
  BY NextIsBatchNext, BatchStepKeeps, BatchStutters
<1> QED BY <1>1, BatchInit, PTL DEF Spec

(* `in_flight` and `done` are the jobs under way and finished, and the       *)
(* submission queue never has more entries than it has room for.             *)
THEOREM CountersAreExact == Spec => []CountersAgree
BY BatchInvariant, BatchMeans, PTL

(* No read is asked for that would write outside its file's buffer.          *)
THEOREM ReadsAreInside == Spec => []ReadsStayInBuffer
BY BatchInvariant, BatchMeans, PTL

(* Ok without a refusal: everything was emitted once, as long as it is.      *)
THEOREM OkIsComplete == Spec => []OkMeansAllEmitted
BY BatchInvariant, BatchMeans, PTL

-----------------------------------------------------------------------------
(* The window.                                                               *)

(* What is sent under an index is that file's, ...                           *)
Sound(m) ==
  /\ m.of = m.index
  /\ m.n \in {now[m.index]}
             \cup (IF useRing THEN {Smaller(listed[m.index], now[m.index])} ELSE {})

SentSound == (\E S : sent \in Seq(S)) /\ \A m \in Range(sent) : Sound(m)

(* ... because a job keeps its file and its place together.                  *)
JobSound(j) == j.file \in opened /\ j.file = order[j.entry]

JobsSound ==
  /\ \E S : jobs \in Seq(S)
  /\ \A j \in Range(jobs) : JobSound(j)

Inputs ==
  /\ listed \in [Files -> Nat]
  /\ now \in [Files -> Nat \cup {Missing}]
  /\ opened \subseteq {f \in Files : now[f] # Missing}

Called ==
  /\ stage = "probe" => jobs = <<>>
  /\ stage \in {"collect", "batch"} => useRing
  /\ stage = "batch" =>
       /\ Jobs = DOMAIN jobs
       /\ \A i \in Jobs : len[i] = listed[jobs[i].file] /\ size[i] = now[jobs[i].file]

WindowIInv == BatchIInv /\ Inputs /\ JobsSound /\ SentSound /\ Called

-----------------------------------------------------------------------------
LEMMA AppendAny ==
  ASSUME NEW s, \E S : s \in Seq(S), NEW x
  PROVE  /\ \E S : Append(s, x) \in Seq(S)
         /\ Range(Append(s, x)) = Range(s) \cup {x}
         /\ Append(s, x) # <<>>
<1>1. PICK S : s \in Seq(S)
  OBVIOUS
<1> DEFINE U == S \cup {x}
           t == Append(s, x)
<1>2. s \in Seq(U) /\ x \in U
  BY <1>1, SeqMonotonic
<1> HIDE DEF U
<1>3. /\ t \in Seq(U) /\ DOMAIN t = 1..(Len(s) + 1) /\ DOMAIN s = 1..Len(s)
      /\ \A k \in 1..Len(s) : t[k] = s[k]
      /\ t[Len(s) + 1] = x /\ Len(s) \in Nat /\ t # <<>>
  BY <1>2
<1> HIDE DEF t
<1>4. Range(t) = Range(s) \cup {x}
  BY <1>3 DEF Range
<1> QED BY <1>3, <1>4 DEF t

LEMMA ConcatAny ==
  ASSUME NEW s, \E S : s \in Seq(S), NEW T, NEW u \in Seq(T)
  PROVE  /\ \E S : s \o u \in Seq(S)
         /\ Range(s \o u) \subseteq Range(s) \cup T
<1>1. PICK S : s \in Seq(S)
  OBVIOUS
<1> DEFINE U == S \cup T
<1>2. s \in Seq(U) /\ u \in Seq(U)
  BY <1>1, SeqMonotonic
<1> HIDE DEF U
<1>3. s \o u \in Seq(U) /\ Range(s \o u) = Range(s) \cup Range(u)
  BY <1>2, ConcatProperties, RangeConcatenation
<1>4. Range(u) \subseteq T
  BY RangeOfSeq
<1> QED BY <1>3, <1>4

(* A set with at most one element, as a sequence.                            *)
LEMMA SetToSeqOfFew ==
  ASSUME NEW T, NEW x, T \subseteq {x}
  PROVE  SetToSeq(T) \in Seq(T)
<1>1. IsFiniteSet(T)
  BY FS_Singleton, FS_Subset
<1>2. Cardinality(T) \in Nat /\ ExistsBijection(1..Cardinality(T), T)
  BY <1>1, FS_CardinalityType
<1>3. \E f \in [1..Cardinality(T) -> T] : IsInjective(f)
  BY <1>2 DEF ExistsBijection, Bijection, Injection, IsInjective
<1>4. SetToSeq(T) \in [1..Cardinality(T) -> T]
  BY <1>3 DEF SetToSeq
<1> QED BY <1>2, <1>4

(* A step of the loop hands over one file at most, and stays in the loop     *)
(* when it does.                                                             *)
LEMMA OneAtATime ==
  ASSUME ReaderStep
  PROVE  \/ emitted' = emitted
         \/ /\ Running'
            /\ \E j, n : emitted' = [emitted EXCEPT ![j] = Append(@, n)]
<1>1. CASE TopUpEmptyFile
  BY <1>1 DEF TopUpEmptyFile, Accepts, Refuses, Running
<1>2. CASE CompletionEof
  BY <1>2 DEF CompletionEof, Finish, Accepts, Refuses, Running
<1>3. CASE CompletionFull
  BY <1>3 DEF CompletionFull, Finish, Accepts, Refuses, Running
<1>4. CASE TopUpRead \/ NothingOutstanding \/ SubmitAndWait \/ ReapCompletions
           \/ CompletionError \/ CompletionShort \/ DrainEnds
  BY <1>4 DEF TopUpRead, NothingOutstanding, SubmitAndWait, ReapCompletions, CompletionError,
              CompletionShort, DrainEnds
<1> QED BY <1>1, <1>2, <1>3, <1>4 DEF ReaderStep

AtMostOnce ==
  \A i \in Jobs : emitted[i] = <<>> \/ emitted[i] = <<Smaller(len[i], size[i])>>

LEMMA HandedOnce == Loop => AtMostOnce
<1>1. Loop => \A i \in Jobs : i >= next \/ i < next
  BY Types DEF Loop
<1> QED BY <1>1 DEF Loop, Handed, AtMostOnce

LEMMA HandsOverItsLength ==
  ASSUME BatchIInv, ReaderStep
  PROVE  \E j : \A i \in Jobs :
           emitted'[i] # emitted[i] => i = j /\ Last(emitted'[i]) = Smaller(len[i], size[i])
<1>1. CASE emitted' = emitted
  BY <1>1
<1>2. CASE Running' /\ \E j, n : emitted' = [emitted EXCEPT ![j] = Append(@, n)]
  <2>1. PICK j, n : emitted' = [emitted EXCEPT ![j] = Append(@, n)]
    BY <1>2
  <2>2. Loop /\ Loop'
    BY <1>2, ReaderStepKeeps
  <2>3. len' = len /\ size' = size /\ Jobs' = Jobs
    BY DEF ReaderStep, TopUpEmptyFile, TopUpRead, NothingOutstanding, SubmitAndWait, ReapCompletions,
           CompletionError, CompletionEof, CompletionFull, CompletionShort, DrainEnds, files, Jobs
  <2>4. ASSUME NEW i \in Jobs, emitted'[i] # emitted[i]
        PROVE  i = j /\ Last(emitted'[i]) = Smaller(len[i], size[i])
    <3>1. emitted \in [Jobs -> Seq(Nat)]
      BY <2>2 DEF Loop, Typed
    <3>2. i = j /\ emitted'[i] = Append(emitted[i], n)
      BY <2>1, <2>4, <3>1
    <3>3. emitted'[i] # <<>>
      BY <3>1, <3>2, AppendAny
    <3>4. emitted'[i] = <<Smaller(len[i], size[i])>>
      <4>1. (Loop => AtMostOnce)'
        BY HandedOnce, PTL
      <4> QED BY <2>2, <2>3, <3>3, <4>1 DEF AtMostOnce
    <3> QED BY <3>2, <3>4 DEF Last
  <2> QED BY <2>4
<1> QED BY <1>1, <1>2, OneAtATime

-----------------------------------------------------------------------------
LEMMA WindowStarts ==
  ASSUME WindowInit
  PROVE  WindowIInv
<1>1. BatchIInv
  BY BatchInit DEF WindowInit
<1>2. Inputs
  <2>1. UNION {SizesNow(n) : n \in Lens} \subseteq Nat /\ Lens \subseteq Nat
    BY IoUringAssumption DEF SizesNow
  <2>2. listed \in [Files -> Nat]
    BY <2>1 DEF WindowInit
  <2>3. now \in [Files -> Nat \cup {Missing}]
    BY <2>1 DEF WindowInit
  <2> QED BY <2>2, <2>3 DEF WindowInit, Inputs
<1>3. JobsSound /\ SentSound
  <2>1. jobs = <<>> /\ sent = <<>> /\ <<>> \in Seq({})
    BY DEF WindowInit
  <2>2. Range(jobs) = {} /\ Range(sent) = {}
    BY <2>1 DEF Range
  <2> QED BY <2>1, <2>2 DEF JobsSound, SentSound
<1>4. Called
  BY DEF WindowInit, Called
<1> QED BY <1>1, <1>2, <1>3, <1>4 DEF WindowIInv

(* What a blocking read sends is all there is of the file at its place.      *)
LEMMA WholeIsSound ==
  ASSUME SentSound, NEW then, ReadsWhole(order[at], then), UNCHANGED <<useRing, listed, now>>
  PROVE  SentSound' /\ stage' \in {then, "closed", "error"}
<1>1. PICK m : m = Item(order[at], order[at], now[order[at]])
  OBVIOUS
<1>2. m.index = order[at] /\ m.of = order[at] /\ m.n = now[order[at]]
  BY <1>1 DEF Item
<1>3. Sound(m)'
  BY <1>2 DEF Sound
<1>4. \A l \in Range(sent) : Sound(l)'
  BY DEF SentSound, Sound
<1>5. (sent' = Append(sent, m) \/ sent' = sent) /\ stage' \in {then, "closed", "error"}
  BY <1>1 DEF ReadsWhole, Send
<1>6. CASE sent' = sent
  BY <1>4, <1>5, <1>6 DEF SentSound
<1>7. CASE sent' = Append(sent, m)
  BY <1>3, <1>4, <1>5, <1>7, AppendAny DEF SentSound
<1> QED BY <1>5, <1>6, <1>7

LEMMA SameWindow ==
  ASSUME UNCHANGED <<useRing, listed, now, opened, order, jobs>>
  PROVE  /\ Inputs => Inputs'
         /\ JobsSound => JobsSound'
         /\ sent' = sent /\ SentSound => SentSound'
  BY DEF Inputs, JobsSound, JobSound, SentSound, Sound

LEMMA ProbeKeeps ==
  ASSUME WindowIInv, Probe
  PROVE  WindowIInv'
<1> USE DEF WindowIInv
<1>1. /\ UNCHANGED vars /\ jobs = <<>> /\ jobs' = jobs /\ sent' = sent /\ useRing' = useRing
      /\ listed' = listed /\ now' = now
      /\ stage' = IF useRing THEN "collect" ELSE "blocking"
      /\ opened' \subseteq {f \in Files : now[f] # Missing}
  BY DEF Probe, Called
<1>2. BatchIInv'
  BY <1>1, BatchStutters
<1>3. Inputs'
  BY <1>1 DEF Inputs
<1>4. JobsSound'
  <2>1. Range(jobs') = {}
    BY <1>1 DEF Range
  <2> QED BY <1>1, <2>1 DEF JobsSound
<1>5. SentSound'
  BY <1>1 DEF SentSound, Sound
<1>6. Called'
  BY <1>1 DEF Called
<1> QED BY <1>2, <1>3, <1>4, <1>5, <1>6

LEMMA CollectKeeps ==
  ASSUME WindowIInv, CollectJob
  PROVE  WindowIInv'
<1> USE DEF WindowIInv
<1>1. /\ UNCHANGED vars /\ sent' = sent /\ useRing' = useRing /\ listed' = listed /\ now' = now
      /\ opened' = opened /\ order' = order /\ stage' = stage /\ stage = "collect"
      /\ order[at] \in opened
  BY DEF CollectJob
<1>2. PICK j : j = [file |-> order[at], entry |-> at]
  OBVIOUS
<1>3. jobs' = Append(jobs, j) /\ j.file = order[at] /\ j.entry = at
  BY <1>2 DEF CollectJob
<1>4. BatchIInv'
  BY <1>1, BatchStutters
<1>5. Inputs' /\ SentSound'
  BY <1>1 DEF Inputs, SentSound, Sound
<1>6. JobsSound'
  <2>1. /\ \E S : jobs' \in Seq(S)
        /\ Range(jobs') = Range(jobs) \cup {j}
    BY <1>3, AppendAny DEF JobsSound
  <2>2. JobSound(j)' /\ \A i \in Range(jobs) : JobSound(i)'
    BY <1>1, <1>3 DEF JobsSound, JobSound
  <2> QED BY <2>1, <2>2 DEF JobsSound
<1>7. Called'
  BY <1>1 DEF Called
<1> QED BY <1>4, <1>5, <1>6, <1>7

LEMMA ReadsKeep ==
  ASSUME WindowIInv, CollectUnopened \/ BlockingReads
  PROVE  WindowIInv'
<1> USE DEF WindowIInv
<1>1. /\ UNCHANGED vars /\ jobs' = jobs /\ useRing' = useRing /\ listed' = listed /\ now' = now
      /\ opened' = opened /\ order' = order /\ stage \in {"collect", "blocking"}
      /\ ReadsWhole(order[at], stage)
  BY DEF CollectUnopened, FallBackToPath, BlockingReads
<1>2. SentSound' /\ stage' \in {stage, "closed", "error"}
  BY <1>1, WholeIsSound
<1>3. BatchIInv'
  BY <1>1, BatchStutters
<1>4. Inputs' /\ JobsSound'
  BY <1>1, SameWindow
<1>5. Called'
  BY <1>1, <1>2 DEF Called
<1> QED BY <1>2, <1>3, <1>4, <1>5

LEMMA StartKeeps ==
  ASSUME WindowIInv, StartBatch
  PROVE  WindowIInv'
<1> USE DEF WindowIInv
<1>1. /\ useRing' = useRing /\ listed' = listed /\ now' = now /\ opened' = opened /\ order' = order
      /\ jobs' = jobs /\ sent' = sent /\ stage' = "batch" /\ stage = "collect"
      /\ Call([i \in DOMAIN jobs |-> listed[jobs[i].file]], [i \in DOMAIN jobs |-> now[jobs[i].file]])
  BY DEF StartBatch
<1>2. PICK lens : lens = [i \in DOMAIN jobs |-> listed[jobs[i].file]]
  OBVIOUS
<1>3. PICK sizes : sizes = [i \in DOMAIN jobs |-> now[jobs[i].file]]
  OBVIOUS
<1>4. PICK n \in Nat : DOMAIN jobs = 1..n
  BY DEF JobsSound
<1>5. \A i \in DOMAIN jobs : listed[jobs[i].file] \in Nat /\ now[jobs[i].file] \in Nat
  <2>1. \A i \in DOMAIN jobs : jobs[i] \in Range(jobs)
    BY DEF Range
  <2>2. \A i \in DOMAIN jobs : jobs[i].file \in Files /\ now[jobs[i].file] # Missing
    BY <2>1 DEF JobsSound, JobSound, Inputs
  <2> QED BY <2>2 DEF Inputs
<1>6. lens \in Seq(Nat) /\ DOMAIN lens = DOMAIN jobs /\ sizes \in [DOMAIN lens -> Nat]
  <2>1. lens \in [1..n -> Nat] /\ sizes \in [1..n -> Nat]
    BY <1>2, <1>3, <1>4, <1>5
  <2> QED BY <1>4, <2>1
<1>7. Call(lens, sizes)
  BY <1>1, <1>2, <1>3
<1>8. BatchIInv'
  BY <1>6, <1>7, CallStep
<1>9. Inputs' /\ JobsSound' /\ SentSound'
  BY <1>1, SameWindow
<1>10. Called'
  <2>1. len' = lens /\ size' = sizes /\ Jobs' = DOMAIN jobs
    BY <1>6, <1>7 DEF Call, Jobs
  <2> QED BY <1>1, <1>2, <1>3, <2>1 DEF Called
<1> QED BY <1>8, <1>9, <1>10

LEMMA BatchKeeps ==
  ASSUME WindowIInv, BatchStep
  PROVE  WindowIInv'
<1> USE DEF WindowIInv
<1>1. /\ useRing' = useRing /\ listed' = listed /\ now' = now /\ opened' = opened /\ order' = order
      /\ jobs' = jobs /\ stage' = stage /\ stage = "batch" /\ ReaderStep /\ useRing
      /\ Jobs = DOMAIN jobs
      /\ \A i \in Jobs : len[i] = listed[jobs[i].file] /\ size[i] = now[jobs[i].file]
  BY DEF BatchStep, Called
<1>2. len' = len /\ size' = size
  BY <1>1 DEF ReaderStep, TopUpEmptyFile, TopUpRead, NothingOutstanding, SubmitAndWait, ReapCompletions,
              CompletionError, CompletionEof, CompletionFull, CompletionShort, DrainEnds, files
<1>3. BatchIInv'
  BY <1>1, BatchStepKeeps DEF BatchNext
<1>4. Inputs' /\ JobsSound'
  BY <1>1, SameWindow
<1>5. Called'
  BY <1>1, <1>2 DEF Called, Jobs
<1>6. SentSound'
  <2>1. PICK j : \A i \in Jobs :
                   emitted'[i] # emitted[i] => i = j /\ Last(emitted'[i]) = Smaller(len[i], size[i])
    BY <1>1, HandsOverItsLength
  <2>2. PICK T : /\ T = {Item(order[EntryOf(i)], jobs[i].file, Last(emitted'[i])) :
                           i \in {k \in DOMAIN jobs : emitted'[k] # emitted[k]}}
                 /\ sent' = sent \o SetToSeq(T)
    BY DEF BatchStep, EmitSends
  <2>3. PICK x : x = Item(order[EntryOf(j)], jobs[j].file, Last(emitted'[j]))
    OBVIOUS
  <2>4. T \subseteq {x}
    BY <1>1, <2>1, <2>2, <2>3
  <2>5. ASSUME NEW m \in T
        PROVE  Sound(m)'
    <3>1. PICK i \in Jobs : /\ m = Item(order[EntryOf(i)], jobs[i].file, Last(emitted'[i]))
                            /\ Last(emitted'[i]) = Smaller(len[i], size[i])
      BY <1>1, <2>1, <2>2, <2>5
    <3>2. m.index = order[jobs[i].entry] /\ m.of = jobs[i].file
          /\ m.n = Smaller(listed[jobs[i].file], now[jobs[i].file])
      BY <1>1, <3>1 DEF Item, EntryOf
    <3>3. jobs[i].file = order[jobs[i].entry]
      BY <1>1 DEF JobsSound, JobSound, Range
    <3> QED BY <1>1, <3>2, <3>3 DEF Sound
  <2>6. \A m \in Range(sent) : Sound(m)'
    BY <1>1 DEF SentSound, Sound
  <2>7. SetToSeq(T) \in Seq(T)
    BY <2>4, SetToSeqOfFew
  <2>8. (\E S : sent' \in Seq(S)) /\ Range(sent') \subseteq Range(sent) \cup T
    BY <2>2, <2>7, ConcatAny DEF SentSound
  <2> QED BY <2>5, <2>6, <2>8 DEF SentSound
<1> QED BY <1>3, <1>4, <1>5, <1>6

(* The steps of the ring that send nothing.                                  *)
LEMMA RingKeeps ==
  ASSUME WindowIInv, KernelStep \/ Fault, UNCHANGED winVars
  PROVE  WindowIInv'
<1> USE DEF WindowIInv
<1>1. BatchIInv'
  BY BatchStepKeeps DEF BatchNext
<1>2. len' = len /\ size' = size
  BY DEF KernelStep, Fault, KernelReads, KernelFails, WaitFails, files
<1>3. Inputs' /\ JobsSound' /\ SentSound'
  BY SameWindow DEF winVars
<1>4. Called'
  BY <1>2 DEF Called, Jobs, winVars
<1> QED BY <1>1, <1>3, <1>4

LEMMA EndsKeep ==
  ASSUME WindowIInv, BatchReturns \/ BlockingEnds \/ UNCHANGED allVars
  PROVE  WindowIInv'
<1> USE DEF WindowIInv
<1>1. UNCHANGED vars /\ UNCHANGED <<useRing, listed, now, opened, order, jobs, sent>>
  BY DEF BatchReturns, BlockingEnds, allVars, winVars
<1>2. BatchIInv'
  BY <1>1, BatchStutters
<1>3. Inputs' /\ JobsSound' /\ SentSound'
  BY <1>1, SameWindow
<1>4. stage' = stage \/ stage' \in {"ok", "closed", "error"}
  BY DEF BatchReturns, BlockingEnds, Returned, allVars, winVars
<1>5. Called'
  BY <1>1, <1>4 DEF Called, Jobs, vars, files
<1> QED BY <1>2, <1>3, <1>5

-----------------------------------------------------------------------------
(* That the window is sent whole.  `order` is a permutation of its files; of *)
(* those the loop has passed each was sent or is a job, and a job counts as  *)
(* sent from the step on that hands it over.                                 *)
SentFiles == {sent[k].index : k \in DOMAIN sent}
JobFiles == {jobs[i].file : i \in DOMAIN jobs}
Past(n) == {order[p] : p \in 1..n}

SentOnce == \A j, k \in DOMAIN sent : sent[j].index = sent[k].index => j = k
JobsOnce == \A i, j \in DOMAIN jobs : jobs[i].file = jobs[j].file => i = j

AllInOrder ==
  /\ order \in [1..MaxJobs -> Files]
  /\ \A f \in Files : \E p \in 1..MaxJobs : order[p] = f
  /\ \A p, q \in 1..MaxJobs : order[p] = order[q] => p = q
  /\ at \in 1..(MaxJobs + 1)

Passed ==
  /\ stage = "probe" => at = 1 /\ jobs = <<>> /\ sent = <<>>
  /\ stage # "probe" => AllInOrder
  /\ stage = "blocking" => SentFiles = Past(at - 1)
  /\ stage = "collect" => /\ SentFiles \cup JobFiles = Past(at - 1)
                          /\ SentFiles \cap JobFiles = {}

HandedIsSent ==
  stage = "batch" =>
    /\ SentFiles \cup JobFiles = Files
    /\ \A i \in DOMAIN jobs : jobs[i].file \in SentFiles <=> emitted[i] # <<>>

Progress ==
  SentOnce /\ JobsOnce /\ Passed /\ HandedIsSent /\ (stage = "ok" => SentFiles = Files)

LEMMA PlaceOfAppended ==
  ASSUME NEW s, \E S : s \in Seq(S), NEW x
  PROVE  \E k : /\ DOMAIN Append(s, x) = DOMAIN s \cup {k} /\ k \notin DOMAIN s
                /\ Append(s, x)[k] = x
                /\ \A j \in DOMAIN s : Append(s, x)[j] = s[j]
<1>1. PICK S : s \in Seq(S)
  OBVIOUS
<1> DEFINE U == S \cup {x}
           t == Append(s, x)
<1>2. s \in Seq(U) /\ x \in U
  BY <1>1, SeqMonotonic
<1> HIDE DEF U
<1>3. /\ DOMAIN t = 1..(Len(s) + 1) /\ DOMAIN s = 1..Len(s) /\ Len(s) \in Nat
      /\ t[Len(s) + 1] = x /\ \A j \in 1..Len(s) : t[j] = s[j]
  BY <1>2
<1> HIDE DEF t
<1>4. DOMAIN t = DOMAIN s \cup {Len(s) + 1} /\ Len(s) + 1 \notin DOMAIN s
  BY <1>3
<1> QED BY <1>3, <1>4 DEF t

LEMMA PastOneMore ==
  ASSUME AllInOrder, at <= MaxJobs
  PROVE  /\ Past(at) = Past(at - 1) \cup {order[at]}
         /\ order[at] \notin Past(at - 1) /\ order[at] \in Files
         /\ at + 1 \in 1..(MaxJobs + 1) /\ (at + 1) - 1 = at
<1>1. MaxJobs \in Nat
  BY IoUringAssumption
<1>2. /\ at \in 1..MaxJobs /\ 1..at = 1..(at - 1) \cup {at} /\ at \notin 1..(at - 1)
      /\ 1..(at - 1) \subseteq 1..MaxJobs
      /\ at + 1 \in 1..(MaxJobs + 1) /\ (at + 1) - 1 = at
  BY <1>1 DEF AllInOrder
<1>3. Past(at) = Past(at - 1) \cup {order[at]}
  BY <1>2 DEF Past
<1>4. order[at] \notin Past(at - 1)
  BY <1>2 DEF Past, AllInOrder
<1> QED BY <1>2, <1>3, <1>4 DEF AllInOrder

LEMMA OrderLength ==
  ASSUME AllInOrder
  PROVE  /\ Len(order) = MaxJobs /\ MaxJobs \in Nat
         /\ at > MaxJobs => Past(at - 1) = Files
         /\ at \in Nat /\ (at <= MaxJobs \/ at > MaxJobs)
<1>1. MaxJobs \in Nat
  BY IoUringAssumption
<1>2. Len(order) = MaxJobs
  BY <1>1 DEF AllInOrder
<1>3. at > MaxJobs => at - 1 = MaxJobs
  BY <1>1 DEF AllInOrder
<1>4. Past(MaxJobs) = Files
  BY DEF Past, AllInOrder
<1>5. at \in Nat
  BY <1>1 DEF AllInOrder
<1> QED BY <1>1, <1>2, <1>3, <1>4, <1>5

(* What one more message does to SentFiles.                                  *)
LEMMA OneMoreSent ==
  ASSUME SentSound, NEW m, sent' = Append(sent, m)
  PROVE  /\ SentFiles' = SentFiles \cup {m.index}
         /\ SentOnce /\ m.index \notin SentFiles => SentOnce'
<1>1. PICK k : /\ DOMAIN sent' = DOMAIN sent \cup {k} /\ k \notin DOMAIN sent
               /\ sent'[k] = m
               /\ \A j \in DOMAIN sent : sent'[j] = sent[j]
  BY PlaceOfAppended DEF SentSound
<1>2. SentFiles' = SentFiles \cup {m.index}
  BY <1>1 DEF SentFiles
<1>3. ASSUME SentOnce, m.index \notin SentFiles PROVE SentOnce'
  BY <1>1, <1>3 DEF SentOnce, SentFiles
<1> QED BY <1>2, <1>3

LEMMA ProgressStarts ==
  ASSUME WindowInit
  PROVE  Progress
BY DEF WindowInit, Progress, SentOnce, JobsOnce, Passed, HandedIsSent

LEMMA ProbeOrders ==
  ASSUME Progress, Probe
  PROVE  Progress'
<1>1. /\ stage = "probe" /\ at' = at /\ jobs' = jobs /\ sent' = sent /\ emitted' = emitted
      /\ stage' \in {"collect", "blocking"}
      /\ at = 1 /\ jobs = <<>> /\ sent = <<>>
  BY DEF Probe, vars, Progress, Passed
<1>2. PICK place \in [Files -> Files \cup {NoPlace}] : order' = InOrder(Files, Before(place))
  BY DEF Probe
<1>3. MaxJobs \in Nat /\ IsFiniteSet(Files) /\ Cardinality(Files) = MaxJobs
  BY IoUringAssumption, FS_Interval DEF Files
<1>4. PICK b : b = Before(place)
  OBVIOUS
<1>5. IsOrder(b, Files)
  <2>1. \A f \in Files : f \in Int /\ place[f] \in Int
    BY <1>3 DEF Files, NoPlace
  <2>2. \A f, g \in Files : <<f, g>> \in b <=> \/ place[f] < place[g]
                                               \/ place[f] = place[g] /\ f < g
    BY <1>4 DEF Before
  <2> QED BY <2>1, <2>2 DEF IsOrder
<1>6. /\ order' \in [1..MaxJobs -> Files]
      /\ \A f \in Files : \E p \in 1..MaxJobs : order'[p] = f
      /\ \A p, q \in 1..MaxJobs : p < q => <<order'[p], order'[q]>> \in b
  <2>1. /\ InOrder(Files, b) \in [1..Cardinality(Files) -> Files]
        /\ \A f \in Files : \E p \in 1..Cardinality(Files) : InOrder(Files, b)[p] = f
        /\ \A p, q \in 1..Cardinality(Files) :
             p < q => <<InOrder(Files, b)[p], InOrder(Files, b)[q]>> \in b
    BY <1>3, <1>5, InOrderIsSorted
  <2>2. order' = InOrder(Files, b)
    BY <1>2, <1>4
  <2> QED BY <1>3, <2>1, <2>2
<1>7. \A p, q \in 1..MaxJobs : order'[p] = order'[q] => p = q
  <2>1. \A p, q \in 1..MaxJobs : p = q \/ p < q \/ q < p
    BY <1>3
  <2> QED BY <1>5, <1>6, <2>1 DEF IsOrder
<1>8. 1 \in 1..(MaxJobs + 1) /\ 1..(1 - 1) = {}
  BY <1>3
<1>9. AllInOrder'
  BY <1>1, <1>6, <1>7, <1>8 DEF AllInOrder
<1>10. SentFiles' = {} /\ JobFiles' = {} /\ Past(at - 1)' = {}
  BY <1>1, <1>8 DEF SentFiles, JobFiles, Past
<1>11. SentOnce' /\ JobsOnce'
  BY <1>1 DEF SentOnce, JobsOnce
<1> QED BY <1>1, <1>9, <1>10, <1>11 DEF Progress, Passed, HandedIsSent

LEMMA CollectPasses ==
  ASSUME WindowIInv, Progress, CollectJob
  PROVE  Progress'
<1>1. /\ stage = "collect" /\ stage' = stage /\ at <= MaxJobs /\ at' = at + 1 /\ sent' = sent
      /\ order' = order /\ AllInOrder
      /\ SentFiles \cup JobFiles = Past(at - 1) /\ SentFiles \cap JobFiles = {}
  BY OrderLength DEF CollectJob, Progress, Passed
<1>2. PICK j : j.file = order[at] /\ jobs' = Append(jobs, j)
  BY DEF CollectJob
<1>3. PICK k : /\ DOMAIN jobs' = DOMAIN jobs \cup {k} /\ k \notin DOMAIN jobs
               /\ jobs'[k] = j
               /\ \A i \in DOMAIN jobs : jobs'[i] = jobs[i]
  BY <1>2, PlaceOfAppended DEF WindowIInv, JobsSound
<1>4. /\ Past(at) = Past(at - 1) \cup {order[at]}
      /\ order[at] \notin Past(at - 1) /\ order[at] \in Files
      /\ at + 1 \in 1..(MaxJobs + 1) /\ (at + 1) - 1 = at
  BY <1>1, PastOneMore
<1>5. JobFiles' = JobFiles \cup {order[at]} /\ SentFiles' = SentFiles
  BY <1>1, <1>2, <1>3 DEF JobFiles, SentFiles
<1>6. Past(at - 1)' = Past(at)
  BY <1>1, <1>4 DEF Past
<1>7. AllInOrder'
  BY <1>1, <1>4 DEF AllInOrder
<1>8. JobsOnce'
  <2>1. j.file \notin JobFiles
    BY <1>1, <1>2, <1>4
  <2> QED BY <1>2, <1>3, <2>1 DEF JobsOnce, JobFiles, Progress
<1>9. SentOnce'
  BY <1>1 DEF Progress, SentOnce
<1>10. /\ SentFiles' \cup JobFiles' = Past(at - 1)'
       /\ SentFiles' \cap JobFiles' = {}
  BY <1>1, <1>4, <1>5, <1>6
<1> QED BY <1>1, <1>7, <1>8, <1>9, <1>10 DEF Progress, Passed, HandedIsSent

LEMMA ReadsPass ==
  ASSUME WindowIInv, Progress, CollectUnopened \/ BlockingReads
  PROVE  Progress'
<1>1. /\ stage \in {"collect", "blocking"} /\ at <= MaxJobs /\ jobs' = jobs /\ order' = order
      /\ AllInOrder /\ ReadsWhole(order[at], stage)
  BY OrderLength DEF CollectUnopened, BlockingReads, FallBackToPath, Progress, Passed
<1>2. PICK m : m = Item(order[at], order[at], now[order[at]])
  OBVIOUS
<1>3. /\ m.index = order[at] /\ at' = at + 1
      /\ \/ sent' = Append(sent, m) /\ stage' = stage
         \/ sent' = sent /\ stage' \in {"closed", "error"}
  BY <1>1, <1>2 DEF ReadsWhole, Send, Item
<1>4. /\ Past(at) = Past(at - 1) \cup {order[at]}
      /\ order[at] \notin Past(at - 1) /\ order[at] \in Files
      /\ at + 1 \in 1..(MaxJobs + 1) /\ (at + 1) - 1 = at
  BY <1>1, PastOneMore
<1>5. AllInOrder' /\ JobsOnce' /\ JobFiles' = JobFiles
  BY <1>1, <1>3, <1>4 DEF AllInOrder, JobsOnce, JobFiles, Progress
<1>6. Past(at - 1)' = Past(at)
  BY <1>1, <1>3, <1>4 DEF Past
<1>7. CASE sent' = sent /\ stage' \in {"closed", "error"}
  <2>1. SentOnce'
    BY <1>7 DEF SentOnce, Progress
  <2> QED BY <1>5, <1>7, <2>1 DEF Progress, Passed, HandedIsSent
<1>8. CASE sent' = Append(sent, m) /\ stage' = stage
  <2>1. SentFiles \subseteq Past(at - 1) /\ order[at] \notin SentFiles
    BY <1>1, <1>4 DEF Progress, Passed
  <2>2. SentFiles' = SentFiles \cup {order[at]} /\ SentOnce'
    BY <1>3, <1>8, <2>1, OneMoreSent DEF WindowIInv, Progress
  <2>3. stage = "blocking" => SentFiles' = Past(at - 1)'
    BY <1>4, <1>6, <2>2 DEF Progress, Passed
  <2>4. stage = "collect" => /\ SentFiles' \cup JobFiles' = Past(at - 1)'
                             /\ SentFiles' \cap JobFiles' = {}
    BY <1>4, <1>5, <1>6, <2>2 DEF Progress, Passed
  <2> QED BY <1>1, <1>5, <1>8, <2>2, <2>3, <2>4 DEF Progress, Passed, HandedIsSent
<1> QED BY <1>3, <1>7, <1>8

LEMMA StartIsSent ==
  ASSUME WindowIInv, Progress, StartBatch
  PROVE  Progress'
<1>1. /\ stage = "collect" /\ stage' = "batch" /\ order' = order /\ at' = at /\ jobs' = jobs
      /\ sent' = sent /\ AllInOrder /\ at > MaxJobs
      /\ emitted' = [i \in DOMAIN jobs |-> <<>>]
  BY OrderLength DEF StartBatch, Call, Progress, Passed
<1>2. /\ SentFiles' = SentFiles /\ JobFiles' = JobFiles /\ AllInOrder' /\ SentOnce' /\ JobsOnce'
  BY <1>1 DEF SentFiles, JobFiles, AllInOrder, SentOnce, JobsOnce, Progress
<1>3. SentFiles \cup JobFiles = Files /\ SentFiles \cap JobFiles = {}
  BY <1>1, OrderLength DEF Progress, Passed
<1>4. \A i \in DOMAIN jobs' : jobs'[i].file \notin SentFiles' /\ emitted'[i] = <<>>
  BY <1>1, <1>2, <1>3 DEF JobFiles
<1> QED BY <1>1, <1>2, <1>3, <1>4 DEF Progress, Passed, HandedIsSent

(* One element, or none, as a sequence.                                      *)
LEMMA FewAsSeq ==
  /\ SetToSeq({}) = <<>>
  /\ \A x : SetToSeq({x}) = <<x>>
<1>1. Cardinality({}) = 0 /\ \A x : Cardinality({x}) = 1
  BY FS_EmptySet, FS_Singleton
<1>2. SetToSeq({}) = <<>>
  <2>1. 1..0 = {}
    OBVIOUS
  <2>2. [i \in 1..0 |-> 0] \in [1..0 -> {}] /\ IsInjective([i \in 1..0 |-> 0])
    BY <2>1 DEF IsInjective
  <2>3. SetToSeq({}) \in [1..0 -> {}]
    BY <1>1, <2>2 DEF SetToSeq
  <2> QED BY <2>3
<1>3. ASSUME NEW x PROVE SetToSeq({x}) = <<x>>
  <2>1. 1..1 = {1}
    OBVIOUS
  <2>2. [i \in 1..1 |-> x] \in [1..1 -> {x}] /\ IsInjective([i \in 1..1 |-> x])
    BY <2>1 DEF IsInjective
  <2>3. SetToSeq({x}) \in [1..1 -> {x}]
    BY <1>1, <2>2 DEF SetToSeq
  <2> QED BY <2>1, <2>3
<1> QED BY <1>2, <1>3

(* A step of the batch sends nothing, or the file of a job that was not      *)
(* handed over before.                                                       *)
LEMMA BatchSends ==
  ASSUME WindowIInv, BatchStep
  PROVE  \/ emitted' = emitted /\ sent' = sent
         \/ \E j \in Jobs : \E m :
              /\ m.index = jobs[j].file /\ sent' = Append(sent, m)
              /\ emitted[j] = <<>> /\ emitted'[j] # <<>>
              /\ \A i \in Jobs \ {j} : emitted'[i] = emitted[i]
<1>1. /\ ReaderStep /\ Jobs = DOMAIN jobs /\ EmitSends
  BY DEF BatchStep, WindowIInv, Called
<1> DEFINE new == {i \in DOMAIN jobs : emitted'[i] # emitted[i]}
           Msg(i) == Item(order[EntryOf(i)], jobs[i].file, Last(emitted'[i]))
<1>2. sent' = sent \o SetToSeq({Msg(i) : i \in new})
  BY <1>1 DEF EmitSends
<1>3. PICK S : sent \in Seq(S)
  BY DEF WindowIInv, SentSound
<1>4. ASSUME emitted' = emitted PROVE sent' = sent
  <2>1. {Msg(i) : i \in new} = {}
    BY <1>4
  <2>2. sent \o <<>> = sent
    BY <1>3, ConcatEmptySeq
  <2> HIDE DEF Msg, new
  <2> QED BY <1>2, <2>1, <2>2, FewAsSeq
<1>5. ASSUME Running', NEW j, NEW n, emitted' = [emitted EXCEPT ![j] = Append(@, n)],
             emitted' # emitted
      PROVE  \E k \in Jobs : \E m :
              /\ m.index = jobs[k].file /\ sent' = Append(sent, m)
              /\ emitted[k] = <<>> /\ emitted'[k] # <<>>
              /\ \A i \in Jobs \ {k} : emitted'[i] = emitted[i]
  <2>1. Loop /\ Loop'
    BY <1>1, <1>5, ReaderStepKeeps DEF WindowIInv
  <2>2. Jobs' = Jobs
    BY <1>1 DEF ReaderStep, TopUpEmptyFile, TopUpRead, NothingOutstanding, SubmitAndWait, ReapCompletions,
           CompletionError, CompletionEof, CompletionFull, CompletionShort, DrainEnds, files, Jobs
  <2>3. emitted \in [Jobs -> Seq(Nat)]
    BY <2>1 DEF Loop, Typed
  <2>4. j \in Jobs
    BY <1>5, <2>3
  <2>5. emitted'[j] = Append(emitted[j], n) /\ \A i \in Jobs \ {j} : emitted'[i] = emitted[i]
    BY <1>5, <2>3, <2>4
  <2>6. emitted'[j] # <<>>
    BY <2>3, <2>4, <2>5, AppendAny
  <2>7. \E x : emitted'[j] = <<x>>
    <3>1. (Loop => AtMostOnce)'
      BY HandedOnce, PTL
    <3> QED BY <2>1, <2>2, <2>4, <2>6, <3>1 DEF AtMostOnce
  <2>8. emitted[j] = <<>>
    <3>1. PICK x : Append(emitted[j], n) = <<x>>
      BY <2>5, <2>7
    <3>2. PICK e : e = emitted[j] /\ e \in Seq(Nat)
      BY <2>3, <2>4
    <3>3. Len(Append(e, n)) = Len(e) + 1 /\ Len(e) \in Nat
      <4>1. e \in Seq(Nat \cup {n}) /\ n \in Nat \cup {n}
        BY <3>2, SeqMonotonic
      <4> QED BY <4>1
    <3>4. Len(Append(e, n)) = 1
      <4>1. Len(<<x>>) = 1
        OBVIOUS
      <4> QED BY <3>1, <3>2, <4>1
    <3>5. Len(e) = 0
      BY <3>3, <3>4
    <3> QED BY <3>2, <3>5
  <2>9. new = {j}
    BY <1>1, <2>4, <2>5, <2>6, <2>8
  <2>10. PICK m : m = Msg(j)
    OBVIOUS
  <2>11. m.index = jobs[j].file
    <3>1. jobs[j].file = order[jobs[j].entry]
      BY <1>1, <2>4 DEF WindowIInv, JobsSound, JobSound, Range
    <3> QED BY <2>10, <3>1 DEF Item, EntryOf
  <2>12. {Msg(i) : i \in new} = {m}
    <3> HIDE DEF Msg, new
    <3> QED BY <2>9, <2>10
  <2>13. sent' = sent \o <<m>>
    <3> HIDE DEF Msg, new
    <3> QED BY <1>2, <2>12, FewAsSeq
  <2>14. sent \o <<m>> = Append(sent, m)
    <3> DEFINE U == S \cup {m}
    <3>1. sent \in Seq(U) /\ m \in U
      BY <1>3, SeqMonotonic
    <3> HIDE DEF U
    <3> QED BY <3>1
  <2> QED BY <2>4, <2>5, <2>6, <2>8, <2>11, <2>13, <2>14
<1> QED BY <1>1, <1>4, <1>5, OneAtATime

LEMMA BatchIsSent ==
  ASSUME WindowIInv, Progress, BatchStep
  PROVE  Progress'
<1>1. /\ stage = "batch" /\ stage' = stage /\ order' = order /\ at' = at /\ jobs' = jobs
      /\ Jobs = DOMAIN jobs /\ AllInOrder
      /\ SentFiles \cup JobFiles = Files
      /\ \A i \in DOMAIN jobs : jobs[i].file \in SentFiles <=> emitted[i] # <<>>
  BY DEF BatchStep, Progress, Passed, HandedIsSent, WindowIInv, Called
<1>2. JobFiles' = JobFiles /\ AllInOrder' /\ JobsOnce'
  BY <1>1 DEF JobFiles, AllInOrder, JobsOnce, Progress
<1>3. CASE emitted' = emitted /\ sent' = sent
  BY <1>1, <1>2, <1>3 DEF Progress, Passed, HandedIsSent, SentFiles, SentOnce
<1>4. ASSUME NEW j \in Jobs, NEW m, m.index = jobs[j].file, sent' = Append(sent, m),
             emitted[j] = <<>>, emitted'[j] # <<>>,
             \A i \in Jobs \ {j} : emitted'[i] = emitted[i]
      PROVE  Progress'
  <2>1. jobs[j].file \notin SentFiles /\ jobs[j].file \in JobFiles
    BY <1>1, <1>4 DEF JobFiles
  <2>2. SentFiles' = SentFiles \cup {jobs[j].file} /\ SentOnce'
    BY <1>4, <2>1, OneMoreSent DEF WindowIInv, Progress
  <2>3. SentFiles' \cup JobFiles' = Files
    BY <1>1, <1>2, <2>1, <2>2
  <2>4. ASSUME NEW i \in DOMAIN jobs
        PROVE  jobs[i].file \in SentFiles' <=> emitted'[i] # <<>>
    <3>1. CASE i = j
      BY <1>4, <2>2, <3>1
    <3>2. CASE i # j
      <4>1. jobs[i].file # jobs[j].file
        BY <1>1, <2>4, <3>2 DEF Progress, JobsOnce
      <4> QED BY <1>1, <1>4, <2>2, <2>4, <3>2, <4>1
    <3> QED BY <3>1, <3>2
  <2> QED BY <1>1, <1>2, <2>2, <2>3, <2>4 DEF Progress, Passed, HandedIsSent
<1> QED BY <1>3, <1>4, BatchSends

LEMMA RingIsSilent ==
  ASSUME Progress, KernelStep \/ Fault, UNCHANGED winVars
  PROVE  Progress'
<1>1. emitted' = emitted
  BY DEF KernelStep, Fault, KernelReads, KernelFails, WaitFails
<1>2. UNCHANGED <<order, at, jobs, sent, stage>>
  BY DEF winVars
<1>3. /\ SentFiles' = SentFiles /\ JobFiles' = JobFiles /\ SentOnce' /\ JobsOnce'
      /\ (AllInOrder => AllInOrder') /\ Past(at - 1)' = Past(at - 1)
  BY <1>2 DEF SentFiles, JobFiles, SentOnce, JobsOnce, AllInOrder, Past, Progress
<1> QED BY <1>1, <1>2, <1>3 DEF Progress, Passed, HandedIsSent

LEMMA WindowReturns ==
  ASSUME WindowIInv, Progress, BatchReturns \/ BlockingEnds \/ UNCHANGED allVars
  PROVE  Progress'
<1>1. UNCHANGED <<emitted, order, at, jobs, sent>>
  BY DEF BatchReturns, BlockingEnds, allVars, winVars, vars
<1>2. /\ SentFiles' = SentFiles /\ JobFiles' = JobFiles /\ SentOnce' /\ JobsOnce'
      /\ (AllInOrder => AllInOrder') /\ Past(at - 1)' = Past(at - 1)
  BY <1>1 DEF SentFiles, JobFiles, SentOnce, JobsOnce, AllInOrder, Past, Progress
<1>3. CASE BatchReturns
  <2>1. stage = "batch" /\ stage' \in {"ok", "closed", "error"} /\ (stage' = "ok" => pc = "ok")
    BY <1>3 DEF BatchReturns, Returned
  <2>2. ASSUME pc = "ok" PROVE SentFiles = Files
    <3>1. \A i \in DOMAIN jobs : emitted[i] # <<>>
      BY <2>1, <2>2 DEF WindowIInv, BatchIInv, OkMeansAllEmitted, Called
    <3>2. JobFiles \subseteq SentFiles
      BY <2>1, <3>1 DEF JobFiles, Progress, HandedIsSent
    <3> QED BY <2>1, <3>2 DEF Progress, HandedIsSent
  <2> QED BY <1>2, <2>1, <2>2 DEF Progress, Passed, HandedIsSent
<1>4. CASE BlockingEnds
  <2>1. stage = "blocking" /\ stage' = "ok" /\ AllInOrder /\ at > MaxJobs
    BY <1>4, OrderLength DEF BlockingEnds, Progress, Passed
  <2>2. SentFiles = Files
    BY <2>1, OrderLength DEF Progress, Passed
  <2> QED BY <1>2, <2>1, <2>2 DEF Progress, Passed, HandedIsSent
<1>5. CASE UNCHANGED allVars
  <2>1. stage' = stage
    BY <1>5 DEF allVars, winVars
  <2> QED BY <1>1, <1>2, <2>1 DEF Progress, Passed, HandedIsSent
<1> QED BY <1>3, <1>4, <1>5

-----------------------------------------------------------------------------
(* The window and its batch fit together at every step.                      *)
THEOREM WindowInvariant == WindowSpec => []WindowIInv
<1>1. WindowIInv /\ [WindowNext]_allVars => WindowIInv'
  BY ProbeKeeps, CollectKeeps, ReadsKeep, StartKeeps, BatchKeeps, RingKeeps, EndsKeep
     DEF WindowNext, ThreadStep, BatchFails, KernelWorks, KernelHasError, KernelStep, Fault, WindowOver
<1> QED BY <1>1, WindowStarts, PTL DEF WindowSpec

(* What goes out under a file's index are that file's bytes, in any order of *)
(* the disk and of the completions.                                          *)
THEOREM IndexKeepsItsBytes == WindowSpec => []IndexCarriesItsBytes
<1>1. WindowIInv => IndexCarriesItsBytes
  BY DEF WindowIInv, SentSound, Sound, Range, IndexCarriesItsBytes
<1> QED BY <1>1, WindowInvariant, PTL

(* No file of the window goes out twice, and a window that is reported read  *)
(* has sent them all, also those that FIEMAP or the probe's open failed for: *)
(* through the sort, the split into jobs and fallbacks, and completions in   *)
(* any order.                                                                *)
THEOREM WindowIsSentWhole == WindowSpec => []WindowIsComplete
<1>1. WindowIInv /\ Progress /\ [WindowNext]_allVars => Progress'
  BY ProbeOrders, CollectPasses, ReadsPass, StartIsSent, BatchIsSent, RingIsSilent, WindowReturns
     DEF WindowNext, ThreadStep, BatchFails, KernelWorks, KernelHasError, KernelStep, Fault, WindowOver
<1>2. Progress => WindowIsComplete
  BY DEF Progress, SentOnce, SentFiles, WindowIsComplete
<1> QED BY <1>1, <1>2, ProgressStarts, WindowInvariant, PTL DEF WindowSpec

(* read_batch's counters are what they should be also as this caller calls   *)
(* it.                                                                       *)
THEOREM WindowCountersAreExact == WindowSpec => []CountersAgree
BY WindowInvariant, BatchMeans, PTL DEF WindowIInv

(* A window's reads, continuations included, stay in the buffer of their     *)
(* file, also when the file has become shorter than it was listed.           *)
THEOREM WindowReadsAreInside == WindowSpec => []ReadsStayInBuffer
BY WindowInvariant, BatchMeans, PTL DEF WindowIInv

(* A window whose batch ended well has handed over all of its jobs, whole.   *)
THEOREM WindowOkIsComplete == WindowSpec => []OkMeansAllEmitted
BY WindowInvariant, BatchMeans, PTL DEF WindowIInv
=============================================================================
