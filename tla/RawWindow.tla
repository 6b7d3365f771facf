------------------------------ MODULE RawWindow ------------------------------
(* raw_apfs.rs `bulk_read_window`: the files of one window are turned into   *)
(* extent tasks, the tasks sorted by their place on the device and read in   *)
(* coalesced runs, and a file is sent as soon as its last task is copied;    *)
(* what needs no run follows at the end.                                     *)
(*                                                                           *)
(* Lengths are in cells, Block cells to a block of the device.  The content  *)
(* of a cell of the device is its address.  Where a file's inode and extents *)
(* come from (cache, batch scan or lookup) makes no difference here but for  *)
(* whether they are found.  A run is read through AlignedRawReader: one of a *)
(* single block may come from the block cache, and a short one leaves its    *)
(* blocks there.  The device does not change and a cached block is the block *)
(* of the device (RawCatalog), so the cells are the same, and what a run     *)
(* leaves in the cache is not followed.                                      *)
EXTENDS Integers, Sequences, FiniteSets, FiniteSetsExt, SequencesExt, Functions, Ordered

CONSTANTS
  NumFiles,    \* files in the window
  Block,       \* cells in a block
  DiskBlocks,  \* blocks of the device
  MaxBlocks,   \* blocks of the longest file
  MaxRun,      \* max_run_bytes
  MaxGap,      \* the 256 KiB of a gap worth reading over
  Mtimes,      \* modification times
  Epoch        \* the time of an item the walk sends

ASSUME WindowAssumption ==
  /\ NumFiles \in Nat \ {0} /\ Block \in Nat \ {0}
  /\ DiskBlocks \in Nat \ {0} /\ MaxBlocks \in 1..DiskBlocks
  /\ MaxRun \in Nat /\ MaxGap \in Nat
  /\ Epoch \in Mtimes

Files == 1..NumFiles
Extents == {e \in [log : 0..(MaxBlocks - 1), phys : 0..(DiskBlocks - 1), len : 1..MaxBlocks] :
              e.log + e.len <= MaxBlocks /\ e.phys + e.len <= DiskBlocks}

(* A file's extents cover no part of it twice; two files may share blocks    *)
(* (clones), parts may have no extent (holes), and extents may reach past    *)
(* the end of the file.                                                      *)
ExtentSets ==
  {s \in SUBSET Extents :
     \A d, e \in s : d # e => d.log + d.len <= e.log \/ e.log + e.len <= d.log}

(* "lost": no oid or no inode was found; "special": a symlink, a compressed  *)
(* file, or one whose extents could not be looked up.  `mtime` is that of the*)
(* item, by which the archive has it.                                        *)
Entries ==
  [kind : {"lost", "special"}, size : {0}, extents : {{}}, mtime : Mtimes]
  \cup [kind : {"regular"}, size : 0..(MaxBlocks * Block), extents : ExtentSets, mtime : Mtimes]

Hole == -1      \* a cell that was never written: zero
Stale == -2     \* a cell of the buffer this run did not read
PointRead == <<"whole">>   \* what read_file_by_oid returns for a special file

VARIABLES
  entry,      \* what each file of the window is
  tasks,      \* extent tasks in disk order
  remaining, data, sent,   \* per slot
  run,        \* the run being built or copied: [first, last, start, end]
  next,       \* task the next run starts with, or the next to copy
  rest,       \* slot phase 3 has come to
  shipped,    \* what went to the raw channel: [file, data]
  phase       \* "prepare", "runs", "extend", "copy", "rest"; then "done",
              \* "stopped" (channel closed) or "error"

slots == <<remaining, data, sent>>
vars == <<entry, tasks, slots, run, next, rest, shipped, phase>>

NoRun == [first |-> 0, last |-> 0, start |-> 0, end |-> 0]
Larger(a, b) == IF a > b THEN a ELSE b
Smaller(a, b) == IF a < b THEN a ELSE b

Init ==
  /\ entry \in [Files -> Entries]
  /\ tasks = <<>>
  /\ remaining = [f \in Files |-> 0]
  /\ data = [f \in Files |-> <<>>]
  /\ sent = [f \in Files |-> FALSE]
  /\ run = NoRun
  /\ next = 1 /\ rest = 1
  /\ shipped = <<>>
  /\ phase = "prepare"

-----------------------------------------------------------------------------
(* Defects for the pairs in PROJECT.json.                                    *)

(* An extent counts whole, also where it reaches past the end of the file.   *)
RemainingUnclipped(f) == SumFunction([e \in entry[f].extents |-> e.len * Block])

(* The end of a run is that of the last task, not of the longest.            *)
EndOfLast(end, t) == t.disk + t.len

(* A slot does not remember that it was sent.                                *)
SentForgotten(f) == sent

-----------------------------------------------------------------------------
(* Phase 1.                                                                  *)

Usable(f, e) == Smaller(e.len * Block, entry[f].size - e.log * Block)

TasksOf(f) ==
  {[disk |-> e.phys * Block, len |-> Usable(f, e), file |-> f, off |-> e.log * Block] :
     e \in {x \in entry[f].extents : x.log * Block < entry[f].size}}

Remaining(f) == SumFunction([t \in TasksOf(f) |-> t.len])

AllTasks == UNION {TasksOf(f) : f \in Files}

(* The sort is stable: tasks at one place stay in the order of their slots.  *)
Earlier(s, t) ==
  \/ s.disk < t.disk
  \/ s.disk = t.disk /\ s.file < t.file
  \/ s.disk = t.disk /\ s.file = t.file /\ s.off < t.off
Before == {p \in AllTasks \X AllTasks : Earlier(p[1], p[2])}

Prepare ==
  /\ phase = "prepare"
  /\ tasks' = InOrder(AllTasks, Before)
  /\ remaining' = [f \in Files |-> Remaining(f)]
  /\ data' = [f \in Files |-> [c \in 0..(entry[f].size - 1) |-> Hole]]
  /\ phase' = "runs"
  /\ UNCHANGED <<entry, sent, run, next, rest, shipped>>

-----------------------------------------------------------------------------
(* Phase 2: building a run.                                                  *)

StartRun ==
  /\ phase = "runs"
  /\ next <= Len(tasks)
  /\ LET t == tasks[next] IN
       run' = [first |-> next, last |-> next, start |-> t.disk, end |-> t.disk + t.len]
  /\ phase' = "extend"
  /\ UNCHANGED <<entry, tasks, slots, next, rest, shipped>>

UnderCap(t) == t.disk + t.len - run.start <= MaxRun
Touches(t) == t.disk <= run.end /\ UnderCap(t)
NearEnough(t) == t.disk > run.end /\ UnderCap(t) /\ t.disk - run.end <= MaxGap
EndWith(end, t) == Larger(end, t.disk + t.len)

ExtendTouching ==
  /\ phase = "extend"
  /\ run.last < Len(tasks)
  /\ LET t == tasks[run.last + 1] IN
       /\ Touches(t)
       /\ run' = [run EXCEPT !.last = @ + 1, !.end = EndWith(@, t)]
  /\ UNCHANGED <<entry, tasks, slots, next, rest, shipped, phase>>

ExtendOverGap ==
  /\ phase = "extend"
  /\ run.last < Len(tasks)
  /\ LET t == tasks[run.last + 1] IN
       /\ NearEnough(t)
       /\ run' = [run EXCEPT !.last = @ + 1, !.end = t.disk + t.len]
  /\ UNCHANGED <<entry, tasks, slots, next, rest, shipped, phase>>

RunIsComplete ==
  phase = "extend" /\
    (run.last < Len(tasks) =>
       LET t == tasks[run.last + 1] IN ~Touches(t) /\ ~NearEnough(t))

ReadRun ==
  /\ RunIsComplete
  /\ phase' = "copy"
  /\ UNCHANGED <<entry, tasks, slots, run, next, rest, shipped>>

ReadFails ==
  /\ RunIsComplete
  /\ phase' = "error"
  /\ UNCHANGED <<entry, tasks, slots, run, next, rest, shipped>>

(* The run is read from block boundary to block boundary.                    *)
RunBuffer(c) ==
  LET start == (run.start \div Block) * Block
      end == ((run.end + Block - 1) \div Block) * Block
  IN  IF c \in start..(end - 1) THEN c ELSE Stale

-----------------------------------------------------------------------------
(* The raw channel takes what slot f is worth, or has closed.                *)
MarkSent(f) == [sent EXCEPT ![f] = TRUE]

Ship(f, bytes, then) ==
  /\ sent' = MarkSent(f)
  /\ \/ /\ shipped' = Append(shipped, [file |-> f, data |-> bytes])
        /\ phase' = then
     \/ /\ shipped' = shipped
        /\ phase' = "stopped"

(* One task's cells are copied to its slot.                                  *)
CopyTask ==
  LET t == tasks[next]
      f == t.file
      filled == [c \in DOMAIN data[f] |->
                   IF c \in t.off..(t.off + t.len - 1)
                     THEN RunBuffer(t.disk + c - t.off) ELSE data[f][c]]
      then == IF next = run.last THEN "runs" ELSE "copy"
  IN
  /\ phase = "copy"
  /\ data' = [data EXCEPT ![f] = filled]
  /\ remaining' = [remaining EXCEPT ![f] = @ - t.len]
  /\ IF remaining'[f] = 0 /\ ~sent[f]
       THEN Ship(f, filled, then)
       ELSE phase' = then /\ UNCHANGED <<sent, shipped>>
  /\ next' = next + 1
  /\ UNCHANGED <<entry, tasks, run, rest>>

RunsEnd ==
  /\ phase = "runs"
  /\ next > Len(tasks)
  /\ phase' = "rest"
  /\ UNCHANGED <<entry, tasks, slots, run, next, rest, shipped>>

-----------------------------------------------------------------------------
(* Phase 3, slot by slot.                                                    *)

RestSkips ==
  /\ phase = "rest"
  /\ rest <= NumFiles
  /\ \/ sent[rest]
     \/ entry[rest].kind = "lost"
     \/ entry[rest].kind = "regular" /\ remaining[rest] # 0
  /\ rest' = rest + 1
  /\ UNCHANGED <<entry, tasks, slots, run, next, shipped, phase>>

RestShipsEmpty ==
  /\ phase = "rest"
  /\ rest <= NumFiles
  /\ ~sent[rest]
  /\ entry[rest].kind = "regular" /\ remaining[rest] = 0
  /\ Ship(rest, <<>>, "rest")
  /\ rest' = rest + 1
  /\ UNCHANGED <<entry, tasks, remaining, data, run, next>>

(* The point read, whose failure counts as an empty file (unwrap_or_default).*)
(* The oid is in the cache since phase 1.                                    *)
RestShipsSpecial ==
  /\ phase = "rest"
  /\ rest <= NumFiles
  /\ ~sent[rest]
  /\ entry[rest].kind = "special"
  /\ \E bytes \in {PointRead, <<>>} : Ship(rest, bytes, "rest")
  /\ rest' = rest + 1
  /\ UNCHANGED <<entry, tasks, remaining, data, run, next>>

WindowDone ==
  /\ phase = "rest"
  /\ rest > NumFiles
  /\ phase' = "done"
  /\ UNCHANGED <<entry, tasks, slots, run, next, rest, shipped>>

Returned == phase \in {"done", "stopped", "error"} /\ UNCHANGED vars

Next ==
  \/ Prepare \/ StartRun \/ ExtendTouching \/ ExtendOverGap \/ ReadRun \/ ReadFails
  \/ CopyTask \/ RunsEnd \/ RestSkips \/ RestShipsEmpty \/ RestShipsSpecial
  \/ WindowDone \/ Returned

Spec == Init /\ [][Next]_vars

-----------------------------------------------------------------------------
(* Properties.                                                               *)

(* What a reader of file f should see: each cell where its extent puts it,   *)
(* zero where it has none.                                                   *)
Contents(f) ==
  [c \in 0..(entry[f].size - 1) |->
     LET over == {e \in entry[f].extents : c \in (e.log * Block)..((e.log + e.len) * Block - 1)}
     IN  IF over = {} THEN Hole
         ELSE LET e == CHOOSE x \in over : TRUE IN e.phys * Block + c - e.log * Block]

(* A file with data on the device is sent whole and right, however its       *)
(* extents lie, are shared, or end short of its size.  (A file of holes only *)
(* is sent with no bytes at all.)                                            *)
ShippedIsComplete ==
  \A k \in DOMAIN shipped :
    LET f == shipped[k].file IN
      entry[f].kind = "regular" /\ TasksOf(f) # {} => shipped[k].data = Contents(f)

(* No file goes out twice, and a window that is done has sent every file it  *)
(* found.                                                                    *)
ShippedOnce ==
  /\ \A j, k \in DOMAIN shipped : j # k => shipped[j].file # shipped[k].file
  /\ phase = "done" => {shipped[k].file : k \in DOMAIN shipped} =
                         {f \in Files : entry[f].kind # "lost"}

(* `remaining` is what is still to be copied: it reaches zero with the       *)
(* file's last task and never wraps.                                         *)
Uncopied(f) == {k \in next..Len(tasks) : tasks[k].file = f}
RemainingIsUncopied ==
  phase \in {"runs", "extend", "copy", "rest"} =>
    \A f \in Files :
      remaining[f] = SumFunctionOnSet([k \in DOMAIN tasks |-> tasks[k].len], Uncopied(f))
=============================================================================
