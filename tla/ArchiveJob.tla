----------------------------- MODULE ArchiveJob -----------------------------
(* What one run of `tzip` promises, whatever threads and channels carry it   *)
(* out: files are discovered, each discovered file is written to the archive *)
(* at most once, with --sort in name order, and the run may report success   *)
(* only when every file of the input is in the archive.                      *)
(* File f is the f-th file of the input in archive-name order.               *)
EXTENDS Naturals, Sequences

CONSTANTS NumFiles,  \* files under the input paths, after --exclude
          Sort       \* --sort

VARIABLES discovered, archive, exit

vars == <<discovered, archive, exit>>

Files == 1..NumFiles

Written == {archive[i] : i \in 1..Len(archive)}

Init ==
  /\ discovered = {}
  /\ archive = <<>>
  /\ exit = "running"

Discover(f) ==
  /\ exit = "running"
  /\ discovered' = discovered \cup {f}
  /\ UNCHANGED <<archive, exit>>

Write(f) ==
  /\ exit = "running"
  /\ f \in discovered \ Written
  /\ Sort => f = Len(archive) + 1
  /\ archive' = Append(archive, f)
  /\ UNCHANGED <<discovered, exit>>

Succeed ==
  /\ exit = "running"
  /\ discovered = Files
  /\ Written = Files
  /\ exit' = "ok"
  /\ UNCHANGED <<discovered, archive>>

Fail ==
  /\ exit = "running"
  /\ exit' = "error"
  /\ UNCHANGED <<discovered, archive>>

Next ==
  \/ \E f \in Files : Discover(f) \/ Write(f)
  \/ Succeed
  \/ Fail

Spec == Init /\ [][Next]_vars
=============================================================================
