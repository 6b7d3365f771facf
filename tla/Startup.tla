------------------------------- MODULE Startup -------------------------------
(* From the command line to the reader threads: main.rs, cli.rs and, of      *)
(* pipeline.rs, `auto_tune` and the part of `run` that chooses who walks and *)
(* who reads.  What is probed (drives, the user id, io_uring, a device that  *)
(* opens or does not) is a choice.                                           *)
(*                                                                           *)
(* A root is modelled by the medium the host finds it on; the volume on a    *)
(* device that is not mounted is Volume.                                     *)
EXTENDS Integers, Sequences, SequencesExt, FiniteSetsExt

CONSTANTS
  Cores,      \* num_cpus::get_physical
  JobsGiven,  \* values of --jobs
  ReadsGiven, \* values of --read-jobs
  MaxRoots    \* bound on the number of paths

ASSUME StartupAssumption ==
  /\ Cores \in Nat /\ JobsGiven \subseteq Nat /\ ReadsGiven \subseteq Nat /\ MaxRoots \in Nat

VARIABLES
  build,   \* [os, rawApfs, ioUring]
  cmd,     \* the command line
  roots,   \* paths, after into_options
  out,     \* medium of the archive
  opts,    \* Options
  raw,     \* volume of raw_apfs_source; None
  run,     \* [walker, reader, readers, ring], once chosen
  stage    \* "args", "tune", "source", "walk", "choose", "running", "error"

vars == <<build, cmd, roots, out, opts, raw, run, stage>>

NotGiven == -1
AutoJobs == -2
None == "none"
Volume == "volume"

Builds ==
  [os : {"macos"}, rawApfs : BOOLEAN, ioUring : {FALSE}]
    \cup [os : {"linux"}, rawApfs : BOOLEAN, ioUring : BOOLEAN]
    \cup [os : {"other"}, rawApfs : {FALSE}, ioUring : {FALSE}]

Media(os) ==
  CASE os = "macos" -> {"apfs", "usbApfs", "ntfs"}
    [] os = "linux" -> {"hdd", "fatStick", "nvme"}
    [] os = "other" -> {"disk"}
HostRoot(os) == CASE os = "macos" -> "apfs" [] os = "linux" -> "nvme" [] os = "other" -> "disk"

(* What clap accepts: the flags a build does not have are not given.         *)
Commands(b) ==
  [jobs : JobsGiven \cup {NotGiven},
   readJobs : ReadsGiven \cup {NotGiven, AutoJobs},
   keepCache : BOOLEAN, dispatchIo : IF b.os = "macos" THEN BOOLEAN ELSE {FALSE},
   rawBlock : IF b.os = "linux" \/ (b.os = "macos" /\ b.rawApfs) THEN {"on", "off", "notGiven"}
              ELSE {"notGiven"},
   device : IF b.rawApfs THEN BOOLEAN ELSE {FALSE},
   ioUring : IF b.ioUring THEN BOOLEAN ELSE {FALSE},
   solid : BOOLEAN, sort : BOOLEAN, classicWalk : IF b.os = "macos" THEN BOOLEAN ELSE {FALSE}]

NotRunning == [walker |-> None, reader |-> None, readers |-> 0, ring |-> FALSE]

Init ==
  /\ build \in Builds
  /\ cmd \in Commands(build)
  /\ roots \in SeqOf(Media(build.os), MaxRoots)
  /\ out \in Media(build.os)
  /\ opts = None
  /\ raw = None
  /\ run = NotRunning
  /\ stage = "args"

-----------------------------------------------------------------------------
(* cli.rs.                                                                   *)
UserFlags ==
  [keep_cache |-> cmd.keepCache, read_jobs |-> cmd.readJobs # NotGiven,
   dispatch_io |-> cmd.dispatchIo, raw_block |-> cmd.rawBlock # "notGiven"]

CpuJobs == IF cmd.jobs = NotGiven THEN Max({Cores, 1}) ELSE cmd.jobs
ReadJobs ==
  CASE cmd.readJobs = NotGiven -> 2
    [] cmd.readJobs = AutoJobs -> Max({Min({CpuJobs, 8}), 1})
    [] OTHER -> cmd.readJobs

Rejected == cmd.readJobs = 0 \/ (roots = <<>> /\ ~cmd.device)

IntoOptions ==
  /\ stage = "args"
  /\ ~Rejected
  /\ roots' = IF roots = <<>> THEN <<HostRoot(build.os)>> ELSE roots
  /\ opts' = [cpu_jobs |-> CpuJobs, read_jobs |-> ReadJobs, keep_cache |-> cmd.keepCache,
              dispatch_io |-> cmd.dispatchIo, raw_block |-> cmd.rawBlock = "on",
              io_uring |-> cmd.ioUring, user |-> UserFlags]
  /\ stage' = "tune"
  /\ UNCHANGED <<build, cmd, out, raw, run>>

(* Also when a password that is asked for cannot be had.                     *)
ArgsFail ==
  /\ stage = "args"
  /\ stage' = "error"
  /\ UNCHANGED <<build, cmd, roots, out, opts, raw, run>>

-----------------------------------------------------------------------------
(* Defects for the pairs in PROJECT.json.                                    *)

(* The reader count is tuned whether the user gave one or not.               *)
MacReadJobsAlways(usb, rawActive, dispatch) ==
  IF ~usb THEN opts.read_jobs ELSE IF rawActive THEN 8 ELSE IF dispatch THEN 4 ELSE 1

(* A device that does not open is passed over, as a mount is.                *)
DeviceSkipped ==
  /\ stage = "source" /\ ~cmd.solid /\ cmd.device
  /\ stage' = "walk"
  /\ UNCHANGED <<build, cmd, roots, out, opts, raw, run>>

(* --raw-block on Linux looks at its flag and not at the raw source.         *)
ExtentFirst ==
  CASE build.os = "linux" /\ (opts.raw_block \/ opts.io_uring) -> "extent"
    [] raw # None -> "raw"
    [] OTHER -> "local"

-----------------------------------------------------------------------------
(* auto_tune.                                                                *)
TuneDevice ==
  /\ stage = "tune"
  /\ cmd.device
  /\ stage' = "source"
  /\ UNCHANGED <<build, cmd, roots, out, opts, raw, run>>

Seeky(m) == m \in {"hdd", "fatStick"}
HasFiemap(m) == m \in {"hdd", "nvme"}

(* device_traits of the first path; sysfs may not tell.                      *)
TuneLinux ==
  /\ stage = "tune"
  /\ build.os = "linux" /\ ~cmd.device
  /\ \E told \in BOOLEAN :
       LET sweep == /\ ~opts.user.raw_block /\ ~opts.raw_block
                    /\ told /\ Seeky(roots[1]) /\ HasFiemap(roots[1]) IN
       opts' = [opts EXCEPT
         !.raw_block = @ \/ sweep,
         !.read_jobs = IF sweep /\ ~opts.user.read_jobs THEN Min({@, 1}) ELSE @]
  /\ stage' = "source"
  /\ UNCHANGED <<build, cmd, roots, out, raw, run>>

MacReadJobs(usb, rawActive, dispatch) ==
  IF ~usb \/ opts.user.read_jobs THEN opts.read_jobs
  ELSE IF rawActive THEN 8 ELSE IF dispatch THEN 4 ELSE 1

(* probe_path of every path and of the archive, each of which may fail.      *)
TuneMac ==
  /\ stage = "tune"
  /\ build.os = "macos" /\ ~cmd.device
  /\ \E seen \in SUBSET (ToSet(roots) \cup {out}), isRoot \in BOOLEAN :
       LET usb == "usbApfs" \in seen
           rawOn == opts.raw_block \/ (usb /\ build.rawApfs /\ ~opts.user.raw_block /\ isRoot)
           dispatchOn == opts.dispatch_io \/ (usb /\ ~rawOn /\ ~opts.user.dispatch_io) IN
       opts' = [opts EXCEPT
         !.keep_cache = @ \/ (~opts.user.keep_cache /\ (usb \/ "ntfs" \in seen)),
         !.raw_block = rawOn,
         !.dispatch_io = dispatchOn,
         !.read_jobs = MacReadJobs(usb, rawOn, dispatchOn)]
  /\ stage' = "source"
  /\ UNCHANGED <<build, cmd, roots, out, raw, run>>

TuneOther ==
  /\ stage = "tune"
  /\ build.os = "other" /\ ~cmd.device
  /\ stage' = "source"
  /\ UNCHANGED <<build, cmd, roots, out, opts, raw, run>>

-----------------------------------------------------------------------------
(* run: --solid walks and reads on its own.  walker::walk may fail or find   *)
(* nothing.                                                                  *)
WriteSolid ==
  /\ stage = "source"
  /\ cmd.solid
  /\ \/ /\ run' = [walker |-> "vfs", reader |-> "local", readers |-> 1, ring |-> FALSE]
        /\ stage' = "running"
     \/ run' = run /\ stage' = "error"
  /\ UNCHANGED <<build, cmd, roots, out, opts, raw>>

OpenDevice ==
  /\ stage = "source" /\ ~cmd.solid /\ cmd.device
  /\ raw' = Volume
  /\ stage' = "walk"
  /\ UNCHANGED <<build, cmd, roots, out, opts, run>>

OpenDeviceFails ==
  /\ stage = "source" /\ ~cmd.solid /\ cmd.device
  /\ stage' = "error"
  /\ UNCHANGED <<build, cmd, roots, out, opts, raw, run>>

TriesMount == build.os = "macos" /\ ~cmd.device /\ opts.raw_block

(* The volume the first path is on.                                          *)
OpenMount ==
  /\ stage = "source" /\ ~cmd.solid /\ TriesMount
  /\ roots[1] \in {"apfs", "usbApfs"}
  /\ raw' = roots[1]
  /\ stage' = "walk"
  /\ UNCHANGED <<build, cmd, roots, out, opts, run>>

(* No mount asked for, or it cannot be read raw: the usual reader.           *)
NoRawSource ==
  /\ stage = "source" /\ ~cmd.solid /\ ~cmd.device
  /\ stage' = "walk"
  /\ UNCHANGED <<build, cmd, roots, out, opts, raw, run>>

-----------------------------------------------------------------------------
Walker ==
  IF raw # None THEN "raw"
  ELSE IF ~cmd.sort /\ build.os = "macos" /\ ~cmd.classicWalk THEN "bulk" ELSE "vfs"

(* With --sort the walk comes first, and may fail or find nothing.           *)
ChooseWalker ==
  /\ stage = "walk"
  /\ run' = [run EXCEPT !.walker = Walker]
  /\ stage' = "choose"
  /\ UNCHANGED <<build, cmd, roots, out, opts, raw>>

WalkFails ==
  /\ stage = "walk"
  /\ cmd.sort
  /\ stage' = "error"
  /\ UNCHANGED <<build, cmd, roots, out, opts, raw, run>>

CreateFails ==
  /\ stage = "choose"
  /\ stage' = "error"
  /\ UNCHANGED <<build, cmd, roots, out, opts, raw, run>>

Reader ==
  CASE raw # None -> "raw"
    [] raw = None /\ build.os = "linux" /\ (opts.raw_block \/ opts.io_uring) -> "extent"
    [] raw = None /\ build.os = "macos" /\ opts.dispatch_io -> "dispatch"
    [] OTHER -> "local"

ChooseReader ==
  /\ stage = "choose"
  /\ \E available \in BOOLEAN :
       run' = [run EXCEPT !.reader = Reader, !.readers = opts.read_jobs,
                          !.ring = opts.io_uring /\ available /\ Reader = "extent"]
  /\ stage' = "running"
  /\ UNCHANGED <<build, cmd, roots, out, opts, raw>>

Over == stage \in {"running", "error"} /\ UNCHANGED vars

Next ==
  \/ IntoOptions \/ ArgsFail
  \/ TuneDevice \/ TuneLinux \/ TuneMac \/ TuneOther
  \/ WriteSolid \/ OpenDevice \/ OpenDeviceFails \/ OpenMount \/ NoRawSource
  \/ ChooseWalker \/ WalkFails \/ CreateFails \/ ChooseReader
  \/ Over

Spec == Init /\ [][Next]_vars

-----------------------------------------------------------------------------
(* Properties.                                                               *)

(* "User-set flags are never overridden": whatever is probed, what the user  *)
(* gave is what the run starts with, also where one tuned option leads to    *)
(* the next.                                                                 *)
UserFlagsWin ==
  stage \notin {"args", "error"} =>
    /\ cmd.readJobs # NotGiven => opts.read_jobs = ReadJobs
    /\ cmd.rawBlock # "notGiven" => opts.raw_block = (cmd.rawBlock = "on")
    /\ cmd.keepCache => opts.keep_cache
    /\ cmd.dispatchIo => opts.dispatch_io

(* Where a root is meant to be, and where the walk looks for it.             *)
Meant(i) == IF cmd.device THEN Volume ELSE roots[i]
WalkedIn(i) == IF run.walker = "raw" THEN raw ELSE roots[i]

(* Every path of the command line is looked for in the file system it names: *)
(* with --apfs-device in the volume on the device, otherwise on the host.    *)
(* (The raw walker passes over a root it does not find.)                     *)
RootsWalkedWhereMeant ==
  stage = "running" => \A i \in DOMAIN roots : WalkedIn(i) = Meant(i)

(* So it is but in two cases: --solid, which takes no notice of the device,  *)
(* and a raw mount beside a root on another one.                             *)
RootsWalkedWhereMeantBut ==
  stage = "running" =>
    \/ cmd.solid /\ cmd.device
    \/ raw \notin {None, Volume} /\ Len(roots) > 1
    \/ \A i \in DOMAIN roots : WalkedIn(i) = Meant(i)

(* What the raw walker lists (in-volume paths, no directory handle, size 0)  *)
(* is read by the raw source, and nothing else is, on every platform.        *)
WalkerFitsReader == stage = "running" => (run.walker = "raw" <=> run.reader = "raw")
=============================================================================
