------------------------------- MODULE WalkProofs -------------------------------
(* What Startup and Walk promise, for every machine, every number of paths,  *)
(* every value of the flags, and every tree of files on the host or volume.  *)
(*                                                                           *)
(* None of the properties of Startup is inductive: what the user gave has to *)
(* be remembered in opts.user through the tuning (FlagsKept), and the walker *)
(* and the reader are chosen in different steps from a source opened in a    *)
(* third (SourceFits, RunFits).                                              *)
(*                                                                           *)
(* Nor are those of Walk, which speak of a walk at its end, or of two items. *)
(* Their invariant (WInv) says where every file asked for is while the walk  *)
(* goes on: in the list, once, or below exactly one directory that waits     *)
(* (Waiting, Sent, Once), and that a directory that waits carries the name   *)
(* of its path (Named).                                                      *)
EXTENDS Walk, DataLemmas

Places ==
  /\ stage \in {"args", "tune", "source", "walk", "choose", "running", "error"}
  /\ build.os \in {"macos", "linux", "other"}
  /\ roots \in Seq(Media(build.os))
  /\ stage \notin {"args", "error"} => roots # <<>>
  /\ cmd.device \in BOOLEAN /\ cmd.solid \in BOOLEAN /\ cmd.keepCache \in BOOLEAN
  /\ cmd.dispatchIo \in BOOLEAN /\ cmd.ioUring \in BOOLEAN
  /\ cmd.jobs \in Int /\ cmd.readJobs \in Int

Options ==
  [cpu_jobs : Int, read_jobs : Int, keep_cache : BOOLEAN, dispatch_io : BOOLEAN,
   raw_block : BOOLEAN, io_uring : BOOLEAN, user : {UserFlags}]

Chosens == [walker : {None, "raw", "bulk", "vfs"}, reader : {None, "raw", "extent", "dispatch", "local"},
            readers : Int, ring : BOOLEAN]

Tuned == stage \notin {"args", "error"}

FlagsKept ==
  Tuned =>
    /\ opts \in Options
    /\ cmd.readJobs # NotGiven => opts.read_jobs = ReadJobs
    /\ cmd.rawBlock # "notGiven" => opts.raw_block = (cmd.rawBlock = "on")
    /\ cmd.keepCache => opts.keep_cache
    /\ cmd.dispatchIo => opts.dispatch_io

(* The volume of a device, or the one the first path is on.                  *)
SourceFits ==
  /\ stage \in {"args", "tune", "source"} => raw = None /\ run = NotRunning
  /\ raw # None /\ cmd.device => raw = Volume
  /\ raw # None /\ ~cmd.device => roots # <<>> /\ raw = roots[1] /\ raw \in {"apfs", "usbApfs"}
  /\ stage \in {"walk", "choose"} => ~cmd.solid /\ (cmd.device => raw = Volume)

Solid ==
  /\ cmd.solid /\ raw = None
  /\ run = [walker |-> "vfs", reader |-> "local", readers |-> 1, ring |-> FALSE]

RunFits ==
  /\ run \in Chosens
  /\ stage = "choose" => run.walker = Walker
  /\ stage = "running" =>
       \/ Solid
       \/ run.walker = Walker /\ run.reader = Reader /\ (cmd.device => raw = Volume)

IInv == Places /\ FlagsKept /\ SourceFits /\ RunFits

-----------------------------------------------------------------------------

LEMMA OneOfTwo ==
  ASSUME NEW a \in Int, NEW b \in Int
  PROVE  Max({a, b}) \in {a, b} /\ Min({a, b}) \in {a, b}
<1>1. CASE a <= b
  <2>1. (\A x \in {a, b} : b >= x) /\ (\A x \in {a, b} : a <= x)
    BY <1>1
  <2> QED BY <2>1 DEF Max, Min
<1>2. CASE b <= a
  <2>1. (\A x \in {a, b} : a >= x) /\ (\A x \in {a, b} : b <= x)
    BY <1>2
  <2> QED BY <2>1 DEF Max, Min
<1> QED BY <1>1, <1>2

LEMMA OneAtMost == ASSUME NEW n \in Int PROVE Min({n, 1}) \in Int
<1>1. Min({n, 1}) \in {n, 1}
  BY OneOfTwo
<1> QED BY <1>1

LEMMA JobCounts == ASSUME Places PROVE CpuJobs \in Int /\ ReadJobs \in Int
<1>1. CpuJobs \in Int
  BY OneOfTwo, StartupAssumption DEF CpuJobs, Places
<1>2. Min({CpuJobs, 8}) \in Int
  BY <1>1, OneOfTwo
<1>3. Max({Min({CpuJobs, 8}), 1}) \in Int
  BY <1>2, OneOfTwo
<1> QED BY <1>1, <1>3 DEF ReadJobs, Places

LEMMA InitIInv == Init => IInv
<1> SUFFICES ASSUME Init PROVE IInv
  OBVIOUS
<1>1. stage = "args" /\ raw = None /\ run = NotRunning
  BY DEF Init
<1>2. roots \in Seq(Media(build.os))
  BY DEF Init, SeqOf
<1>3. build.os \in {"macos", "linux", "other"}
  BY DEF Init, Builds
<1>4. /\ cmd.device \in BOOLEAN /\ cmd.solid \in BOOLEAN /\ cmd.keepCache \in BOOLEAN
      /\ cmd.dispatchIo \in BOOLEAN /\ cmd.ioUring \in BOOLEAN
      /\ cmd.jobs \in Int /\ cmd.readJobs \in Int
  <2>1. cmd \in Commands(build)
    BY DEF Init
  <2>2. /\ cmd.device \in BOOLEAN /\ cmd.solid \in BOOLEAN /\ cmd.keepCache \in BOOLEAN
        /\ cmd.dispatchIo \in BOOLEAN /\ cmd.ioUring \in BOOLEAN
    BY <2>1 DEF Commands
  <2>3. cmd.jobs \in JobsGiven \cup {NotGiven} /\ cmd.readJobs \in ReadsGiven \cup {NotGiven, AutoJobs}
    BY <2>1 DEF Commands
  <2>4. NotGiven \in Int /\ AutoJobs \in Int
    BY DEF NotGiven, AutoJobs
  <2>5. JobsGiven \subseteq Int /\ ReadsGiven \subseteq Int
    BY StartupAssumption
  <2>6. cmd.jobs \in Int /\ cmd.readJobs \in Int
    BY <2>3, <2>4, <2>5
  <2> QED BY <2>2, <2>6
<1>5. run \in Chosens
  BY <1>1 DEF NotRunning, Chosens
<1> QED BY <1>1, <1>2, <1>3, <1>4, <1>5 DEF IInv, Places, FlagsKept, Tuned, SourceFits, RunFits

LEMMA IntoOptionsKeeps == ASSUME IInv, IntoOptions PROVE IInv'
<1>1. /\ stage = "args" /\ stage' = "tune" /\ cmd' = cmd /\ build' = build
      /\ raw' = raw /\ run' = run
  BY DEF IntoOptions
<1>2. HostRoot(build.os) \in Media(build.os)
  BY DEF HostRoot, Media, IInv, Places
<1>3. roots' \in Seq(Media(build.os)) /\ roots' # <<>>
  <2> DEFINE M == Media(build.os)
             h == HostRoot(build.os)
  <2>1. roots \in Seq(M) /\ h \in M /\ roots' = IF roots = <<>> THEN <<h>> ELSE roots
    BY <1>2 DEF IntoOptions, IInv, Places
  <2> HIDE DEF M, h
  <2>2. roots' \in Seq(M) /\ roots' # <<>>
    BY <2>1
  <2> QED BY <2>2 DEF M
<1>4. Places'
  BY <1>1, <1>3 DEF IInv, Places
<1>5. SourceFits' /\ RunFits'
  BY <1>1 DEF IInv, SourceFits, RunFits, Chosens, None
<1>6. ReadJobs' = ReadJobs /\ UserFlags' = UserFlags
  BY <1>1 DEF ReadJobs, CpuJobs, UserFlags
<1>7. opts' = [cpu_jobs |-> CpuJobs, read_jobs |-> ReadJobs, keep_cache |-> cmd.keepCache,
               dispatch_io |-> cmd.dispatchIo, raw_block |-> cmd.rawBlock = "on",
               io_uring |-> cmd.ioUring, user |-> UserFlags]
  BY DEF IntoOptions
<1>8. opts' \in Options'
  BY <1>6, <1>7, JobCounts DEF Options, IInv, Places
<1>9. FlagsKept'
  BY <1>1, <1>6, <1>7, <1>8 DEF FlagsKept
<1> QED BY <1>4, <1>5, <1>9 DEF IInv

(* What leaves the options alone.                                            *)
LEMMA SameOptions ==
  ASSUME IInv, opts' = opts, cmd' = cmd, Tuned' => Tuned
  PROVE  FlagsKept'
  BY DEF IInv, FlagsKept, Tuned, UserFlags, ReadJobs, CpuJobs, Options

(* What may become of the options while the flags stand.                     *)
LEMMA NewOptions ==
  ASSUME IInv, Tuned, cmd' = cmd,
         NEW keep \in BOOLEAN, NEW rawOn \in BOOLEAN, NEW gcd \in BOOLEAN, NEW jobs \in Int,
         opts' = [opts EXCEPT !.keep_cache = keep, !.raw_block = rawOn,
                              !.dispatch_io = gcd, !.read_jobs = jobs],
         opts.keep_cache => keep, opts.dispatch_io => gcd,
         opts.user.raw_block => rawOn = opts.raw_block,
         opts.user.read_jobs => jobs = opts.read_jobs
  PROVE  FlagsKept'
<1>1. ReadJobs' = ReadJobs /\ UserFlags' = UserFlags
  BY DEF ReadJobs, CpuJobs, UserFlags
<1>2. /\ opts \in Options
      /\ opts.user.raw_block = (cmd.rawBlock # "notGiven")
      /\ opts.user.read_jobs = (cmd.readJobs # NotGiven)
  BY DEF IInv, FlagsKept, UserFlags, Options
<1>3. /\ opts' \in Options'
      /\ opts'.read_jobs = jobs /\ opts'.keep_cache = keep
      /\ opts'.dispatch_io = gcd /\ opts'.raw_block = rawOn
  BY <1>1, <1>2 DEF Options
<1>4. /\ cmd.readJobs # NotGiven => jobs = ReadJobs
      /\ cmd.rawBlock # "notGiven" => rawOn = (cmd.rawBlock = "on")
      /\ cmd.keepCache => keep
      /\ cmd.dispatchIo => gcd
  BY <1>2 DEF IInv, FlagsKept
<1> QED BY <1>1, <1>3, <1>4 DEF FlagsKept

LEMMA TuneKeeps ==
  ASSUME IInv, TuneDevice \/ TuneLinux \/ TuneMac \/ TuneOther
  PROVE  IInv'
<1>1. /\ stage = "tune" /\ stage' = "source"
      /\ cmd' = cmd /\ build' = build /\ roots' = roots /\ raw' = raw /\ run' = run
  BY DEF TuneDevice, TuneLinux, TuneMac, TuneOther
<1>2. Places' /\ SourceFits' /\ RunFits'
  BY <1>1 DEF IInv, Places, SourceFits, RunFits
<1>7. /\ Tuned /\ opts \in Options
      /\ opts.raw_block \in BOOLEAN /\ opts.keep_cache \in BOOLEAN
      /\ opts.dispatch_io \in BOOLEAN /\ opts.read_jobs \in Int
  BY <1>1 DEF IInv, Tuned, FlagsKept, Options
<1>8. opts.read_jobs \in Int
  BY <1>7 DEF Options
<1>4. CASE TuneDevice \/ TuneOther
  BY <1>1, <1>2, <1>4, SameOptions DEF TuneDevice, TuneOther, IInv, Tuned
<1>5. CASE TuneLinux
  <2>1. PICK told \in BOOLEAN :
          LET sweep == /\ ~opts.user.raw_block /\ ~opts.raw_block
                       /\ told /\ Seeky(roots[1]) /\ HasFiemap(roots[1]) IN
          opts' = [opts EXCEPT
            !.raw_block = @ \/ sweep,
            !.read_jobs = IF sweep /\ ~opts.user.read_jobs THEN Min({@, 1}) ELSE @]
    BY <1>5 DEF TuneLinux
  <2> DEFINE sweep == /\ ~opts.user.raw_block /\ ~opts.raw_block
                      /\ told /\ Seeky(roots[1]) /\ HasFiemap(roots[1])
             jobs == IF sweep /\ ~opts.user.read_jobs THEN Min({opts.read_jobs, 1})
                     ELSE opts.read_jobs
             rawOn == opts.raw_block \/ sweep
  <2>2. opts' = [opts EXCEPT !.keep_cache = opts.keep_cache, !.raw_block = rawOn,
                             !.dispatch_io = opts.dispatch_io, !.read_jobs = jobs]
    BY <1>7, <2>1 DEF Options
  <2>3. /\ rawOn \in BOOLEAN
        /\ opts.user.raw_block => rawOn = opts.raw_block
    BY <1>7
  <2>5. jobs \in Int /\ (opts.user.read_jobs => jobs = opts.read_jobs)
    <3>1. Min({opts.read_jobs, 1}) \in Int
      BY <1>8, OneAtMost
    <3> HIDE DEF sweep
    <3> QED BY <1>8, <3>1
  <2> HIDE DEF sweep, jobs, rawOn
  <2>4. FlagsKept'
    BY <1>1, <1>7, <2>2, <2>3, <2>5, NewOptions
  <2> QED BY <1>2, <2>4 DEF IInv
<1>6. CASE TuneMac
  <2>1. PICK seen \in SUBSET (ToSet(roots) \cup {out}), isRoot \in BOOLEAN :
          LET usb == "usbApfs" \in seen
              rawOn == opts.raw_block \/ (usb /\ build.rawApfs /\ ~opts.user.raw_block /\ isRoot)
              dispatchOn == opts.dispatch_io \/ (usb /\ ~rawOn /\ ~opts.user.dispatch_io) IN
          opts' = [opts EXCEPT
            !.keep_cache = @ \/ (~opts.user.keep_cache /\ (usb \/ "ntfs" \in seen)),
            !.raw_block = rawOn,
            !.dispatch_io = dispatchOn,
            !.read_jobs = MacReadJobs(usb, rawOn, dispatchOn)]
    BY <1>6 DEF TuneMac
  <2> DEFINE usb == "usbApfs" \in seen
             rawOn == opts.raw_block \/ (usb /\ build.rawApfs /\ ~opts.user.raw_block /\ isRoot)
             gcd == opts.dispatch_io \/ (usb /\ ~rawOn /\ ~opts.user.dispatch_io)
             keep == opts.keep_cache \/ (~opts.user.keep_cache /\ (usb \/ "ntfs" \in seen))
             jobs == MacReadJobs(usb, rawOn, gcd)
  <2>2. opts' = [opts EXCEPT !.keep_cache = keep, !.raw_block = rawOn,
                             !.dispatch_io = gcd, !.read_jobs = jobs]
    BY <2>1
  <2>3. /\ rawOn \in BOOLEAN /\ gcd \in BOOLEAN /\ keep \in BOOLEAN
        /\ jobs \in Int
        /\ opts.keep_cache => keep
        /\ opts.dispatch_io => gcd
        /\ opts.user.raw_block => rawOn = opts.raw_block
        /\ opts.user.read_jobs => jobs = opts.read_jobs
    BY <1>7 DEF MacReadJobs
  <2> HIDE DEF usb, rawOn, gcd, keep, jobs
  <2>4. FlagsKept'
    BY <1>1, <1>7, <2>2, <2>3, NewOptions
  <2> QED BY <1>2, <2>4 DEF IInv
<1> QED BY <1>4, <1>5, <1>6

LEMMA SourceKeeps ==
  ASSUME IInv, WriteSolid \/ OpenDevice \/ OpenMount \/ NoRawSource
  PROVE  IInv'
<1>1. /\ stage = "source" /\ stage' \in {"walk", "running", "error"}
      /\ cmd' = cmd /\ build' = build /\ roots' = roots /\ opts' = opts
  BY DEF WriteSolid, OpenDevice, OpenMount, NoRawSource
<1>2. Places' /\ FlagsKept'
  BY <1>1, SameOptions DEF IInv, Places, Tuned
<1>3. raw = None /\ run = NotRunning
  BY <1>1 DEF IInv, SourceFits
<1>4. CASE WriteSolid
  <2>1. CASE stage' = "error"
    BY <1>2, <1>3, <1>4, <2>1 DEF WriteSolid, IInv, SourceFits, RunFits
  <2>2. CASE stage' = "running" /\ run' = [walker |-> "vfs", reader |-> "local",
                                           readers |-> 1, ring |-> FALSE]
    <3>1. Solid' /\ run' \in Chosens
      BY <1>3, <1>4, <2>2 DEF WriteSolid, Solid, Chosens
    <3> QED BY <1>2, <1>3, <1>4, <2>2, <3>1 DEF WriteSolid, IInv, SourceFits, RunFits
  <2> QED BY <1>4, <2>1, <2>2 DEF WriteSolid
<1>5. CASE OpenDevice
  BY <1>2, <1>3, <1>5 DEF OpenDevice, IInv, SourceFits, RunFits, NotRunning, None, Volume
<1>6. CASE OpenMount
  <2>1. roots # <<>>
    BY <1>1 DEF IInv, Places
  <2> QED BY <1>2, <1>3, <1>6, <2>1
          DEF OpenMount, TriesMount, IInv, SourceFits, RunFits, NotRunning, None, Volume
<1>7. CASE NoRawSource
  BY <1>2, <1>3, <1>7 DEF NoRawSource, IInv, SourceFits, RunFits, NotRunning, None
<1> QED BY <1>4, <1>5, <1>6, <1>7

LEMMA ChooseKeeps ==
  ASSUME IInv, ChooseWalker \/ ChooseReader
  PROVE  IInv'
<1>1. /\ stage \in {"walk", "choose"} /\ stage' \in {"choose", "running"}
      /\ UNCHANGED <<build, cmd, roots, opts, raw>>
  BY DEF ChooseWalker, ChooseReader
<1>2. Places' /\ FlagsKept' /\ SourceFits'
  BY <1>1, SameOptions DEF IInv, Places, Tuned, SourceFits, ChooseWalker, ChooseReader
<1>3. Walker' = Walker /\ Reader' = Reader
  BY <1>1 DEF Walker, Reader
<1>4. CASE ChooseWalker
  <2>1. stage' = "choose" /\ run' = [run EXCEPT !.walker = Walker] /\ run \in Chosens
    BY <1>4 DEF ChooseWalker, IInv, RunFits
  <2>2. run' \in Chosens /\ run'.walker = Walker
    BY <2>1 DEF Chosens, Walker
  <2> QED BY <1>2, <1>3, <2>1, <2>2 DEF IInv, RunFits
<1>5. CASE ChooseReader
  <2>1. PICK available \in BOOLEAN :
          run' = [run EXCEPT !.reader = Reader, !.readers = opts.read_jobs,
                             !.ring = opts.io_uring /\ available /\ Reader = "extent"]
    BY <1>5 DEF ChooseReader
  <2>2. /\ run \in Chosens /\ run.walker = Walker /\ stage' = "running"
        /\ opts.read_jobs \in Int /\ (cmd.device => raw = Volume)
    BY <1>1, <1>5 DEF ChooseReader, IInv, RunFits, SourceFits, FlagsKept, Tuned, Options
  <2>3. run' \in Chosens /\ run'.walker = Walker /\ run'.reader = Reader
    BY <2>1, <2>2 DEF Chosens, Reader
  <2> QED BY <1>1, <1>2, <1>3, <2>2, <2>3 DEF IInv, RunFits
<1> QED BY <1>4, <1>5

LEMMA FailKeeps ==
  ASSUME IInv, stage' = "error", UNCHANGED <<build, cmd, roots, raw, run>>
  PROVE  IInv'
  BY DEF IInv, Places, FlagsKept, Tuned, SourceFits, RunFits, Chosens

LEMMA StartupStep == IInv /\ [Next]_vars => IInv'
<1> SUFFICES ASSUME IInv, [Next]_vars PROVE IInv'
  OBVIOUS
<1>1. CASE IntoOptions
  BY <1>1, IntoOptionsKeeps
<1>2. CASE TuneDevice \/ TuneLinux \/ TuneMac \/ TuneOther
  BY <1>2, TuneKeeps
<1>3. CASE WriteSolid \/ OpenDevice \/ OpenMount \/ NoRawSource
  BY <1>3, SourceKeeps
<1>4. CASE ChooseWalker \/ ChooseReader
  BY <1>4, ChooseKeeps
<1>5. CASE ArgsFail \/ OpenDeviceFails \/ WalkFails \/ CreateFails
  BY <1>5, FailKeeps DEF ArgsFail, OpenDeviceFails, WalkFails, CreateFails
<1>6. CASE UNCHANGED vars
  BY <1>6 DEF vars, IInv, Places, FlagsKept, Tuned, SourceFits, RunFits, Solid,
              UserFlags, ReadJobs, CpuJobs, Walker, Reader, Options, Chosens
<1> QED BY <1>1, <1>2, <1>3, <1>4, <1>5, <1>6 DEF Next, Over

(* From the command line to the threads: the flags are remembered as they    *)
(* were given, the source is that of the device or of the first path, and    *)
(* walker and reader are chosen from it.                                     *)
THEOREM StartupInvariant == Spec => []IInv
<1>1. Init => IInv
  BY InitIInv
<1>2. IInv /\ [Next]_vars => IInv'
  BY StartupStep
<1> QED BY <1>1, <1>2, PTL DEF Spec

-----------------------------------------------------------------------------

(* What the user gave is what the run starts with, whatever is probed.       *)
THEOREM FlagsAreNotOverridden == Spec => []UserFlagsWin
<1>1. IInv => UserFlagsWin
  BY DEF IInv, FlagsKept, Tuned, UserFlagsWin
<1> QED BY <1>1, StartupInvariant, PTL

(* But for --solid with a device, and a raw mount beside another path, every *)
(* path is looked for in the file system it names.                           *)
THEOREM RootsAreWalkedThere == Spec => []RootsWalkedWhereMeantBut
<1>1. IInv => RootsWalkedWhereMeantBut
  <2> SUFFICES ASSUME IInv, stage = "running", ~(cmd.solid /\ cmd.device),
                      ~(raw \notin {None, Volume} /\ Len(roots) > 1),
                      NEW i \in DOMAIN roots
               PROVE  WalkedIn(i) = Meant(i)
    BY DEF RootsWalkedWhereMeantBut
  <2>1. CASE Solid
    BY <2>1 DEF Solid, WalkedIn, Meant
  <2>2. CASE run.walker = Walker /\ (cmd.device => raw = Volume)
    <3>1. CASE raw = None
      BY <2>2, <3>1 DEF Walker, WalkedIn, Meant, None, Volume
    <3>2. CASE raw # None /\ cmd.device
      BY <2>2, <3>2 DEF Walker, WalkedIn, Meant
    <3>3. CASE raw # None /\ ~cmd.device
      <4>1. raw = roots[1] /\ raw \notin {None, Volume}
        BY <3>3 DEF IInv, SourceFits, None, Volume
      <4>2. i = 1
        BY <4>1 DEF IInv, Places
      <4> QED BY <2>2, <3>3, <4>1, <4>2 DEF Walker, WalkedIn, Meant
    <3> QED BY <3>1, <3>2, <3>3
  <2> QED BY <2>1, <2>2 DEF IInv, RunFits
<1> QED BY <1>1, StartupInvariant, PTL

(* The raw source reads what the raw walker lists, and nothing else.         *)
THEOREM RawReadsRaw == Spec => []WalkerFitsReader
<1>1. IInv => WalkerFitsReader
  BY DEF IInv, RunFits, Solid, WalkerFitsReader, Walker, Reader
<1> QED BY <1>1, StartupInvariant, PTL

-----------------------------------------------------------------------------
(* The invariant of a walk.                                                  *)

(* A directory of a tree: the root is one.                                   *)
IsDir(tree, p) == p = <<>> \/ (p \in DOMAIN tree /\ tree[p].kind = "dir")

(* Below one of the directories that wait.                                   *)
Above(dirs, p) == \E d \in dirs : IsPrefix(d.path, p)

(* What is asked of an item: where it is and what it is called.              *)
EntryOf(x) == [root |-> x.root, path |-> x.path, name |-> x.name]

(* The directories of a root that wait: none below another.                  *)
Waiting(tree, r, dirs) ==
  /\ \A d \in dirs : d.path \in Path /\ IsDir(tree, d.path) /\ IsPrefix(r, d.path)
  /\ \A d, e \in dirs : IsPrefix(d.path, e.path) => d = e

(* What is asked for is sent or below a directory that waits, and not both.  *)
Sent(i, asked, dirs, sent) ==
  /\ \A k \in DOMAIN sent : sent[k].root = i =>
       EntryOf(sent[k]) \in asked /\ ~Above(dirs, sent[k].path)
  /\ \A e \in asked : Above(dirs, e.path) \/ \E k \in DOMAIN sent : EntryOf(sent[k]) = e

(* No file of a root is sent twice.                                          *)
Once(sent) ==
  \A k, l \in DOMAIN sent :
    sent[k].root = sent[l].root /\ sent[k].path = sent[l].path => k = l

(* A work item.                                                              *)
WorkItem ==
  [root : Nat, path : Path, name : Seq(Byte), mtime : [date : Int, time : Int]]

(* A walk runs in a started program, on trees, over the roots it was given.  *)
Setting ==
  /\ Len(roots) <= MaxRoots
  /\ listing \in {"none", "walking", "listed", "failed"}
  /\ listing # "none" =>
       /\ stage = "running" /\ run.walker \in {"raw", "bulk", "vfs"}
       /\ IsTree(host.tree) /\ IsTree(volume)
       /\ host.time.day \in Int /\ host.time.sec \in Nat /\ host.time.sec < 86400
       /\ DOMAIN ask.given = DOMAIN roots /\ DOMAIN pending = DOMAIN roots
       /\ \A i \in DOMAIN roots : IsRoot(ask.given[i])
       /\ entered \subseteq DOMAIN roots

(* A directory that waits carries the name that its path has.                *)
Named(i, r, dirs) ==
  run.walker = "vfs" \/ \A d \in dirs : d.prefix = NameOf(i, r, d.path)

(* What is archived at all: the raw walker takes links and special files too.*)
Archived == IF Raw THEN {"file", "link", "other"} ELSE {"file"}
AskedFor(i, r) == AskedUnder(i, r, Archived)

(* What of a root was passed over unread.                                    *)
Lost(i) == {u.path : u \in {v \in unread : v.root = i}}

(* What is to be sent of a root: what is asked for, but below what was passed*)
(* over and waits no more; or a raw root that was taken for a file.          *)
RootEntry(i, r) == [root |-> i, path |-> r, name |-> NameOf(i, r, r)]
Fits(i, r, dirs, lost, asked) ==
  /\ \A e \in asked : \/ e \in AskedFor(i, r)
                      \/ Raw /\ dirs = {} /\ r \in lost /\ e = RootEntry(i, r)
  /\ \A e \in AskedFor(i, r) :
       e \in asked \/ (~Above(dirs, e.path) /\ \E p \in lost : IsPrefix(p, e.path))

(* What holds of a root once it is entered, whether it is there or not.      *)
Kept(i, dirs, sent, lost) ==
  /\ RootAt(i) = {} => Raw /\ dirs = {} /\ \A k \in DOMAIN sent : sent[k].root # i
  /\ \A r \in RootAt(i) :
       /\ Waiting(TreeWalked, r, dirs)
       /\ Named(i, r, dirs)
       /\ \E asked : Fits(i, r, dirs, lost, asked) /\ Sent(i, asked, dirs, sent)

(* What is passed over is a directory of jwalk's or a root of the raw walker.*)
Excused(u) ==
  /\ u.root \in entered
  /\ run.walker = "vfs" \/ (Raw /\ u.path \in RootAt(u.root))

(* Every root is entered and kept, or has yet to be.                         *)
Progress ==
  listing # "none" =>
    /\ \A i \in entered : Kept(i, pending[i], items, Lost(i))
    /\ \A i \in DOMAIN roots \ entered : pending[i] = {}
    /\ \A k \in DOMAIN items : items[k].root \in entered
    /\ Once(items)
    /\ \A u \in unread : Excused(u)

(* Every item has the time of its file, or the first moment.                 *)
Timed ==
  /\ items \in Seq(WorkItem)
  /\ listing = "none" => items = <<>> /\ entered = {} /\ unread = {}
  /\ \A k \in DOMAIN items :
       items[k].mtime = DosTime(host.time) \/ (items[k].mtime = Epoch /\ run.walker # "vfs")

(* A walk that is over has entered all roots and listed all directories.     *)
AllSent ==
  listing = "listed" => entered = DOMAIN roots /\ \A i \in DOMAIN roots : pending[i] = {}

(* The inductive invariant of a walk, together with that of the startup.     *)
WInv == Setting /\ Progress /\ Timed /\ AllSent

-----------------------------------------------------------------------------
(* The calendar: civil_from_days and dos_time, against the calendar of Walk. *)

(* The days before a year of an era.                                         *)
Before(yoe) == 365 * yoe + yoe \div 4 - yoe \div 100

(* In the years of an era up to the hundred and seventh: the year of a day,  *)
(* and that the day is in it.                                                *)
LEMMA Early ==
  ASSUME NEW doe \in Nat, doe <= 39386
  PROVE  /\ YearOfEra(doe) \in 0..107
         /\ Before(YearOfEra(doe)) <= doe
         /\ doe < Before(YearOfEra(doe) + 1)
BY SMTT(60) DEF YearOfEra, Before

(* The same from the three hundred and sixty-ninth to the end of an era,     *)
(* whose last day is the leap day.                                           *)
LEMMA LateEra ==
  ASSUME NEW doe \in Nat, doe >= 135080, doe <= 146096
  PROVE  /\ YearOfEra(doe) \in 369..399
         /\ Before(YearOfEra(doe)) <= doe
         /\ doe < Before(YearOfEra(doe) + 1) \/ (doe = 146096 /\ YearOfEra(doe) = 399)
BY SMTT(60) DEF YearOfEra, Before

(* To the end of 2107: the year that begins in March, and the day in it.     *)
LEMMA YearIs ==
  ASSUME NEW day \in Nat, day < 50403,
         NEW era, era = (day + 719468) \div 146097, NEW doe, doe = day + 719468 - era * 146097
  PROVE  /\ era \in {4, 5} /\ doe \in Nat /\ YearOfEra(doe) \in 0..399
         /\ Before(YearOfEra(doe)) <= doe
         /\ (doe < Before(YearOfEra(doe) + 1) \/ (doe = 146096 /\ YearOfEra(doe) = 399))
<1>1. \/ era = 4 /\ doe \in Nat /\ doe >= 135080 /\ doe <= 146096
      \/ era = 5 /\ doe \in Nat /\ doe <= 39386
  OBVIOUS
<1>2. CASE era = 4
  BY <1>1, <1>2, LateEra
<1>3. CASE era = 5
  <2>1. doe \in Nat /\ doe <= 39386
    BY <1>1, <1>3
  <2>2. YearOfEra(doe) \in 0..107
    BY <2>1, Early
  <2>3. YearOfEra(doe) \in 0..399 /\ YearOfEra(doe) # 399
    BY <2>2
  <2> QED BY <1>3, <2>1, <2>3, Early
<1> QED BY <1>1, <1>2, <1>3

(* The month of a day in a March year, and the day in it.                    *)
MonthFrom(doy, mp, m, d) ==
  /\ doy \in 0..365 /\ mp = (5 * doy + 2) \div 153
  /\ m = IF mp < 10 THEN mp + 3 ELSE mp - 9
  /\ d = doy - (153 * mp + 2) \div 5 + 1

MonthFits(doy, m, d) ==
  /\ m \in 1..12 /\ d \in 1..31
  /\ MonthStart[m] \in Nat /\ MonthStart[m + 1] \in Nat
  /\ m > 2 => doy = MonthStart[m] - 59 + d - 1 /\ doy < MonthStart[m + 1] - 59
  /\ m <= 2 => doy = MonthStart[m] + 306 + d - 1
  /\ m = 1 => doy < MonthStart[2] + 306

(* civil_from_days finds the month, and the day of the month, of a day of    *)
(* the year that begins in March.                                            *)
LEMMA MonthIs ==
  ASSUME NEW doy, NEW mp, NEW m, NEW d, MonthFrom(doy, mp, m, d)
  PROVE  MonthFits(doy, m, d)
<1>1. mp \in 0..11
  BY DEF MonthFrom
<1>2. CASE mp \in {0, 1, 2, 3}
  BY <1>2 DEF MonthStart, MonthFrom, MonthFits
<1>3. CASE mp \in {4, 5, 6, 7}
  BY <1>3 DEF MonthStart, MonthFrom, MonthFits
<1>4. CASE mp \in {8, 9, 10, 11}
  BY <1>4 DEF MonthStart, MonthFrom, MonthFits
<1> QED BY <1>1, <1>2, <1>3, <1>4

(* Day 1 of a month, in terms of March years of an era.                      *)
Begins(era, yoe, m) ==
  146097 * era + Before(yoe) - 719468 + MonthStart[m] + IF m > 2 THEN -59 ELSE 306

IsYear(y, era, yoe, m) ==
  /\ era \in {4, 5} /\ yoe \in 0..399 /\ m \in 1..13
  /\ y = yoe + era * 400 + IF m <= 2 THEN 1 ELSE 0

(* What StartOf says of the first day of a month, counted from the era and   *)
(* the year of the era.                                                      *)
LEMMA MonthBegins ==
  ASSUME NEW era, NEW yoe, NEW m, NEW y, IsYear(y, era, yoe, m)
  PROVE  StartOf(y, m) = Begins(era, yoe, m)
<1>1. PICK s : s = MonthStart[m]
  OBVIOUS
<1>2. Leaps(1970) = 477
  BY DEF Leaps
<1>3. s \in Nat
  BY <1>1 DEF MonthStart, IsYear
<1>4. CASE m > 2
  <2>1. Leaps(y + 1) = 97 * era + yoe \div 4 - yoe \div 100
    BY <1>4 DEF Leaps, IsYear
  <2>2. Leaps(y) \in Int /\ Leaps(y + 1) \in Int
    BY <1>4 DEF Leaps, IsYear
  <2>3. StartOf(y, m) = 365 * (y - 1970) + Leaps(y + 1) - 477 + s
    <3>1. PICK l, n \in Int : l = Leaps(y) /\ n = Leaps(y + 1)
      BY <2>2
    <3>2. StartOf(y, m) = 365 * (y - 1970) + l - 477 + s + (n - l)
      BY <1>1, <1>2, <1>4, <3>1 DEF StartOf
    <3> QED BY <1>3, <3>1, <3>2 DEF IsYear
  <2> QED BY <1>1, <1>3, <1>4, <2>1, <2>3 DEF Before, Begins, IsYear
<1>5. CASE m <= 2
  <2>1. Leaps(y) = 97 * era + yoe \div 4 - yoe \div 100
    BY <1>5 DEF Leaps, IsYear
  <2>2. StartOf(y, m) = 365 * (y - 1970) + Leaps(y) - 477 + s
    BY <1>1, <1>2, <1>3, <1>5, <2>1 DEF StartOf, IsYear
  <2> QED BY <1>1, <1>3, <1>5, <2>1, <2>2 DEF Before, Begins, IsYear
<1> QED BY <1>4, <1>5 DEF IsYear

(* The date of a day is the month it lies in, and which day of it.           *)
LEMMA DateIs ==
  ASSUME NEW day \in Nat, day < 50403, NEW c, c = CivilFromDays(day)
  PROVE  /\ c.y \in Nat /\ c.m \in 1..12 /\ c.d \in 1..31
         /\ StartOf(c.y, c.m) + c.d - 1 = day /\ day < StartOf(c.y, c.m + 1)
<1> DEFINE z == day + 719468
           era == z \div 146097
           doe == z - era * 146097
           yoe == YearOfEra(doe)
           doy == doe - (365 * yoe + yoe \div 4 - yoe \div 100)
           mp == (5 * doy + 2) \div 153
           m == IF mp < 10 THEN mp + 3 ELSE mp - 9
           d == doy - (153 * mp + 2) \div 5 + 1
           y == yoe + era * 400 + IF m <= 2 THEN 1 ELSE 0
<1>7. c.y = y /\ c.m = m /\ c.d = d
  <2>1. c = [y |-> y, m |-> m, d |-> d]
    BY DEF CivilFromDays
  <2> HIDE DEF y, m, d
  <2> QED BY <2>1
<1>1. era = (day + 719468) \div 146097 /\ doe = day + 719468 - era * 146097
  OBVIOUS
<1>2. yoe = YearOfEra(doe)
  OBVIOUS
<1>3. doy = doe - (365 * yoe + yoe \div 4 - yoe \div 100)
  OBVIOUS
<1>4. mp = (5 * doy + 2) \div 153
  OBVIOUS
<1>5. m = (IF mp < 10 THEN mp + 3 ELSE mp - 9) /\ d = doy - (153 * mp + 2) \div 5 + 1
  OBVIOUS
<1>6. y = yoe + era * 400 + IF m <= 2 THEN 1 ELSE 0
  OBVIOUS
<1> HIDE DEF z, era, doe, yoe, doy, mp, m, d, y
<1>8. /\ era \in {4, 5} /\ doe \in Nat /\ yoe \in 0..399 /\ Before(yoe) <= doe
      /\ (doe < Before(yoe + 1) \/ (doe = 146096 /\ yoe = 399))
  BY <1>1, <1>2, YearIs
<1>9. doy = doe - Before(yoe) /\ doy \in 0..365
  BY <1>3, <1>8 DEF Before
<1>10. MonthFits(doy, m, d)
  <2>1. MonthFrom(doy, mp, m, d)
    BY <1>4, <1>5, <1>9 DEF MonthFrom
  <2> QED BY <2>1, MonthIs
<1>11. PICK a, b \in Nat : a = MonthStart[m] /\ b = MonthStart[m + 1]
  BY <1>10 DEF MonthFits
<1>12. /\ m \in 1..12 /\ d \in 1..31
       /\ (m > 2 => doy = a - 59 + d - 1 /\ doy < b - 59)
       /\ (m <= 2 => doy = a + 306 + d - 1)
       /\ (m = 1 => doy < b + 306)
  BY <1>10, <1>11 DEF MonthFits
<1>13. y \in Nat
  BY <1>6, <1>8, <1>12
<1>14. PICK v, w \in Int : v = Before(yoe) /\ w = Before(yoe + 1)
  BY <1>8 DEF Before
<1>15. StartOf(y, m) + d - 1 = day
  <2>1. IsYear(y, era, yoe, m)
    BY <1>6, <1>8, <1>12 DEF IsYear
  <2>2. StartOf(y, m) = Begins(era, yoe, m)
    BY <2>1, MonthBegins
  <2>3. StartOf(y, m) = 146097 * era + v - 719468 + a + IF m > 2 THEN -59 ELSE 306
    BY <1>11, <1>14, <2>2 DEF Begins
  <2> QED BY <1>1, <1>8, <1>9, <1>12, <1>14, <2>3
<1>16. CASE m > 2
  <2>1. IsYear(y, era, yoe, m + 1)
    BY <1>6, <1>8, <1>12, <1>16 DEF IsYear
  <2>2. StartOf(y, m + 1) = Begins(era, yoe, m + 1)
    BY <2>1, MonthBegins
  <2>3. StartOf(y, m + 1) = 146097 * era + v - 719468 + b - 59
    BY <1>8, <1>11, <1>12, <1>14, <1>16, <2>2 DEF Begins
  <2>4. day < StartOf(y, m + 1)
    BY <1>1, <1>8, <1>9, <1>12, <1>14, <1>16, <2>3
  <2> QED BY <1>7, <1>12, <1>13, <1>15, <2>4
<1>17. CASE m = 1
  <2>1. IsYear(y, era, yoe, 2)
    BY <1>6, <1>8, <1>17 DEF IsYear
  <2>2. StartOf(y, 2) = Begins(era, yoe, 2)
    BY <2>1, MonthBegins
  <2>3. StartOf(y, 2) = 146097 * era + v - 719468 + b + 306
    BY <1>11, <1>14, <1>17, <2>2 DEF Begins
  <2>4. day < StartOf(y, 2)
    BY <1>1, <1>8, <1>9, <1>12, <1>14, <1>17, <2>3
  <2> QED BY <1>7, <1>12, <1>13, <1>15, <1>17, <2>4
<1>18. CASE m = 2 /\ yoe < 399
  <2>1. IsYear(y, era, yoe + 1, 3)
    BY <1>6, <1>8, <1>18 DEF IsYear
  <2>2. StartOf(y, 3) = Begins(era, yoe + 1, 3)
    BY <2>1, MonthBegins
  <2>3. StartOf(y, 3) = 146097 * era + w - 719468
    BY <1>8, <1>14, <2>2 DEF Begins, MonthStart
  <2>4. day < StartOf(y, 3)
    BY <1>1, <1>8, <1>14, <1>18, <2>3
  <2> QED BY <1>7, <1>12, <1>13, <1>15, <1>18, <2>4
<1>19. CASE m = 2 /\ yoe = 399
  <2>1. IsYear(y, era + 1, 0, 3) \/ era = 5
    BY <1>6, <1>8, <1>19 DEF IsYear
  <2>2. era = 4
    BY <1>1, <1>8, <1>19 DEF Before
  <2>3. StartOf(y, 3) = Begins(5, 0, 3)
    BY <2>1, <2>2, MonthBegins
  <2>4. StartOf(y, 3) = 11017
    BY <2>3 DEF Begins, MonthStart, Before
  <2>5. day < 11017
    BY <1>1, <2>2
  <2> QED BY <1>7, <1>12, <1>13, <1>15, <1>19, <2>4, <2>5
<1> QED BY <1>8, <1>12, <1>16, <1>17, <1>18, <1>19

(* The first day of a year, and that the months of a year begin within it.   *)
LEMMA YearBegins ==
  ASSUME NEW y \in Nat
  PROVE  /\ StartOf(y, 1) = 365 * (y - 1970) + Leaps(y) - 477 /\ Leaps(y) \in Int
         /\ \A m \in 1..13 : StartOf(y, m) \in Int /\ StartOf(y, 1) <= StartOf(y, m)
                              /\ StartOf(y, m) <= StartOf(y + 1, 1)
<1>1. Leaps(1970) = 477
  BY DEF Leaps
<1>2. PICK l, k \in Int : l = Leaps(y) /\ k = Leaps(y + 1) /\ k \in {l, l + 1}
  BY DEF Leaps
<1>3. StartOf(y, 1) = 365 * (y - 1970) + l - 477
  BY <1>1, <1>2 DEF StartOf, MonthStart
<1>4. StartOf(y + 1, 1) = 365 * (y + 1 - 1970) + k - 477
  BY <1>1, <1>2 DEF StartOf, MonthStart
<1>5. ASSUME NEW m \in 1..13
      PROVE  StartOf(y, m) \in Int /\ StartOf(y, 1) <= StartOf(y, m) /\ StartOf(y, m) <= StartOf(y + 1, 1)
  <2>1. PICK s : s = MonthStart[m]
    OBVIOUS
  <2>2. s \in 0..365 /\ (m <= 2 => s <= 31)
    BY <2>1 DEF MonthStart
  <2>3. StartOf(y, m) = 365 * (y - 1970) + l - 477 + s + IF m > 2 THEN k - l ELSE 0
    BY <1>1, <1>2, <2>1, <2>2 DEF StartOf
  <2> QED BY <1>2, <1>3, <1>4, <2>2, <2>3
<1> QED BY <1>2, <1>3, <1>5

(* The days of the format are those of the years from 1980 to 2107.          *)
LEMMA YearsOfTheFormat ==
  /\ StartOf(1980, 1) = 3652 /\ StartOf(2108, 1) = 50403
  /\ \A y \in Nat : (y < 1980 => StartOf(y + 1, 1) <= 3652)
                     /\ (y >= 1980 => StartOf(y, 1) >= 3652)
                     /\ (y >= 2108 => StartOf(y, 1) >= 50403)
<1>1. Leaps(1980) = 479 /\ Leaps(2108) = 510
  BY DEF Leaps
<1>2. StartOf(1980, 1) = 3652 /\ StartOf(2108, 1) = 50403
  <2>1. 1980 \in Nat /\ 2108 \in Nat
    BY SMT
  <2>2. StartOf(1980, 1) = 365 * (1980 - 1970) + Leaps(1980) - 477
    BY <2>1, YearBegins, SMT
  <2>3. StartOf(2108, 1) = 365 * (2108 - 1970) + Leaps(2108) - 477
    BY <2>1, YearBegins, SMT
  <2> QED BY <1>1, <2>2, <2>3, SMT
<1>3. ASSUME NEW y \in Nat
      PROVE  /\ y < 1980 => Leaps(y + 1) <= 479
             /\ y >= 1980 => Leaps(y) >= 479
             /\ y >= 2108 => Leaps(y) >= 510
  <2>1. y < 1980 => Leaps(y + 1) <= 479
    BY SMT DEF Leaps
  <2>2. PICK c, r \in Nat : y > 0 => (c = (y - 1) \div 100 /\ y - 1 = 100 * c + r /\ r < 100)
    BY SMT
  <2>3. y > 0 => (y - 1) \div 4 = 25 * c + r \div 4 /\ (y - 1) \div 400 = c \div 4
    BY <2>2, SMT
  <2>4. y > 0 => Leaps(y) = 24 * c + r \div 4 + c \div 4
    BY <2>2, <2>3, SMT DEF Leaps
  <2>5. y >= 1980 => Leaps(y) >= 479
    BY <2>2, <2>4, SMT
  <2>6. y >= 2108 => Leaps(y) >= 510
    BY <2>2, <2>4, SMT
  <2> QED BY <2>1, <2>5, <2>6
<1>4. ASSUME NEW y \in Nat
      PROVE  /\ y < 1980 => StartOf(y + 1, 1) <= 3652
             /\ y >= 1980 => StartOf(y, 1) >= 3652
             /\ y >= 2108 => StartOf(y, 1) >= 50403
  <2>1. StartOf(y, 1) = 365 * (y - 1970) + Leaps(y) - 477 /\ Leaps(y) \in Int
    BY YearBegins
  <2>2. StartOf(y + 1, 1) = 365 * (y + 1 - 1970) + Leaps(y + 1) - 477 /\ Leaps(y + 1) \in Int
    <3>1. y + 1 \in Nat
      OBVIOUS
    <3> QED BY <3>1, YearBegins
  <2>3. PICK l, k \in Int : l = Leaps(y) /\ k = Leaps(y + 1)
    BY <2>1, <2>2
  <2>4. PICK a, b : a = StartOf(y, 1) /\ b = StartOf(y + 1, 1)
    OBVIOUS
  <2>5. a = 365 * (y - 1970) + l - 477 /\ b = 365 * (y + 1 - 1970) + k - 477
    BY <2>1, <2>2, <2>3, <2>4
  <2>6. (y < 1980 => k <= 479) /\ (y >= 1980 => l >= 479) /\ (y >= 2108 => l >= 510)
    BY <1>3, <2>3
  <2>7. (y < 1980 => b <= 3652) /\ (y >= 1980 => a >= 3652) /\ (y >= 2108 => a >= 50403)
    <3>1. y < 1980 => b <= 3652
      BY <2>3, <2>5, <2>6, SMT
    <3>2. y >= 1980 => a >= 3652
      BY <2>3, <2>5, <2>6, SMT
    <3>3. y >= 2108 => a >= 50403
      BY <2>3, <2>5, <2>6, SMT
    <3> QED BY <3>1, <3>2, <3>3
  <2> QED BY <2>4, <2>7
<1> QED BY <1>2, <1>4

(* What is packed into the two fields comes out of them.                     *)
Packed(a, m, d) == (a * 512 + m * 32 + d) % 65536

FieldsOf(date, a, m, d) == date \div 512 = a /\ (date \div 32) % 16 = m /\ date % 32 = d

(* Year, month and day come out of the sixteen bits they were packed into.   *)
LEMMA FieldsComeOut ==
  ASSUME NEW a \in Nat, NEW m \in Nat, NEW d \in Nat,
         a <= 127, 1 <= m, m <= 12, 1 <= d, d <= 31
  PROVE  FieldsOf(Packed(a, m, d), a, m, d)
<1> DEFINE date == Packed(a, m, d)
<1>1. PICK b \in 32..511 : b = m * 32 + d
  BY SMT
<1>2. PICK e \in Nat : e = a * 512 + b
  BY <1>1, SMT
<1>3. date = e
  <2>1. date = e % 65536
    BY <1>1, <1>2, SMT DEF Packed
  <2> QED BY <1>2, <2>1, SMT
<1> HIDE DEF date
<1>4. date \div 512 = a
  BY <1>1, <1>2, <1>3, SMT
<1>5. date \div 32 = a * 16 + m /\ date % 32 = d
  BY <1>1, <1>2, <1>3, SMT
<1>6. (a * 16 + m) % 16 = m
  BY SMT
<1>7. FieldsOf(date, a, m, d)
  BY <1>4, <1>5, <1>6, SMT DEF FieldsOf
<1> QED BY <1>7, SMT DEF date

(* Hour, minute and second come out of the time, to two seconds.             *)
LEMMA SecondsComeOut ==
  ASSUME NEW sec \in Nat, sec < 86400, NEW time,
         time = (sec \div 3600) * 2048 + ((sec \div 60) % 60) * 32 + (sec % 60) \div 2
  PROVE  SecondOf(time) = sec - (sec % 2)
<1>1. PICK h, m, s \in Nat : /\ h = sec \div 3600 /\ m = (sec \div 60) % 60 /\ s = sec % 60
                            /\ h < 24 /\ m < 60 /\ s < 60
  BY SMT
<1>2. sec = h * 3600 + m * 60 + s
  BY <1>1, SMT
<1>3. PICK e \in 0..29 : e = s \div 2 /\ s - (s % 2) = 2 * e
  BY <1>1, SMT
<1>4. time = h * 2048 + m * 32 + e
  BY <1>1, <1>3, SMT
<1>5. time \div 2048 = h /\ time % 32 = e /\ time \div 32 = h * 64 + m
  BY <1>1, <1>3, <1>4, SMT
<1>6. (time \div 32) % 64 = m
  BY <1>1, <1>5, SMT
<1>7. sec % 2 = s % 2
  BY <1>1, <1>2, SMT
<1>8. SecondOf(time) = h * 3600 + m * 60 + e * 2
  BY <1>5, <1>6, SMT DEF SecondOf
<1> QED BY <1>1, <1>2, <1>3, <1>7, <1>8, SMT

(* A time of before 2108, and what it is to come out right.                  *)
InFormat(t) == t.day \in Int /\ t.sec \in Nat /\ t.sec < 86400 /\ t.day < StartOf(2108, 1)

ComesOut(at, t) ==
  \/ at = Epoch /\ t.day < StartOf(1980, 1)
  \/ DaysOf(at.date) = {t.day} /\ SecondOf(at.time) = t.sec - (t.sec % 2)

(* What dos_time makes of a time the format has stands for that time.        *)
LEMMA DosTimeIsRight ==
  ASSUME NEW t, InFormat(t)
  PROVE  ComesOut(DosTime(t), t)
<1> SUFFICES ASSUME t.day \in Int, t.sec \in Nat, t.sec < 86400, t.day < StartOf(2108, 1)
             PROVE  \/ DosTime(t) = Epoch /\ t.day < StartOf(1980, 1)
                    \/ /\ DaysOf(DosTime(t).date) = {t.day}
                       /\ SecondOf(DosTime(t).time) = t.sec - (t.sec % 2)
  BY DEF InFormat, ComesOut
<1>1. t.day < 50403 /\ StartOf(1980, 1) = 3652
  BY YearsOfTheFormat
<1>2. CASE t.day < 0
  <2>1. PICK c : c = CivilFromDays(0)
    BY SMT
  <2>3. c.y < 1980
    BY <2>1, SMT DEF CivilFromDays, YearOfEra
  <2>4. DosTime(t) = Epoch
    BY <1>2, <2>1, <2>3, SMT DEF DosTime
  <2> QED BY <1>1, <1>2, <2>4, SMT
<1>3. CASE t.day >= 0
  <2>1. PICK day \in Nat : day = t.day
    BY <1>3, SMT
  <2>2. PICK c : c = CivilFromDays(day)
    BY SMT
  <2>3. PICK y, m, d : y = c.y /\ m = c.m /\ d = c.d
    BY SMT
  <2>4. /\ y \in Nat /\ m \in 1..12 /\ d \in 1..31
        /\ StartOf(y, m) + d - 1 = day /\ day < StartOf(y, m + 1)
    BY <1>1, <2>1, <2>2, <2>3, DateIs, SMT
  <2>5. /\ StartOf(y, m) \in Int /\ StartOf(y, 1) \in Int /\ StartOf(y, 1) <= StartOf(y, m)
        /\ StartOf(y, m + 1) \in Int /\ StartOf(y + 1, 1) \in Int /\ StartOf(y, m + 1) <= StartOf(y + 1, 1)
    <3>1. m + 1 \in 1..13 /\ m \in 1..13 /\ 1 \in 1..13 /\ y + 1 \in Nat
      BY <2>4, SMT
    <3> QED BY <2>4, <3>1, YearBegins, SMT
  <2>6. DosTime(t) =
          IF y < 1980 THEN Epoch
          ELSE [date |-> ((y - 1980) * 512 + m * 32 + d) % 65536,
                time |-> (t.sec \div 3600) * 2048 + ((t.sec \div 60) % 60) * 32 + (t.sec % 60) \div 2]
    BY <1>3, <2>1, <2>2, <2>3, SMT DEF DosTime
  <2>7. CASE y < 1980
    <3>1. StartOf(y + 1, 1) <= 3652
      BY <2>4, <2>7, YearsOfTheFormat, SMT
    <3>2. day < 3652
      BY <2>4, <2>5, <3>1, SMT
    <3> QED BY <1>1, <2>1, <2>6, <2>7, <3>2, SMT
  <2>8. CASE y >= 1980
    <3>1. y < 2108
      <4>1. y >= 2108 => StartOf(y, 1) >= 50403
        BY <2>4, YearsOfTheFormat, SMT
      <4>2. day < 50403
        BY <1>1, <2>1, SMT
      <4>3. PICK a, b \in Int : a = StartOf(y, 1) /\ b = StartOf(y, m)
        BY <2>5, SMT
      <4>4. a <= day
        BY <2>4, <2>5, <4>3, SMT
      <4> QED BY <2>1, <2>4, <4>1, <4>2, <4>3, <4>4, SMT
    <3>11. PICK date : date = ((y - 1980) * 512 + m * 32 + d) % 65536
      BY SMT
    <3>12. PICK time :
             time = (t.sec \div 3600) * 2048 + ((t.sec \div 60) % 60) * 32 + (t.sec % 60) \div 2
      BY SMT
    <3>2. DosTime(t) = [date |-> date, time |-> time]
      BY <2>4, <2>6, <2>8, <3>11, <3>12, SMT
    <3>3. PICK a \in 0..127 : a = y - 1980
      <4>1. y - 1980 >= 0 /\ y - 1980 <= 127 /\ y - 1980 \in Int
        BY <2>4, <2>8, <3>1, SMT
      <4>2. y - 1980 \in 0..127
        BY <2>4, <4>1, SMT
      <4> QED BY <2>4, <4>2, SMT
    <3>4. date \div 512 = a /\ (date \div 32) % 16 = m /\ date % 32 = d
      <4>1. date = Packed(a, m, d)
        BY <3>3, <3>11, SMT DEF Packed
      <4>2. a \in Nat /\ a <= 127 /\ m \in Nat /\ 1 <= m /\ m <= 12 /\ d \in Nat /\ 1 <= d /\ d <= 31
        BY <2>4, <3>3, SMT
      <4>3. FieldsOf(Packed(a, m, d), a, m, d)
        BY <4>2, FieldsComeOut, SMT
      <4> QED BY <4>1, <4>3, SMT DEF FieldsOf
    <3>5. 1980 + date \div 512 = y
      BY <2>4, <3>3, <3>4, SMT
    <3>6. DaysOf(date) = {n \in {StartOf(y, m) + d - 1} : m \in 1..12 /\ d >= 1 /\ n < StartOf(y, m + 1)}
      BY <3>4, <3>5, SMT DEF DaysOf
    <3>7. DaysOf(date) = {day}
      BY <2>4, <3>6, SMT
    <3>8. SecondOf(time) = t.sec - (t.sec % 2)
      BY <3>12, SecondsComeOut, SMT
    <3> QED BY <2>1, <3>2, <3>7, <3>8, SMT
  <2> QED BY <2>4, <2>7, <2>8, SMT
<1> QED BY <1>2, <1>3, SMT

-----------------------------------------------------------------------------
(* Paths, and the entries of a tree below one.                               *)

(* What of a path is below a root, and how it grows with the path.           *)
LEMMA BelowIs ==
  ASSUME NEW E, NEW r \in Seq(E), NEW p \in Seq(E), IsPrefix(r, p)
  PROVE  /\ Below(r, p) \in Seq(E) /\ p = r \o Below(r, p) /\ Len(Below(r, p)) = Len(p) - Len(r)
         /\ p = r => Below(r, p) = <<>>
         /\ p # r => /\ p # <<>> /\ IsPrefix(r, Front(p))
                     /\ Below(r, p) = Append(Below(r, Front(p)), Last(p))
<1>1. Len(r) <= Len(p) /\ \A k \in 1..Len(r) : r[k] = p[k]
  BY PrefixByPlace
<1>2. /\ Below(r, p) \in Seq(E) /\ Len(Below(r, p)) = Len(p) - Len(r)
      /\ \A k \in 1..(Len(p) - Len(r)) : Below(r, p)[k] = p[Len(r) + k]
  BY <1>1 DEF Below
<1>3. /\ r \o Below(r, p) \in Seq(E) /\ Len(r \o Below(r, p)) = Len(p)
      /\ \A k \in 1..Len(p) : (r \o Below(r, p))[k] = p[k]
  BY <1>1, <1>2
<1>4. p = r \o Below(r, p)
  BY <1>3, SeqEqual
<1>5. p = r => Below(r, p) = <<>>
  BY <1>2
<1>6. ASSUME p # r
      PROVE  p # <<>> /\ IsPrefix(r, Front(p)) /\ Below(r, p) = Append(Below(r, Front(p)), Last(p))
  <2>1. Len(r) < Len(p)
    BY <1>6, <1>1, PrefixOrder
  <2>2. p # <<>>
    BY <2>1
  <2>3. IsPrefix(r, Front(p))
    BY <1>6, <2>2, PrefixOfFront
  <2>4. /\ Front(p) \in Seq(E) /\ Len(Front(p)) = Len(p) - 1 /\ Last(p) \in E
        /\ \A k \in 1..(Len(p) - 1) : Front(p)[k] = p[k]
    BY <2>2, FrontAndLast
  <2>5. /\ Below(r, Front(p)) \in Seq(E) /\ Len(Below(r, Front(p))) = Len(p) - 1 - Len(r)
        /\ \A k \in 1..(Len(p) - 1 - Len(r)) : Below(r, Front(p))[k] = Front(p)[Len(r) + k]
    BY <2>1, <2>4 DEF Below
  <2>10. PICK f \in Seq(E), x \in E : f = Below(r, Front(p)) /\ x = Last(p)
    BY <2>4, <2>5
  <2>6. PICK b : b = Append(f, x)
    OBVIOUS
  <2>7. b \in Seq(E) /\ Len(b) = Len(f) + 1 /\ b[Len(f) + 1] = x /\ \A k \in 1..Len(f) : b[k] = f[k]
    BY <2>6, <2>10, AppendProperties
  <2>11. /\ Len(f) = Len(p) - 1 - Len(r) /\ x = p[Len(p)]
         /\ \A k \in 1..(Len(p) - 1 - Len(r)) : f[k] = p[Len(r) + k]
    BY <2>1, <2>4, <2>5, <2>10 DEF Last
  <2>12. PICK n \in Nat : n = Len(f)
    OBVIOUS
  <2>13. Len(p) = Len(r) + n + 1
    BY <2>1, <2>11, <2>12
  <2>14. \A k \in 1..n : b[k] = p[Len(r) + k]
    BY <2>7, <2>11, <2>12, <2>13
  <2>15. b[n + 1] = p[Len(r) + (n + 1)]
    BY <2>7, <2>11, <2>12, <2>13
  <2>8. Len(b) = Len(p) - Len(r) /\ \A k \in 1..(Len(p) - Len(r)) : b[k] = p[Len(r) + k]
    <3>1. ASSUME NEW k \in 1..(n + 1) PROVE b[k] = p[Len(r) + k]
      <4>1. k = n + 1 \/ k \in 1..n
        BY <2>12
      <4>2. CASE k = n + 1
        BY <4>2, <2>15
      <4> QED BY <4>1, <4>2, <2>14
    <3>2. Len(p) - Len(r) = n + 1 /\ Len(b) = n + 1
      <4>1. Len(p) \in Nat /\ Len(r) \in Nat
        OBVIOUS
      <4> QED BY <4>1, <2>7, <2>12, <2>13
    <3> QED BY <3>1, <3>2, <2>12
  <2>9. Below(r, p) = b
    BY <1>2, <2>7, <2>8, SeqEqual
  <2> QED BY <2>2, <2>3, <2>6, <2>9, <2>10
<1> QED BY <1>2, <1>4, <1>5, <1>6

(* What leads to an entry of a tree are directories of it.                   *)
LEMMA TreeIsClosed ==
  ASSUME NEW tree, IsTree(tree), NEW p \in DOMAIN tree, NEW a \in Path,
         IsPrefix(a, p), a # <<>>, a # p
  PROVE  a \in DOMAIN tree /\ tree[a].kind = "dir"
<1> DEFINE Wrong(q) == \E b \in Path : /\ IsPrefix(b, q) /\ b # <<>> /\ b # q
                                       /\ ~(b \in DOMAIN tree /\ tree[b].kind = "dir")
           B == {Len(q) : q \in {e \in DOMAIN tree : Wrong(e)}}
<1> SUFFICES ASSUME B # {} PROVE FALSE
  OBVIOUS
<1>1. \A q \in DOMAIN tree : q \in Path /\ q # <<>> /\ Len(q) \in Nat
  BY DEF IsTree, Path
<1>2. PICK n \in B : \A m \in B : n <= m
  <2>1. B \in SUBSET Nat
    BY <1>1
  <2> QED BY <2>1, Least
<1>3. PICK q \in DOMAIN tree : Wrong(q) /\ Len(q) = n
  OBVIOUS
<1>4. PICK b \in Path : /\ IsPrefix(b, q) /\ b # <<>> /\ b # q
                        /\ ~(b \in DOMAIN tree /\ tree[b].kind = "dir")
  BY <1>3
<1>5. PICK f : f = Front(q)
  OBVIOUS
<1>6. f \in Path /\ Len(f) = Len(q) - 1 /\ IsPrefix(b, f)
  BY <1>1, <1>4, <1>5, FrontAndLast, PrefixOfFront DEF Path
<1>7. f # <<>>
  BY <1>4, <1>6, PrefixByPlace DEF Path
<1>8. f \in DOMAIN tree /\ tree[f].kind = "dir"
  BY <1>5, <1>7 DEF IsTree
<1>9. ~Wrong(f)
  <2>1. Len(f) \notin B
    BY <1>1, <1>2, <1>3, <1>6
  <2> QED BY <1>8, <2>1
<1> QED BY <1>4, <1>6, <1>8, <1>9

(* The entries of a directory: they are below it, and what is below it is one*)
(* of them or below one of them.                                             *)
LEMMA ChildIs ==
  ASSUME NEW tree, IsTree(tree), NEW p \in Path, NEW q \in Children(tree, p)
  PROVE  /\ q \in DOMAIN tree /\ q \in Path /\ q # <<>> /\ Front(q) = p /\ Last(q) \in Name
         /\ IsPrefix(p, q) /\ ~IsPrefix(q, p) /\ Len(q) = Len(p) + 1
         /\ \A a \in Path : IsPrefix(a, q) <=> a = q \/ IsPrefix(a, p)
<1>1. q \in DOMAIN tree /\ q \in Path /\ q # <<>> /\ Front(q) = p
  BY DEF IsTree, Children
<1>2. Len(q) = Len(p) + 1 /\ Last(q) \in Name /\ IsPrefix(p, p)
  BY <1>1, FrontAndLast, PrefixOrder DEF Path
<1>3. \A a \in Path : IsPrefix(a, q) <=> a = q \/ IsPrefix(a, p)
  BY <1>1, PrefixOfFront DEF Path
<1>4. ~IsPrefix(q, p)
  BY <1>1, <1>2, PrefixByPlace DEF Path
<1> QED BY <1>1, <1>2, <1>3, <1>4

(* What is below a directory and is not the directory is below one of its    *)
(* children.                                                                 *)
LEMMA ThroughChild ==
  ASSUME NEW tree, IsTree(tree), NEW p \in Path, NEW q \in DOMAIN tree, IsPrefix(p, q), p # q
  PROVE  \E c \in Children(tree, p) : IsPrefix(c, q) /\ (c = q \/ tree[c].kind = "dir")
<1>1. q \in Path
  BY DEF IsTree
<1>2. PICK c \in Path : c # <<>> /\ Front(c) = p /\ IsPrefix(c, q)
  BY <1>1, NextPrefix DEF Path
<1>3. c = q \/ (c \in DOMAIN tree /\ tree[c].kind = "dir")
  BY <1>2, TreeIsClosed
<1> QED BY <1>2, <1>3 DEF Children

(* What a directory is replaced by when it has been listed.                  *)
Opened(tree, d, more) ==
  /\ \A e \in more : e.path \in Children(tree, d.path) /\ tree[e.path].kind = "dir"
  /\ \A e, f \in more : e.path = f.path => e = f
  /\ \A q \in Children(tree, d.path) : tree[q].kind = "dir" => \E e \in more : e.path = q

(* After a directory is listed its subdirectories wait in its place.         *)
LEMMA WaitingAfter ==
  ASSUME NEW tree, IsTree(tree), NEW r \in Path, NEW dirs, Waiting(tree, r, dirs),
         NEW d \in dirs, NEW more, Opened(tree, d, more)
  PROVE  Waiting(tree, r, (dirs \ {d}) \cup more)
<1>1. d.path \in Path /\ IsPrefix(r, d.path)
  BY DEF Waiting
<1>2. ASSUME NEW e \in more
      PROVE  /\ e.path \in DOMAIN tree /\ e.path \in Path /\ IsDir(tree, e.path)
             /\ IsPrefix(r, e.path) /\ IsPrefix(d.path, e.path) /\ ~IsPrefix(e.path, d.path)
             /\ Len(e.path) = Len(d.path) + 1
             /\ \A a \in Path : IsPrefix(a, e.path) <=> a = e.path \/ IsPrefix(a, d.path)
  <2>1. e.path \in Children(tree, d.path) /\ tree[e.path].kind = "dir"
    BY DEF Opened
  <2> QED BY <1>1, <2>1, ChildIs DEF IsDir
<1>3. ASSUME NEW e \in dirs \ {d}
      PROVE  /\ e.path \in Path /\ IsDir(tree, e.path) /\ IsPrefix(r, e.path)
             /\ ~IsPrefix(e.path, d.path) /\ ~IsPrefix(d.path, e.path)
  BY DEF Waiting
<1>4. ASSUME NEW e \in dirs \ {d}, NEW f \in more
      PROVE  ~IsPrefix(e.path, f.path) /\ ~IsPrefix(f.path, e.path)
  <2>1. ~IsPrefix(e.path, f.path)
    BY <1>2, <1>3
  <2>2. IsPrefix(f.path, e.path) => IsPrefix(d.path, e.path)
    BY <1>1, <1>2, <1>3, PrefixOrder DEF Path
  <2> QED BY <1>3, <2>1, <2>2
<1>5. ASSUME NEW e \in more, NEW f \in more, IsPrefix(e.path, f.path)
      PROVE  e = f
  <2>1. e.path = f.path
    BY <1>2, <1>5
  <2> QED BY <2>1 DEF Opened
<1>6. ASSUME NEW e \in dirs \ {d}, NEW f \in dirs \ {d}, IsPrefix(e.path, f.path)
      PROVE  e = f
  BY <1>6 DEF Waiting
<1> QED BY <1>2, <1>3, <1>4, <1>5, <1>6 DEF Waiting

(* Of the two of them, every place is a place in the first or in the second. *)
LEMMA ConcatHas ==
  ASSUME NEW T, NEW s \in Seq(T), NEW t \in Seq(T)
  PROVE  /\ s \o t \in Seq(T)
         /\ \A k \in DOMAIN s : k \in DOMAIN (s \o t) /\ (s \o t)[k] = s[k]
         /\ \A l \in DOMAIN t : Len(s) + l \in DOMAIN (s \o t) /\ (s \o t)[Len(s) + l] = t[l]
         /\ \A k \in DOMAIN (s \o t) :
              \/ k \in DOMAIN s /\ (s \o t)[k] = s[k]
              \/ \E l \in DOMAIN t : k = Len(s) + l /\ (s \o t)[k] = t[l]
<1>1. PICK st : st = s \o t
  OBVIOUS
<1>2. /\ st \in Seq(T) /\ Len(st) = Len(s) + Len(t)
      /\ \A k \in 1..(Len(s) + Len(t)) : st[k] = IF k <= Len(s) THEN s[k] ELSE t[k - Len(s)]
  BY <1>1, ConcatProperties
<1>3. DOMAIN s = 1..Len(s) /\ DOMAIN t = 1..Len(t) /\ DOMAIN st = 1..(Len(s) + Len(t))
      /\ Len(s) \in Nat /\ Len(t) \in Nat
  BY <1>2
<1>4. \A k \in DOMAIN s : k \in DOMAIN st /\ st[k] = s[k]
  BY <1>2, <1>3
<1>5. \A l \in DOMAIN t : Len(s) + l \in DOMAIN st /\ st[Len(s) + l] = t[l]
  BY <1>2, <1>3
<1>6. ASSUME NEW k \in DOMAIN st, k \notin DOMAIN s PROVE \E l \in DOMAIN t : k = Len(s) + l
  <2>1. k - Len(s) \in DOMAIN t /\ k = Len(s) + (k - Len(s))
    BY <1>3, <1>6
  <2> QED BY <2>1
<1> QED BY <1>1, <1>2, <1>4, <1>5, <1>6

(* Two lists of different files, none of them in both, make one.             *)
LEMMA OnceBoth ==
  ASSUME NEW T, NEW s \in Seq(T), NEW t \in Seq(T), Once(s), Once(t),
         \A k \in DOMAIN s, l \in DOMAIN t : ~(s[k].root = t[l].root /\ s[k].path = t[l].path)
  PROVE  Once(s \o t)
<1>1. PICK st : st = s \o t
  OBVIOUS
<1>2. /\ \A k \in DOMAIN st : \/ k \in DOMAIN s /\ st[k] = s[k]
                              \/ \E l \in DOMAIN t : k = Len(s) + l /\ st[k] = t[l]
  BY <1>1, ConcatHas
<1> SUFFICES ASSUME NEW k \in DOMAIN st, NEW l \in DOMAIN st,
                    st[k].root = st[l].root, st[k].path = st[l].path
             PROVE  k = l
  BY <1>1 DEF Once
<1>3. CASE k \in DOMAIN s /\ st[k] = s[k]
  <2>1. l \in DOMAIN s /\ st[l] = s[l]
    BY <1>2, <1>3
  <2> QED BY <1>3, <2>1 DEF Once
<1>4. CASE \E m \in DOMAIN t : k = Len(s) + m /\ st[k] = t[m]
  <2>1. PICK m \in DOMAIN t : k = Len(s) + m /\ st[k] = t[m]
    BY <1>4
  <2>2. PICK n \in DOMAIN t : l = Len(s) + n /\ st[l] = t[n]
    BY <1>2, <2>1
  <2>3. m = n
    BY <2>1, <2>2 DEF Once
  <2> QED BY <2>1, <2>2, <2>3
<1> QED BY <1>2, <1>3, <1>4

(* What has been asked for is in the tree and no directory.                  *)
AskedIn(tree, r, asked) ==
  \A e \in asked : e.path \in DOMAIN tree /\ tree[e.path].kind # "dir" /\ IsPrefix(r, e.path)

(* What is found in directory p of root i.                                   *)
FoundIn(tree, p, i, asked, found) ==
  /\ \A k \in DOMAIN found : /\ found[k].root = i /\ EntryOf(found[k]) \in asked
                             /\ found[k].path \in Children(tree, p)
  /\ \A e \in asked : e.path \in Children(tree, p) => \E k \in DOMAIN found : EntryOf(found[k]) = e

(* After a directory is listed what waits is above all it was above but the  *)
(* entries found in it.                                                      *)
LEMMA AboveAfter ==
  ASSUME NEW tree, IsTree(tree), NEW r \in Path, NEW dirs, Waiting(tree, r, dirs),
         NEW d \in dirs, NEW more, Opened(tree, d, more),
         NEW p \in DOMAIN tree, tree[p].kind # "dir"
  PROVE  /\ p \in Children(tree, d.path) => Above(dirs, p) /\ ~Above((dirs \ {d}) \cup more, p)
         /\ p \notin Children(tree, d.path) => (Above(dirs, p) <=> Above((dirs \ {d}) \cup more, p))
<1>1. d.path \in Path /\ IsDir(tree, d.path) /\ p \in Path /\ p # <<>>
  BY DEF Waiting, IsTree
<1>2. \A e \in more : /\ e.path \in Children(tree, d.path) /\ tree[e.path].kind = "dir"
                      /\ e.path \in Path /\ e.path # p /\ IsPrefix(d.path, e.path)
                      /\ Len(e.path) = Len(d.path) + 1
  BY <1>1, ChildIs DEF Opened
<1>3. \A e \in dirs \ {d} : e.path \in Path /\ e.path # p /\ ~IsPrefix(e.path, d.path)
  BY <1>1 DEF Waiting, IsDir
<1>4. ASSUME p \in Children(tree, d.path)
      PROVE  Above(dirs, p) /\ ~Above((dirs \ {d}) \cup more, p)
  <2>1. IsPrefix(d.path, p) /\ Len(p) = Len(d.path) + 1
        /\ \A a \in Path : IsPrefix(a, p) <=> a = p \/ IsPrefix(a, d.path)
    BY <1>1, <1>4, ChildIs
  <2>2. \A e \in dirs \ {d} : ~IsPrefix(e.path, p)
    BY <1>3, <2>1
  <2>3. \A e \in more : ~IsPrefix(e.path, p)
    BY <1>1, <1>2, <2>1, ChildIs
  <2> QED BY <2>1, <2>2, <2>3 DEF Above
<1>5. ASSUME p \notin Children(tree, d.path), Above(dirs, p)
      PROVE  Above((dirs \ {d}) \cup more, p)
  <2>1. PICK e \in dirs : IsPrefix(e.path, p)
    BY <1>5 DEF Above
  <2>2. CASE e = d
    <3>1. d.path # p
      BY <1>1 DEF IsDir
    <3>2. PICK c \in Children(tree, d.path) : IsPrefix(c, p) /\ (c = p \/ tree[c].kind = "dir")
      BY <1>1, <2>1, <2>2, <3>1, ThroughChild
    <3>3. tree[c].kind = "dir"
      BY <1>5, <3>2
    <3>4. PICK f \in more : f.path = c
      BY <3>3 DEF Opened
    <3> QED BY <3>2, <3>4 DEF Above
  <2> QED BY <2>1, <2>2 DEF Above
<1>6. ASSUME Above((dirs \ {d}) \cup more, p) PROVE Above(dirs, p)
  <2>1. PICK e \in (dirs \ {d}) \cup more : IsPrefix(e.path, p)
    BY <1>6 DEF Above
  <2>2. CASE e \in more
    <3>1. IsPrefix(d.path, p)
      BY <1>1, <1>2, <2>1, <2>2, PrefixOrder DEF Path
    <3> QED BY <3>1 DEF Above
  <2> QED BY <2>1, <2>2 DEF Above
<1> QED BY <1>4, <1>5, <1>6

(* Listing a directory sends what is asked for in it, and leaves the rest    *)
(* below what waits.                                                         *)
LEMMA SentAfter ==
  ASSUME NEW tree, IsTree(tree), NEW r \in Path, NEW dirs, Waiting(tree, r, dirs),
         NEW d \in dirs, NEW more, Opened(tree, d, more),
         NEW i, NEW asked, AskedIn(tree, r, asked),
         NEW T, NEW sent \in Seq(T), NEW found \in Seq(T), Sent(i, asked, dirs, sent),
         FoundIn(tree, d.path, i, asked, found)
  PROVE  Sent(i, asked, (dirs \ {d}) \cup more, sent \o found)
<1>1. PICK st : st = sent \o found
  OBVIOUS
<1>2. PICK after : after = (dirs \ {d}) \cup more
  OBVIOUS
<1>3. /\ \A k \in DOMAIN sent : k \in DOMAIN st /\ st[k] = sent[k]
      /\ \A l \in DOMAIN found : Len(sent) + l \in DOMAIN st /\ st[Len(sent) + l] = found[l]
      /\ \A k \in DOMAIN st : \/ k \in DOMAIN sent /\ st[k] = sent[k]
                              \/ \E l \in DOMAIN found : k = Len(sent) + l /\ st[k] = found[l]
  BY <1>1, ConcatHas
<1>4. \A e \in asked :
        /\ e.path \in Children(tree, d.path) => Above(dirs, e.path) /\ ~Above(after, e.path)
        /\ e.path \notin Children(tree, d.path) => (Above(dirs, e.path) <=> Above(after, e.path))
  BY <1>2, AboveAfter DEF AskedIn
<1>5. ASSUME NEW k \in DOMAIN st, st[k].root = i
      PROVE  EntryOf(st[k]) \in asked /\ ~Above(after, st[k].path)
  <2>0. EntryOf(st[k]).path = st[k].path
    BY DEF EntryOf
  <2>1. CASE k \in DOMAIN sent /\ st[k] = sent[k]
    <3>1. EntryOf(st[k]) \in asked /\ ~Above(dirs, st[k].path)
      BY <1>5, <2>1 DEF Sent
    <3> QED BY <1>4, <2>0, <3>1
  <2>2. CASE \E l \in DOMAIN found : k = Len(sent) + l /\ st[k] = found[l]
    <3>1. EntryOf(st[k]) \in asked /\ st[k].path \in Children(tree, d.path)
      BY <2>2 DEF FoundIn
    <3> QED BY <1>4, <2>0, <3>1
  <2> QED BY <1>3, <2>1, <2>2
<1>6. ASSUME NEW e \in asked, ~Above(after, e.path)
      PROVE  \E k \in DOMAIN st : EntryOf(st[k]) = e
  <2>1. CASE e.path \in Children(tree, d.path)
    <3>1. PICK l \in DOMAIN found : EntryOf(found[l]) = e
      BY <2>1 DEF FoundIn
    <3> QED BY <1>3, <3>1
  <2>2. CASE e.path \notin Children(tree, d.path)
    <3>1. PICK k \in DOMAIN sent : EntryOf(sent[k]) = e
      BY <1>4, <1>6, <2>2 DEF Sent
    <3> QED BY <1>3, <3>1
  <2> QED BY <2>1, <2>2
<1> QED BY <1>1, <1>2, <1>5, <1>6 DEF Sent

(* ... and of no root has it been sent before.                               *)
LEMMA FoundIsNew ==
  ASSUME NEW tree, NEW r, NEW dirs, NEW d \in dirs, d.path \in Path, IsTree(tree),
         NEW i, NEW asked, NEW sent, NEW found, Sent(i, asked, dirs, sent),
         FoundIn(tree, d.path, i, asked, found)
  PROVE  \A k \in DOMAIN sent, l \in DOMAIN found :
           ~(sent[k].root = found[l].root /\ sent[k].path = found[l].path)
<1> SUFFICES ASSUME NEW k \in DOMAIN sent, NEW l \in DOMAIN found,
                    sent[k].root = found[l].root, sent[k].path = found[l].path
             PROVE  FALSE
  OBVIOUS
<1>1. found[l].root = i /\ found[l].path \in Children(tree, d.path)
  BY DEF FoundIn
<1>2. IsPrefix(d.path, found[l].path)
  BY <1>1, ChildIs
<1>3. ~Above(dirs, sent[k].path)
  BY <1>1 DEF Sent
<1> QED BY <1>2, <1>3 DEF Above

(* What is found under one root makes no difference to another.              *)
LEMMA SentOther ==
  ASSUME NEW T, NEW sent \in Seq(T), NEW found \in Seq(T), NEW i, NEW asked, NEW dirs,
         Sent(i, asked, dirs, sent), \A l \in DOMAIN found : found[l].root # i
  PROVE  Sent(i, asked, dirs, sent \o found)
<1>1. PICK st : st = sent \o found
  OBVIOUS
<1>2. /\ \A k \in DOMAIN sent : k \in DOMAIN st /\ st[k] = sent[k]
      /\ \A k \in DOMAIN st : \/ k \in DOMAIN sent /\ st[k] = sent[k]
                              \/ \E l \in DOMAIN found : k = Len(sent) + l /\ st[k] = found[l]
  BY <1>1, ConcatHas
<1>3. \A k \in DOMAIN st : st[k].root = i => k \in DOMAIN sent /\ st[k] = sent[k]
  BY <1>2
<1> QED BY <1>1, <1>2, <1>3 DEF Sent

(* The first that is found under a root.                                     *)
LEMMA SentFirst ==
  ASSUME NEW T, NEW sent \in Seq(T), NEW found \in Seq(T), NEW i, NEW asked, NEW dirs,
         \A k \in DOMAIN sent : sent[k].root # i,
         Sent(i, asked, dirs, found)
  PROVE  Sent(i, asked, dirs, sent \o found)
<1>1. PICK st : st = sent \o found
  OBVIOUS
<1>2. /\ \A l \in DOMAIN found : Len(sent) + l \in DOMAIN st /\ st[Len(sent) + l] = found[l]
      /\ \A k \in DOMAIN st : \/ k \in DOMAIN sent /\ st[k] = sent[k]
                              \/ \E l \in DOMAIN found : k = Len(sent) + l /\ st[k] = found[l]
  BY <1>1, ConcatHas
<1>3. ASSUME NEW k \in DOMAIN st, st[k].root = i
      PROVE  EntryOf(st[k]) \in asked /\ ~Above(dirs, st[k].path)
  BY <1>2, <1>3 DEF Sent
<1>4. ASSUME NEW e \in asked, ~Above(dirs, e.path)
      PROVE  \E k \in DOMAIN st : EntryOf(st[k]) = e
  <2>1. PICK l \in DOMAIN found : EntryOf(found[l]) = e
    BY <1>4 DEF Sent
  <2> QED BY <1>2, <2>1
<1> QED BY <1>1, <1>3, <1>4 DEF Sent

-----------------------------------------------------------------------------
(* Names and their texts.                                                    *)

(* Join makes a text of two texts.                                           *)
LEMMA JoinIs ==
  ASSUME NEW p \in Seq(Byte), NEW n \in Seq(Byte)
  PROVE  /\ Join(p, n) \in Seq(Byte)
         /\ p # <<>> \/ n # <<>> => Join(p, n) # <<>>
         /\ Join(<<>>, n) = n
         /\ p # <<>> => Join(p, n) = p \o <<Slash>> \o n
<1>1. PICK b \in Byte : b = Slash
  BY DEF Slash, Byte
<1>2. <<b>> \in Seq(Byte) /\ Len(<<b>>) = 1
  OBVIOUS
<1>3. p \o <<b>> \o n \in Seq(Byte) /\ Len(p \o <<b>> \o n) = Len(p) + 1 + Len(n)
  BY <1>2
<1>4. p \o <<b>> \o n # <<>>
  BY <1>3
<1> QED BY <1>1, <1>3, <1>4 DEF Join

(* Where there is something in the middle, either pair is joined first.      *)
LEMMA JoinJoin ==
  ASSUME NEW p \in Seq(Byte), NEW m \in Seq(Byte), m # <<>>, NEW n \in Seq(Byte)
  PROVE  Join(Join(p, m), n) = Join(p, Join(m, n))
<1>1. PICK s \in Seq(Byte) : s = <<Slash>> /\ s # <<>>
  <2>1. PICK b \in Byte : b = Slash
    BY DEF Slash, Byte
  <2>2. <<b>> \in Seq(Byte) /\ <<b>> # <<>>
    OBVIOUS
  <2> QED BY <2>1, <2>2
<1>2. CASE p = <<>>
  BY <1>2, JoinIs
<1>3. CASE p # <<>>
  <2>1. PICK ps \in Seq(Byte), ms \in Seq(Byte) : ps = p \o s /\ ms = m \o s
    <3>1. p \o s \in Seq(Byte) /\ m \o s \in Seq(Byte)
      BY <1>1, ConcatProperties
    <3> QED BY Zenon, <3>1
  <2>2. PICK pm : pm = Join(p, m)
    OBVIOUS
  <2>3. pm = ps \o m /\ pm # <<>> /\ pm \in Seq(Byte)
    <3>1. pm \in Seq(Byte) /\ pm # <<>>
      BY <1>3, <2>2, JoinIs
    <3>2. Join(p, m) = p \o <<Slash>> \o m
      BY <1>3, JoinIs
    <3>3. pm = ps \o m
      BY Zenon, <1>1, <2>1, <2>2, <3>2
    <3> QED BY <3>1, <3>3
  <2>4. Join(pm, n) = (pm \o s) \o n
    BY <1>1, <2>3, JoinIs
  <2>5. PICK mn : mn = Join(m, n)
    OBVIOUS
  <2>6. mn = ms \o n /\ mn \in Seq(Byte)
    BY <1>1, <2>1, <2>5, JoinIs
  <2>7. Join(p, mn) = ps \o mn
    BY <1>1, <1>3, <2>1, <2>6, JoinIs
  <2>8. pm \o s = ps \o ms
    BY <1>1, <2>1, <2>3, ConcatAssociative
  <2>9. (ps \o ms) \o n = ps \o (ms \o n)
    <3>1. ps \in Seq(Byte) /\ ms \in Seq(Byte)
      BY <2>1
    <3> QED BY <3>1, ConcatAssociative
  <2> QED BY Zenon, <2>2, <2>4, <2>5, <2>6, <2>7, <2>8, <2>9
<1> QED BY <1>2, <1>3

(* to_string_lossy makes a text of a text, the same one if it is UTF-8.      *)
LEMMA LossyIs ==
  ASSUME NEW n \in Seq(Byte)
  PROVE  /\ Lossy(n) \in Seq(Byte) /\ Len(Lossy(n)) = Len(n) /\ (n # <<>> => Lossy(n) # <<>>)
         /\ ToSet(n) \cap NotUtf8 = {} => Lossy(n) = n
<1>1. Len(n) \in Nat /\ DOMAIN n = 1..Len(n) /\ \A k \in 1..Len(n) : n[k] \in Byte
  OBVIOUS
<1>2. Replacement \in Byte
  BY DEF Replacement, Byte
<1>3. Lossy(n) = [k \in 1..Len(n) |-> IF n[k] \in NotUtf8 THEN Replacement ELSE n[k]]
  BY <1>1 DEF Lossy
<1>4. Lossy(n) \in [1..Len(n) -> Byte]
  BY <1>1, <1>2, <1>3
<1>5. Lossy(n) \in Seq(Byte) /\ Len(Lossy(n)) = Len(n)
  BY <1>1, <1>4, IsASeq, LenProperties
<1>6. ASSUME ToSet(n) \cap NotUtf8 = {} PROVE Lossy(n) = n
  <2>1. \A k \in 1..Len(n) : n[k] \notin NotUtf8
    BY <1>1, <1>6 DEF ToSet
  <2>2. \A k \in 1..Len(n) : Lossy(n)[k] = n[k]
    BY <1>3, <2>1
  <2> QED BY <1>5, <2>2, SeqEqual
<1>7. n # <<>> => Lossy(n) # <<>>
  BY <1>5
<1> QED BY <1>5, <1>6, <1>7

(* The text of a path has a beginning for each beginning of the path.        *)
IsText(f, names, m) ==
  f = [n \in 0..m |-> IF n = 0 THEN <<>> ELSE Join(f[n - 1], Lossy(names[n]))]

(* The function PathText chooses exists.                                     *)
LEMMA TextExists ==
  ASSUME NEW names, NEW m \in Nat
  PROVE  \E f : IsText(f, names, m)
<1> DEFINE B == {k \in Nat : ~\E f : IsText(f, names, k)}
<1> SUFFICES ASSUME B # {} PROVE FALSE
  OBVIOUS
<1>1. PICK k \in B : \A l \in B : k <= l
  <2>1. B \in SUBSET Nat
    OBVIOUS
  <2> QED BY <2>1, Least
<1>2. CASE k = 0
  <2>1. PICK f : f = [n \in 0..0 |-> <<>>]
    OBVIOUS
  <2>2. f = [n \in 0..0 |-> IF n = 0 THEN <<>> ELSE Join(f[n - 1], Lossy(names[n]))]
    BY <2>1
  <2>3. IsText(f, names, 0)
    BY <2>2 DEF IsText
  <2> QED BY <1>2, <2>3
<1>3. CASE k # 0
  <2>1. k - 1 \in Nat /\ k - 1 \notin B
    BY <1>1, <1>3
  <2>2. PICK f : IsText(f, names, k - 1)
    BY <2>1
  <2>3. \A n \in 0..(k - 1) : f[n] = IF n = 0 THEN <<>> ELSE Join(f[n - 1], Lossy(names[n]))
    BY <2>2 DEF IsText
  <2>4. PICK g : g = [n \in 0..k |-> IF n < k THEN f[n] ELSE Join(f[k - 1], Lossy(names[k]))]
    OBVIOUS
  <2>5. \A n \in 0..k : g[n] = IF n = 0 THEN <<>> ELSE Join(g[n - 1], Lossy(names[n]))
    <3> SUFFICES ASSUME NEW n \in 0..k
                 PROVE  g[n] = IF n = 0 THEN <<>> ELSE Join(g[n - 1], Lossy(names[n]))
      OBVIOUS
    <3>1. CASE n = 0
      BY <1>3, <2>1, <2>3, <2>4, <3>1
    <3>2. CASE n # 0 /\ n < k
      <4>1. n \in 0..(k - 1) /\ n - 1 \in 0..k /\ n - 1 < k
        BY <2>1, <3>2
      <4>2. g[n] = f[n] /\ g[n - 1] = f[n - 1]
        BY <2>4, <3>2, <4>1
      <4> QED BY <2>3, <3>2, <4>1, <4>2
    <3>3. CASE n = k
      <4>1. n - 1 \in 0..k /\ n - 1 < k
        BY <2>1, <3>3
      <4>2. g[k] = Join(f[k - 1], Lossy(names[k])) /\ g[k - 1] = f[k - 1]
        BY <2>4, <3>3, <4>1
      <4> QED BY <1>3, <3>3, <4>2
    <3> QED BY <3>1, <3>2, <3>3
  <2>6. IsText(g, names, k)
    <3>1. g = [n \in 0..k |-> g[n]]
      BY <2>4
    <3> QED BY <2>5, <3>1 DEF IsText
  <2> QED BY <2>6
<1> QED BY <1>2, <1>3

(* So PathText is its last value.                                            *)
LEMMA PathTextIs ==
  ASSUME NEW names \in Path
  PROVE  \E f : /\ f[0] = <<>> /\ PathText(names) = f[Len(names)]
                /\ \A n \in 1..Len(names) : f[n] = Join(f[n - 1], Lossy(names[n]))
<1>1. Len(names) \in Nat
  BY DEF Path
<1>2. PICK f : f = CHOOSE g : IsText(g, names, Len(names))
  OBVIOUS
<1>3. IsText(f, names, Len(names))
  BY <1>1, <1>2, TextExists
<1>4. PathText(names) = f[Len(names)]
  BY <1>2 DEF PathText, IsText
<1>5. \A n \in 0..Len(names) : f[n] = IF n = 0 THEN <<>> ELSE Join(f[n - 1], Lossy(names[n]))
  BY <1>3 DEF IsText
<1> QED BY <1>1, <1>4, <1>5

(* A name is a text that is not empty and has no slash.                      *)
LEMMA NameIs == \A n \in Name : n \in Seq(Byte) /\ n # <<>> /\ \A k \in 1..Len(n) : n[k] # Slash
BY DEF Name, ToSet

(* The text of a path, name by name.                                         *)
LEMMA TextOfPath ==
  ASSUME NEW s \in Path, NEW n \in Name
  PROVE  /\ PathText(<<>>) = <<>>
         /\ PathText(s) \in Seq(Byte) /\ (s # <<>> => PathText(s) # <<>>)
         /\ PathText(Append(s, n)) = Join(PathText(s), Lossy(n))
<1>1. <<>> \in Path /\ Len(<<>>) = 0 /\ Len(s) \in Nat
  BY DEF Path
<1>2. PathText(<<>>) = <<>>
  BY <1>1, PathTextIs
<1>3. PICK f : /\ f[0] = <<>> /\ PathText(s) = f[Len(s)]
               /\ \A k \in 1..Len(s) : f[k] = Join(f[k - 1], Lossy(s[k]))
  BY PathTextIs
<1>4. \A k \in 1..Len(s) : Lossy(s[k]) \in Seq(Byte) /\ Lossy(s[k]) # <<>>
  BY NameIs, LossyIs DEF Path
<1>5. \A k \in 0..Len(s) : f[k] \in Seq(Byte) /\ (k # 0 => f[k] # <<>>)
  <2> DEFINE P == {k \in 0..Len(s) : f[k] \in Seq(Byte) /\ (k # 0 => f[k] # <<>>)}
  <2>0. <<>> \in Seq(Byte)
    OBVIOUS
  <2>1. 0 \in P
    <3>1. f[0] \in Seq(Byte) /\ 0 \in 0..Len(s)
      BY <1>1, <1>3, <2>0
    <3> QED BY <3>1
  <2>2. ASSUME NEW k \in 1..Len(s), k - 1 \in P PROVE k \in P
    <3>1. PICK l : l = Lossy(s[k])
      OBVIOUS
    <3>2. PICK e \in Seq(Byte) : e = f[k - 1]
      BY <2>2
    <3>3. f[k] = Join(e, l) /\ l \in Seq(Byte) /\ l # <<>>
      BY <1>3, <1>4, <3>1, <3>2
    <3>4. f[k] \in Seq(Byte) /\ f[k] # <<>>
      <4>1. e \in Seq(Byte) /\ l \in Seq(Byte)
        BY <3>2, <3>3
      <4>2. Join(e, l) \in Seq(Byte) /\ (e # <<>> \/ l # <<>> => Join(e, l) # <<>>)
        BY <4>1, JoinIs
      <4> QED BY <3>3, <4>2
    <3> QED BY <1>1, <3>4
  <2>3. \A k \in 0..Len(s) : k \in P
    <3> HIDE DEF P
    <3> QED BY <1>1, <2>1, <2>2, AllUpTo
  <2> QED BY <2>3
<1>6. PathText(s) \in Seq(Byte) /\ (s # <<>> => PathText(s) # <<>>)
  <2>1. s # <<>> => Len(s) # 0
    BY DEF Path
  <2> QED BY <1>1, <1>3, <1>5, <2>1
<1>7. PICK t : t = Append(s, n)
  OBVIOUS
<1>8. t \in Path /\ Len(t) = Len(s) + 1 /\ t[Len(s) + 1] = n /\ \A k \in 1..Len(s) : t[k] = s[k]
  BY <1>7, AppendProperties DEF Path
<1>9. PICK g : /\ g[0] = <<>> /\ PathText(t) = g[Len(t)]
               /\ \A k \in 1..Len(t) : g[k] = Join(g[k - 1], Lossy(t[k]))
  BY <1>8, PathTextIs
<1>10. \A k \in 0..Len(s) : g[k] = f[k]
  <2> DEFINE P == {k \in 0..Len(s) : g[k] = f[k]}
  <2>1. 0 \in P
    BY <1>1, <1>3, <1>9
  <2>2. ASSUME NEW k \in 1..Len(s), k - 1 \in P PROVE k \in P
    <3>1. g[k] = Join(g[k - 1], Lossy(t[k])) /\ t[k] = s[k]
      BY <1>1, <1>8, <1>9
    <3> QED BY <1>1, <1>3, <2>2, <3>1
  <2>3. \A k \in 0..Len(s) : k \in P
    <3> HIDE DEF P
    <3> QED BY <1>1, <2>1, <2>2, AllUpTo
  <2> QED BY <2>3
<1>11. PathText(t) = Join(PathText(s), Lossy(n))
  <2>1. Len(t) \in 1..Len(t) /\ Len(t) - 1 = Len(s) /\ Len(s) \in 0..Len(s)
    BY <1>1, <1>8
  <2> QED BY <1>3, <1>8, <1>9, <1>10, <2>1
<1> QED BY <1>2, <1>6, <1>7, <1>11

-----------------------------------------------------------------------------
(* The order of --sort.                                                      *)

(* Bytes are numbers.                                                        *)
LEMMA BytesAreNumbers == \A b \in Byte : b \in Int
BY SMT DEF Byte

(* Where one text is smaller than another.                                   *)
BeforeAt(s, t, k) ==
  /\ k \in Nat \ {0} /\ k <= Len(t)
  /\ \A j \in 1..(k - 1) : j <= Len(s) /\ s[j] = t[j]
  /\ k = Len(s) + 1 \/ (k <= Len(s) /\ s[k] < t[k])

(* TextBefore, by the first place where two texts differ.                    *)
LEMMA BeforeIs ==
  ASSUME NEW s \in Seq(Byte), NEW t \in Seq(Byte)
  PROVE  TextBefore(s, t) <=> \E k \in Nat : BeforeAt(s, t, k)
<1>1. Len(s) \in Nat /\ Len(t) \in Nat /\ DOMAIN s = 1..Len(s) /\ DOMAIN t = 1..Len(t)
  OBVIOUS
<1>2. ASSUME IsStrictPrefix(s, t) PROVE \E k \in Nat : BeforeAt(s, t, k)
  <2>1. Len(s) < Len(t) /\ \A j \in 1..Len(s) : s[j] = t[j]
    BY <1>1, <1>2, PrefixByPlace, PrefixOrder DEF IsStrictPrefix
  <2>2. PICK k \in Nat : k = Len(s) + 1
    BY <1>1
  <2>3. BeforeAt(s, t, k)
    BY <1>1, <2>1, <2>2 DEF BeforeAt
  <2> QED BY <2>3
<1>3. ASSUME NEW k \in DOMAIN s \cap DOMAIN t, s[k] < t[k], \A j \in 1..(k - 1) : s[j] = t[j]
      PROVE  \E l \in Nat : BeforeAt(s, t, l)
  <2>1. k \in Nat /\ BeforeAt(s, t, k)
    BY <1>1, <1>3 DEF BeforeAt
  <2> QED BY <2>1
<1>4. ASSUME NEW k \in Nat, BeforeAt(s, t, k) PROVE TextBefore(s, t)
  <2>1. CASE k = Len(s) + 1
    <3>1. Len(s) < Len(t) /\ \A j \in 1..Len(s) : s[j] = t[j]
      BY <1>1, <1>4, <2>1 DEF BeforeAt
    <3>2. IsPrefix(s, t) /\ s # t
      BY <1>1, <3>1, PrefixByPlace
    <3> QED BY <3>2 DEF TextBefore, IsStrictPrefix
  <2>2. CASE k <= Len(s) /\ s[k] < t[k]
    <3>1. k \in DOMAIN s \cap DOMAIN t /\ \A j \in 1..(k - 1) : s[j] = t[j]
      BY <1>1, <1>4, <2>2 DEF BeforeAt
    <3> QED BY <2>2, <3>1 DEF TextBefore
  <2> QED BY <1>4, <2>1, <2>2 DEF BeforeAt
<1> QED BY <1>2, <1>3, <1>4 DEF TextBefore

(* TextBefore orders texts strictly and totally.                             *)
LEMMA TextsAreOrdered ==
  ASSUME NEW s \in Seq(Byte), NEW t \in Seq(Byte), NEW u \in Seq(Byte)
  PROVE  /\ ~TextBefore(s, s)
         /\ TextBefore(s, t) /\ TextBefore(t, u) => TextBefore(s, u)
         /\ s = t \/ TextBefore(s, t) \/ TextBefore(t, s)
<1>1. /\ Len(s) \in Nat /\ Len(t) \in Nat /\ Len(u) \in Nat
      /\ \A k \in 1..Len(s) : s[k] \in Int
      /\ \A k \in 1..Len(t) : t[k] \in Int
      /\ \A k \in 1..Len(u) : u[k] \in Int
  BY BytesAreNumbers
<1>2. ~TextBefore(s, s)
  <2> SUFFICES ASSUME NEW k \in Nat, BeforeAt(s, s, k) PROVE FALSE
    BY BeforeIs
  <2> QED BY <1>1 DEF BeforeAt
<1>3. ASSUME TextBefore(s, t), TextBefore(t, u) PROVE TextBefore(s, u)
  <2>1. PICK k \in Nat : BeforeAt(s, t, k)
    BY <1>3, BeforeIs
  <2>2. PICK l \in Nat : BeforeAt(t, u, l)
    BY <1>3, BeforeIs
  <2>3. CASE k < l
    <3>1. /\ k \in Nat \ {0} /\ k <= Len(u)
          /\ \A j \in 1..(k - 1) : j <= Len(s) /\ s[j] = u[j]
          /\ k <= Len(t) /\ t[k] = u[k]
      BY <1>1, <2>1, <2>2, <2>3 DEF BeforeAt
    <3>2. BeforeAt(s, u, k)
      BY <2>1, <3>1 DEF BeforeAt
    <3> QED BY <3>2, BeforeIs
  <2>4. CASE k = l
    <3>1. /\ k \in Nat \ {0} /\ k <= Len(u) /\ k <= Len(t) /\ t[k] < u[k]
          /\ \A j \in 1..(k - 1) : j <= Len(s) /\ s[j] = u[j]
      BY <1>1, <2>1, <2>2, <2>4 DEF BeforeAt
    <3>2. k <= Len(s) /\ s[k] < t[k] => s[k] < u[k]
      BY <1>1, <3>1
    <3>3. BeforeAt(s, u, k)
      BY <2>1, <3>1, <3>2 DEF BeforeAt
    <3> QED BY <3>3, BeforeIs
  <2>5. CASE l < k
    <3>1. /\ l \in Nat \ {0} /\ l <= Len(u) /\ l <= Len(s) /\ s[l] = t[l]
          /\ l <= Len(t) /\ t[l] < u[l]
          /\ \A j \in 1..(l - 1) : j <= Len(s) /\ s[j] = u[j]
      BY <1>1, <2>1, <2>2, <2>5 DEF BeforeAt
    <3>2. BeforeAt(s, u, l)
      BY <3>1 DEF BeforeAt
    <3> QED BY <3>2, BeforeIs
  <2> QED BY <2>3, <2>4, <2>5
<1>4. ASSUME s # t, ~TextBefore(s, t), ~TextBefore(t, s) PROVE FALSE
  <2> DEFINE B == {k \in Nat \ {0} : ~(k <= Len(s) /\ k <= Len(t) /\ s[k] = t[k])}
  <2>1. B \in SUBSET Nat /\ Len(s) + 1 \in B
    BY <1>1
  <2>2. PICK k \in B : \A j \in B : k <= j
    <3> HIDE DEF B
    <3> QED BY <2>1, Least
  <2>3. k \in Nat \ {0} /\ ~(k <= Len(s) /\ k <= Len(t) /\ s[k] = t[k])
    OBVIOUS
  <2>4. \A j \in 1..(k - 1) : j <= Len(s) /\ j <= Len(t) /\ s[j] = t[j]
    <3>1. ASSUME NEW j \in 1..(k - 1) PROVE j \notin B /\ j \in Nat \ {0}
      BY <2>2, <2>3
    <3> QED BY <3>1
  <2>5. Len(s) >= k - 1 /\ Len(t) >= k - 1
    <3>1. k - 1 = 0 \/ k - 1 \in 1..(k - 1)
      BY <2>3
    <3> QED BY <1>1, <2>3, <2>4, <3>1
  <2>6. CASE k > Len(s) /\ k > Len(t)
    <3>1. Len(s) = k - 1 /\ Len(t) = k - 1
      BY <1>1, <2>3, <2>5, <2>6
    <3> QED BY <1>4, <2>4, <3>1, SeqEqual
  <2>7. CASE k > Len(s) /\ k <= Len(t)
    <3>1. BeforeAt(s, t, k)
      BY <1>1, <2>3, <2>4, <2>5, <2>7 DEF BeforeAt
    <3> QED BY <1>4, <2>3, <3>1, BeforeIs
  <2>8. CASE k <= Len(s) /\ k > Len(t)
    <3>1. BeforeAt(t, s, k)
      BY <1>1, <2>3, <2>4, <2>5, <2>8 DEF BeforeAt
    <3> QED BY <1>4, <2>3, <3>1, BeforeIs
  <2>9. CASE k <= Len(s) /\ k <= Len(t)
    <3>1. s[k] < t[k] \/ t[k] < s[k]
      BY <1>1, <2>3, <2>9
    <3>2. BeforeAt(s, t, k) \/ BeforeAt(t, s, k)
      BY <2>3, <2>4, <2>9, <3>1 DEF BeforeAt
    <3> QED BY <1>4, <2>3, <3>2, BeforeIs
  <2> QED BY <1>1, <2>3, <2>6, <2>7, <2>8, <2>9
<1> QED BY <1>2, <1>3, <1>4

(* A sorted list has the items there were, each in a place of its own.       *)
Rearranged(s, t) ==
  /\ DOMAIN t = DOMAIN s
  /\ \E order \in [DOMAIN s -> DOMAIN s] :
       /\ \A k \in DOMAIN s : t[k] = s[order[k]]
       /\ \A k \in DOMAIN s : \E j \in DOMAIN s : order[j] = k
       /\ \A j, k \in DOMAIN s : order[j] = order[k] => j = k

(* --sort rearranges the list.                                               *)
LEMMA SortRearranges ==
  ASSUME NEW T, NEW s \in Seq(T), \A k \in DOMAIN s : s[k].name \in Seq(Byte)
  PROVE  SortedByName(s) \in Seq(T) /\ Rearranged(s, SortedByName(s))
<1>1. PICK n \in Nat : n = Len(s) /\ DOMAIN s = 1..n
  OBVIOUS
<1>2. IsFiniteSet(DOMAIN s) /\ Cardinality(DOMAIN s) = n
  <2>1. IsFiniteSet(1..n) /\ Cardinality(1..n) = n
    <3>1. 1 \in Int /\ n \in Int
      BY <1>1
    <3>2. IsFiniteSet(1..n) /\ Cardinality(1..n) = IF 1 > n THEN 0 ELSE n - 1 + 1
      BY <3>1, FS_Interval
    <3> QED BY <1>1, <3>2
  <2> QED BY <1>1, <2>1
<1>3. PICK before : before = NameBefore(s)
  OBVIOUS
<1>4. \A j, k \in DOMAIN s :
        <<j, k>> \in before <=> \/ TextBefore(s[j].name, s[k].name)
                                \/ s[j].name = s[k].name /\ j < k
  BY <1>3 DEF NameBefore
<1>5. IsOrder(before, DOMAIN s)
  <2>1. ASSUME NEW j \in DOMAIN s PROVE <<j, j>> \notin before
    BY <1>1, <1>4, TextsAreOrdered
  <2>2. ASSUME NEW j \in DOMAIN s, NEW k \in DOMAIN s, NEW l \in DOMAIN s,
               <<j, k>> \in before, <<k, l>> \in before
        PROVE  <<j, l>> \in before
    <3>1. PICK a \in Seq(Byte), b \in Seq(Byte), c \in Seq(Byte) :
            a = s[j].name /\ b = s[k].name /\ c = s[l].name
      OBVIOUS
    <3>2. TextBefore(a, b) \/ (a = b /\ j < k)
      BY <1>4, <2>2, <3>1
    <3>3. TextBefore(b, c) \/ (b = c /\ k < l)
      BY <1>4, <2>2, <3>1
    <3>4. TextBefore(a, b) /\ TextBefore(b, c) => TextBefore(a, c)
      BY <3>1, TextsAreOrdered
    <3>5. j < k /\ k < l => j < l
      BY <1>1
    <3>6. TextBefore(a, c) \/ (a = c /\ j < l)
      BY <3>2, <3>3, <3>4, <3>5
    <3> QED BY <1>4, <3>1, <3>6
  <2>3. ASSUME NEW j \in DOMAIN s, NEW k \in DOMAIN s
        PROVE  j = k \/ <<j, k>> \in before \/ <<k, j>> \in before
    <3>1. PICK a \in Seq(Byte), b \in Seq(Byte) : a = s[j].name /\ b = s[k].name
      OBVIOUS
    <3>2. a = b \/ TextBefore(a, b) \/ TextBefore(b, a)
      BY <3>1, TextsAreOrdered
    <3>3. j = k \/ j < k \/ k < j
      BY <1>1
    <3> QED BY <1>4, <3>1, <3>2, <3>3
  <2> QED BY <2>1, <2>2, <2>3 DEF IsOrder
<1>6. PICK order : order = InOrder(DOMAIN s, before)
  OBVIOUS
<1>7. /\ order \in [1..n -> DOMAIN s]
      /\ \A k \in DOMAIN s : \E j \in 1..n : order[j] = k
      /\ \A j, k \in 1..n : j < k => <<order[j], order[k]>> \in before
  BY <1>2, <1>5, <1>6, InOrderIsSorted
<1>8. \A j, k \in DOMAIN s : order[j] = order[k] => j = k
  <2> SUFFICES ASSUME NEW j \in 1..n, NEW k \in 1..n, order[j] = order[k], j < k PROVE FALSE
    BY <1>1
  <2> QED BY <1>5, <1>7 DEF IsOrder
<1>9. PICK t : t = SortedByName(s)
  OBVIOUS
<1>10. t = [k \in DOMAIN s |-> s[order[k]]]
  BY <1>3, <1>6, <1>9 DEF SortedByName
<1>11. \A k \in DOMAIN s : t[k] = s[order[k]] /\ t[k] \in T
  BY <1>1, <1>7, <1>10
<1>12. t \in Seq(T)
  <2>1. t = [k \in 1..n |-> t[k]] /\ \A k \in 1..n : t[k] \in T
    BY <1>1, <1>10, <1>11
  <2> QED BY <1>1, <2>1, IsASeq
<1>13. Rearranged(s, t)
  <2>1. order \in [DOMAIN s -> DOMAIN s]
    BY <1>1, <1>7
  <2>2. \A k \in DOMAIN s : \E j \in DOMAIN s : order[j] = k
    BY <1>1, <1>7
  <2>3. DOMAIN t = DOMAIN s
    BY <1>10
  <2>4. \A k \in DOMAIN s : t[k] = s[order[k]]
    BY <1>11
  <2> QED BY <1>8, <2>1, <2>2, <2>3, <2>4 DEF Rearranged
<1> QED BY <1>9, <1>12, <1>13

(* A list in another order has the same entries.                             *)
LEMMA SentRearranged ==
  ASSUME NEW s, NEW t, Rearranged(s, t), NEW i, NEW asked, NEW dirs, Sent(i, asked, dirs, s)
  PROVE  Sent(i, asked, dirs, t)
<1>1. PICK order \in [DOMAIN s -> DOMAIN s] :
        /\ \A k \in DOMAIN s : t[k] = s[order[k]]
        /\ \A k \in DOMAIN s : \E j \in DOMAIN s : order[j] = k
  BY DEF Rearranged
<1>2. DOMAIN t = DOMAIN s
  BY DEF Rearranged
<1>3. \A k \in DOMAIN t : order[k] \in DOMAIN s /\ t[k] = s[order[k]]
  BY <1>1, <1>2
<1>4. ASSUME NEW k \in DOMAIN t, t[k].root = i
      PROVE  EntryOf(t[k]) \in asked /\ ~Above(dirs, t[k].path)
  BY <1>3, <1>4 DEF Sent
<1>5. ASSUME NEW e \in asked, ~Above(dirs, e.path)
      PROVE  \E k \in DOMAIN t : EntryOf(t[k]) = e
  <2>1. PICK k \in DOMAIN s : EntryOf(s[k]) = e
    BY <1>5 DEF Sent
  <2>2. PICK j \in DOMAIN s : order[j] = k
    BY <1>1
  <2>3. j \in DOMAIN t /\ t[j] = s[k]
    BY <1>1, <1>2, <2>2
  <2> QED BY <2>1, <2>3
<1> QED BY <1>4, <1>5 DEF Sent

(* A list in another order has no entry twice if it had none.                *)
LEMMA OnceRearranged ==
  ASSUME NEW s, NEW t, Rearranged(s, t), Once(s)
  PROVE  Once(t)
<1>1. PICK order \in [DOMAIN s -> DOMAIN s] :
        /\ \A k \in DOMAIN s : t[k] = s[order[k]]
        /\ \A j, k \in DOMAIN s : order[j] = order[k] => j = k
  BY DEF Rearranged
<1>2. DOMAIN t = DOMAIN s
  BY DEF Rearranged
<1> SUFFICES ASSUME NEW k \in DOMAIN s, NEW l \in DOMAIN s, t[k].root = t[l].root, t[k].path = t[l].path
             PROVE  k = l
  BY <1>2 DEF Once
<1>3. order[k] \in DOMAIN s /\ order[l] \in DOMAIN s /\ t[k] = s[order[k]] /\ t[l] = s[order[l]]
  BY <1>1
<1>4. order[k] = order[l]
  BY <1>3 DEF Once
<1> QED BY <1>1, <1>4

-----------------------------------------------------------------------------
(* The names a text spells.                                                  *)

(* What one byte more does to the names spelled so far.                      *)
SpellStep(names, text, n) ==
  IF text[n] = Slash THEN names
  ELSE IF n = 1 \/ text[n - 1] = Slash THEN Append(names, <<text[n]>>)
  ELSE Append(Front(names), Append(Last(names), text[n]))

Spells(f, text, m) ==
  f = [n \in 0..m |-> IF n = 0 THEN <<>> ELSE SpellStep(f[n - 1], text, n)]

(* The function Spelled chooses exists.                                      *)
LEMMA SpellsExists ==
  ASSUME NEW text, NEW m \in Nat
  PROVE  \E f : Spells(f, text, m)
<1> DEFINE B == {k \in Nat : ~\E f : Spells(f, text, k)}
<1> SUFFICES ASSUME B # {} PROVE FALSE
  OBVIOUS
<1>1. PICK k \in B : \A l \in B : k <= l
  <2>1. B \in SUBSET Nat
    OBVIOUS
  <2> QED BY <2>1, Least
<1>2. CASE k = 0
  <2>1. PICK f : f = [n \in 0..0 |-> <<>>]
    OBVIOUS
  <2>2. f = [n \in 0..0 |-> IF n = 0 THEN <<>> ELSE SpellStep(f[n - 1], text, n)]
    BY <2>1
  <2>3. Spells(f, text, 0)
    BY <2>2 DEF Spells
  <2> QED BY <1>2, <2>3
<1>3. CASE k # 0
  <2>1. k - 1 \in Nat /\ k - 1 \notin B
    BY <1>1, <1>3
  <2>2. PICK f : Spells(f, text, k - 1)
    BY <2>1
  <2>3. \A n \in 0..(k - 1) : f[n] = IF n = 0 THEN <<>> ELSE SpellStep(f[n - 1], text, n)
    BY <2>2 DEF Spells
  <2>4. PICK g : g = [n \in 0..k |-> IF n < k THEN f[n] ELSE SpellStep(f[k - 1], text, k)]
    OBVIOUS
  <2>5. \A n \in 0..k : g[n] = IF n = 0 THEN <<>> ELSE SpellStep(g[n - 1], text, n)
    <3> SUFFICES ASSUME NEW n \in 0..k
                 PROVE  g[n] = IF n = 0 THEN <<>> ELSE SpellStep(g[n - 1], text, n)
      OBVIOUS
    <3>1. CASE n = 0
      BY <1>3, <2>1, <2>3, <2>4, <3>1
    <3>2. CASE n # 0 /\ n < k
      <4>1. n \in 0..(k - 1) /\ n - 1 \in 0..k /\ n - 1 < k
        BY <2>1, <3>2
      <4>2. g[n] = f[n] /\ g[n - 1] = f[n - 1]
        BY <2>4, <3>2, <4>1
      <4> QED BY <2>3, <3>2, <4>1, <4>2
    <3>3. CASE n = k
      <4>1. n - 1 \in 0..k /\ n - 1 < k
        BY <2>1, <3>3
      <4>2. g[k] = SpellStep(f[k - 1], text, k) /\ g[k - 1] = f[k - 1]
        BY <2>4, <3>3, <4>1
      <4> QED BY <1>3, <3>3, <4>2
    <3> QED BY <3>1, <3>2, <3>3
  <2>6. Spells(g, text, k)
    <3>1. g = [n \in 0..k |-> g[n]]
      BY <2>4
    <3> QED BY <2>5, <3>1 DEF Spells
  <2> QED BY <2>6
<1> QED BY <1>2, <1>3

(* So Spelled is its last value.                                             *)
LEMMA SpelledSpells ==
  ASSUME NEW text \in Seq(Byte)
  PROVE  \E f : /\ f[0] = <<>> /\ Spelled(text) = f[Len(text)]
                /\ \A n \in 1..Len(text) : f[n] = SpellStep(f[n - 1], text, n)
<1>1. Len(text) \in Nat
  OBVIOUS
<1>2. PICK f : f = CHOOSE g : Spells(g, text, Len(text))
  OBVIOUS
<1>3. Spells(f, text, Len(text))
  BY <1>1, <1>2, SpellsExists
<1>4. Spelled(text) = f[Len(text)]
  BY <1>2 DEF Spelled, Spells, SpellStep
<1>5. \A n \in 0..Len(text) : f[n] = IF n = 0 THEN <<>> ELSE SpellStep(f[n - 1], text, n)
  BY <1>3 DEF Spells
<1> QED BY <1>1, <1>4, <1>5

(* The names a text spells, byte by byte.                                    *)
LEMMA SpelledFurther ==
  ASSUME NEW s \in Seq(Byte), NEW c \in Byte
  PROVE  /\ Spelled(<<>>) = <<>>
         /\ Spelled(Append(s, c)) =
              IF c = Slash THEN Spelled(s)
              ELSE IF s = <<>> \/ Last(s) = Slash THEN Append(Spelled(s), <<c>>)
              ELSE Append(Front(Spelled(s)), Append(Last(Spelled(s)), c))
<1>1. <<>> \in Seq(Byte) /\ Len(<<>>) = 0 /\ Len(s) \in Nat
  OBVIOUS
<1>2. Spelled(<<>>) = <<>>
  BY <1>1, SpelledSpells
<1>3. PICK f : /\ f[0] = <<>> /\ Spelled(s) = f[Len(s)]
               /\ \A n \in 1..Len(s) : f[n] = SpellStep(f[n - 1], s, n)
  BY SpelledSpells
<1>4. PICK t \in Seq(Byte) : /\ t = Append(s, c) /\ Len(t) = Len(s) + 1 /\ t[Len(s) + 1] = c
                             /\ \A k \in 1..Len(s) : t[k] = s[k]
  <2>1. PICK t : t = Append(s, c)
    OBVIOUS
  <2>2. t \in Seq(Byte)
    BY <2>1
  <2>3. Len(t) = Len(s) + 1 /\ t[Len(s) + 1] = c /\ \A k \in 1..Len(s) : t[k] = s[k]
    BY <2>1
  <2> QED BY <2>1, <2>2, <2>3
<1>5. PICK g : /\ g[0] = <<>> /\ Spelled(t) = g[Len(t)]
               /\ \A n \in 1..Len(t) : g[n] = SpellStep(g[n - 1], t, n)
  BY SpelledSpells
<1>6. \A n \in 0..Len(s) : g[n] = f[n]
  <2> DEFINE P == {n \in 0..Len(s) : g[n] = f[n]}
  <2>1. 0 \in P
    <3>1. g[0] = f[0] /\ 0 \in 0..Len(s)
      BY <1>1, <1>3, <1>5
    <3> QED BY <3>1
  <2>2. ASSUME NEW n \in 1..Len(s), n - 1 \in P PROVE n \in P
    <3>1. g[n] = SpellStep(g[n - 1], t, n) /\ f[n] = SpellStep(f[n - 1], s, n)
      BY <1>1, <1>3, <1>4, <1>5
    <3>2. t[n] = s[n] /\ (n # 1 => t[n - 1] = s[n - 1])
      BY <1>1, <1>4
    <3>3. g[n] = f[n]
      BY <2>2, <3>1, <3>2 DEF SpellStep
    <3> QED BY <1>1, <3>3
  <2>3. \A n \in 0..Len(s) : n \in P
    <3> HIDE DEF P
    <3> QED BY <1>1, <2>1, <2>2, AllUpTo
  <2> QED BY <2>3
<1>7. Spelled(t) = SpellStep(Spelled(s), t, Len(s) + 1)
  <2>1. Len(s) + 1 \in 1..Len(t) /\ Len(s) \in 0..Len(s) /\ Len(s) + 1 - 1 = Len(s)
    BY <1>1, <1>4
  <2> QED BY <1>3, <1>4, <1>5, <1>6, <2>1
<1>8. CASE s = <<>>
  BY <1>1, <1>2, <1>4, <1>7, <1>8 DEF SpellStep
<1>9. CASE s # <<>>
  <2>1. Len(s) + 1 # 1 /\ t[Len(s) + 1 - 1] = Last(s)
    BY <1>1, <1>4, <1>9 DEF Last
  <2> QED BY <1>2, <1>4, <1>7, <1>9, <2>1 DEF SpellStep
<1> QED BY <1>8, <1>9

(* A text spells names, and at least one if it ends within one.              *)
LEMMA SpelledIs ==
  ASSUME NEW t \in Seq(Byte)
  PROVE  /\ Spelled(t) \in Seq(Seq(Byte))
         /\ t # <<>> /\ Last(t) # Slash => Spelled(t) # <<>>
<1> DEFINE S == {s \in Seq(Byte) : /\ Spelled(s) \in Seq(Seq(Byte))
                                   /\ s # <<>> /\ Last(s) # Slash => Spelled(s) # <<>>}
<1>1. <<>> \in S
  <2>1. Spelled(<<>>) = <<>>
    <3>1. PICK c \in Byte : c = 0
      BY DEF Byte
    <3>2. <<>> \in Seq(Byte)
      OBVIOUS
    <3> QED BY <3>1, <3>2, SpelledFurther
  <2>2. Spelled(<<>>) \in Seq(Seq(Byte)) /\ <<>> \in Seq(Byte)
    <3>1. <<>> \in Seq(Seq(Byte)) /\ <<>> \in Seq(Byte)
      OBVIOUS
    <3> QED BY <2>1, <3>1
  <2> QED BY <2>2
<1>2. ASSUME NEW s \in Seq(Byte), s \in S, NEW c \in Byte PROVE Append(s, c) \in S
  <2>1. PICK u : u = Append(s, c)
    OBVIOUS
  <2>2. u \in Seq(Byte) /\ Last(u) = c
    BY <2>1, FrontOfAppend
  <2>3. PICK names \in Seq(Seq(Byte)) : names = Spelled(s) /\ (s # <<>> /\ Last(s) # Slash => names # <<>>)
    BY <1>2
  <2>4. Spelled(u) = IF c = Slash THEN names
                     ELSE IF s = <<>> \/ Last(s) = Slash THEN Append(names, <<c>>)
                     ELSE Append(Front(names), Append(Last(names), c))
    BY <2>1, <2>3, SpelledFurther
  <2>5. CASE c = Slash
    BY <2>1, <2>2, <2>3, <2>4, <2>5
  <2>6. CASE c # Slash /\ (s = <<>> \/ Last(s) = Slash)
    <3>1. PICK e \in Seq(Byte) : e = <<c>>
      <4>1. <<c>> \in Seq(Byte)
        OBVIOUS
      <4> QED BY <4>1
    <3>2. Append(names, e) \in Seq(Seq(Byte)) /\ Append(names, e) # <<>>
      BY FrontOfAppend
    <3> QED BY <2>1, <2>2, <2>4, <2>6, <3>1, <3>2
  <2>7. CASE c # Slash /\ ~(s = <<>> \/ Last(s) = Slash)
    <3>1. PICK f \in Seq(Seq(Byte)), l \in Seq(Byte) : f = Front(names) /\ l = Last(names)
      BY <2>3, <2>7, FrontAndLast
    <3>2. PICK e \in Seq(Byte) : e = Append(l, c)
      BY FrontOfAppend
    <3>3. Append(f, e) \in Seq(Seq(Byte)) /\ Append(f, e) # <<>>
      BY FrontOfAppend
    <3> QED BY <2>1, <2>2, <2>4, <2>7, <3>1, <3>2, <3>3
  <2> QED BY <2>5, <2>6, <2>7
<1>3. \A s \in Seq(Byte) : s \in S
  <2> HIDE DEF S
  <2> QED BY <1>1, <1>2, SeqInduct
<1> QED BY <1>3

-----------------------------------------------------------------------------
(* The names of items are texts.                                             *)

(* Trimmed makes a text of a text, the same one if it does not begin with a  *)
(* slash.                                                                    *)
LEMMA TrimmedIs ==
  ASSUME NEW s \in Seq(Byte), NEW front \in BOOLEAN, NEW back \in BOOLEAN
  PROVE  /\ Trimmed(s, front, back) \in Seq(Byte)
         /\ s # <<>> /\ s[1] # Slash => Trimmed(s, TRUE, FALSE) = s
<1>1. PICK n \in Nat : n = Len(s) /\ DOMAIN s = 1..n
  OBVIOUS
<1>2. PICK kept \in SUBSET (1..n) : kept = {k \in DOMAIN s : s[k] # Slash}
  BY <1>1
<1>3. Trimmed(s, front, back) \in Seq(Byte)
  <2>1. CASE kept = {}
    BY <1>2, <2>1 DEF Trimmed
  <2>2. CASE kept # {}
    <3>1. PICK a \in 1..n, b \in 1..n : a = Min(kept) /\ b = Max(kept)
      BY <1>2, <2>2, MinAndMax
    <3>2. PICK c \in 1..n, d \in 0..n :
            c = (IF front THEN a ELSE 1) /\ d = (IF back THEN b ELSE n)
      <4>1. 1 \in 1..n /\ n \in 0..n /\ b \in 0..n
        BY <1>1, <3>1
      <4> QED BY <4>1
    <3>3. Trimmed(s, front, back) = SubSeq(s, c, d)
      BY <1>1, <1>2, <2>2, <3>1, <3>2 DEF Trimmed
    <3>4. \A k \in c..d : s[k] \in Byte
      BY <1>1
    <3>5. SubSeq(s, c, d) \in Seq(Byte)
      BY <3>4, SubSeqProperties
    <3> QED BY <3>3, <3>5
  <2> QED BY <2>1, <2>2
<1>4. ASSUME s # <<>>, s[1] # Slash PROVE Trimmed(s, TRUE, FALSE) = s
  <2>1. 1 \in kept
    BY <1>1, <1>2, <1>4
  <2>2. PICK a \in 1..n : a = Min(kept)
    BY <1>2, <2>1, MinAndMax
  <2>3. a = 1
    <3>1. a <= 1
      <4>1. \A x \in kept : Min(kept) <= x
        BY <1>2, <2>1, MinAndMax
      <4> QED BY <2>1, <2>2, <4>1
    <3> QED BY <2>2, <3>1
  <2>4. Trimmed(s, TRUE, FALSE) = SubSeq(s, 1, Len(s))
    BY <1>1, <1>2, <2>1, <2>2, <2>3 DEF Trimmed
  <2>5. SubSeq(s, 1, Len(s)) = s
    OBVIOUS
  <2> QED BY <2>4, <2>5
<1> QED BY <1>3, <1>4

(* The name of a root is a text.                                             *)
LEMMA PrefixIsText ==
  ASSUME NEW r, IsRoot(r)
  PROVE  Prefix(r) \in Seq(Byte)
<1>1. r.text \in Seq(Byte)
  BY DEF IsRoot
<1>2. Trimmed(Lossy(r.text), TRUE, TRUE) \in Seq(Byte)
  BY <1>1, LossyIs, TrimmedIs
<1>3. PICK names \in Seq(Seq(Byte)) : names = Spelled(r.text)
  BY <1>1, SpelledIs
<1>4. PICK kept : kept = {k \in DOMAIN names : names[k] # <<Dot>>}
  OBVIOUS
<1>5. kept # {} => Lossy(names[Max(kept)]) \in Seq(Byte)
  <2> SUFFICES ASSUME kept # {} PROVE Lossy(names[Max(kept)]) \in Seq(Byte)
    OBVIOUS
  <2>1. PICK n \in Nat : n = Len(names) /\ DOMAIN names = 1..n
    BY <1>3
  <2>2. kept \in SUBSET (1..n)
    BY <1>4, <2>1
  <2>3. PICK m \in 1..n : m = Max(kept)
    BY <2>2, MinAndMax
  <2>4. names[m] \in Seq(Byte)
    BY <1>3, <2>1
  <2> QED BY <2>3, <2>4, LossyIs
<1>6. <<>> \in Seq(Byte)
  OBVIOUS
<1>7. Prefix(r) = IF ~ask.basenameOnly THEN Trimmed(Lossy(r.text), TRUE, TRUE)
                  ELSE IF kept = {} \/ names[Max(kept)] = <<Dot, Dot>> THEN <<>>
                  ELSE Lossy(names[Max(kept)])
  BY <1>3, <1>4 DEF Prefix
<1> QED BY <1>2, <1>5, <1>6, <1>7

(* The text of a path is a text.                                             *)
LEMMA PathTextIsText ==
  ASSUME NEW s \in Path
  PROVE  PathText(s) \in Seq(Byte)
<1>1. <<1>> \in Name
  <2>1. 1 \in Byte
    BY SMT DEF Byte
  <2>2. <<1>> \in Seq(Byte) /\ <<1>> # <<>> /\ \A k \in DOMAIN <<1>> : <<1>>[k] = 1
    BY <2>1
  <2> QED BY <2>2 DEF Name, ToSet, Slash
<1> QED BY <1>1, TextOfPath

(* The name archive_name makes is a text.                                    *)
LEMMA ArchiveNameIs ==
  ASSUME NEW base \in Seq(Byte), NEW names \in Path
  PROVE  ArchiveName(base, names) \in Seq(Byte)
<1>1. PICK text \in Seq(Byte) : text = PathText(names)
  BY PathTextIsText
<1>2. PICK n \in Nat : n = Len(text) /\ DOMAIN text = 1..n /\ \A k \in 1..n : text[k] \in Byte
  OBVIOUS
<1>3. PICK t : t = [k \in DOMAIN text |-> IF text[k] = Backslash THEN Slash ELSE text[k]]
  OBVIOUS
<1>4. Slash \in Byte
  BY DEF Slash, Byte
<1>5. t \in Seq(Byte)
  <2>1. t = [k \in 1..n |-> t[k]] /\ \A k \in 1..n : t[k] \in Byte
    BY <1>2, <1>3, <1>4
  <2> QED BY <1>2, <2>1, IsASeq
<1>6. PICK u : u = Trimmed(t, TRUE, FALSE)
  OBVIOUS
<1>7. u \in Seq(Byte)
  BY <1>5, <1>6, TrimmedIs
<1>8. ArchiveName(base, names) = Join(base, u)
  BY <1>1, <1>3, <1>6 DEF ArchiveName
<1> QED BY <1>7, <1>8, JoinIs

(* The name of an item is a text.                                            *)
LEMMA NameOfIs ==
  ASSUME NEW i, IsRoot(ask.given[i]), NEW r \in Path, NEW p \in Path, IsPrefix(r, p)
  PROVE  NameOf(i, r, p) \in Seq(Byte)
<1>1. PICK base \in Seq(Byte) : base = Prefix(ask.given[i])
  BY PrefixIsText
<1>2. Below(r, p) \in Path
  BY BelowIs DEF Path
<1>3. ArchiveName(base, Below(r, p)) \in Seq(Byte)
  BY <1>2, ArchiveNameIs
<1>4. Join(base, PathText(Below(r, p))) \in Seq(Byte)
  <2>1. PathText(Below(r, p)) \in Seq(Byte)
    BY <1>2, PathTextIsText
  <2> QED BY <2>1, JoinIs
<1> QED BY <1>1, <1>3, <1>4 DEF NameOf

(* The name that is carried from directory to directory is that of the path. *)
LEMMA CarriedIsName ==
  ASSUME NEW i, IsRoot(ask.given[i]), NEW r \in Path, NEW p \in Path, p # <<>>,
         IsPrefix(r, Front(p)), run.walker # "vfs"
  PROVE  NameOf(i, r, p) = Join(NameOf(i, r, Front(p)), Lossy(Last(p)))
<1>1. PICK base \in Seq(Byte) : base = Prefix(ask.given[i])
  BY PrefixIsText
<1>2. PICK f \in Path, n \in Name : f = Front(p) /\ n = Last(p)
  BY FrontAndLast DEF Path
<1>3. p # r /\ IsPrefix(r, p)
  <2>1. Len(f) = Len(p) - 1 /\ IsPrefix(r, f)
    BY <1>2, FrontAndLast DEF Path
  <2>2. Len(r) <= Len(f)
    BY <2>1 DEF IsPrefix
  <2> QED BY <1>2, <2>1, <2>2, PrefixOfFront DEF Path
<1>4. PICK s \in Path : s = Below(r, f)
  BY <1>2, BelowIs DEF Path
<1>5. Below(r, p) = Append(s, n)
  BY <1>2, <1>3, <1>4, BelowIs DEF Path
<1>6. PICK t \in Seq(Byte), l \in Seq(Byte) : t = PathText(s) /\ l = Lossy(n)
  BY TextOfPath, NameIs, LossyIs
<1>7. NameOf(i, r, p) = Join(base, Join(t, l))
  BY <1>1, <1>3, <1>5, <1>6, TextOfPath DEF NameOf
<1>8. CASE f = r
  <2>1. s = <<>>
    BY <1>2, <1>4, <1>8, BelowIs DEF Path
  <2>2. t = <<>>
    BY <1>6, <2>1, TextOfPath
  <2>3. NameOf(i, r, f) = base
    BY <1>1, <1>8 DEF NameOf
  <2> QED BY <1>2, <1>6, <1>7, <2>2, <2>3, JoinIs
<1>9. CASE f # r
  <2>1. s # <<>>
    <3>1. f = r \o s
      <4>1. IsPrefix(r, f)
        BY <1>2
      <4>2. r \in Seq(Name) /\ f \in Seq(Name)
        BY <1>2 DEF Path
      <4>3. f = r \o Below(r, f)
        BY <4>1, <4>2, BelowIs
      <4> QED BY <1>4, <4>3
    <3>2. r \o <<>> = r
      BY DEF Path
    <3> QED BY <1>9, <3>1, <3>2
  <2>2. t # <<>>
    BY <1>6, <2>1, TextOfPath
  <2>3. NameOf(i, r, f) = Join(base, t)
    BY <1>1, <1>4, <1>6, <1>9 DEF NameOf
  <2>4. Join(Join(base, t), l) = Join(base, Join(t, l))
    BY <2>2, JoinJoin
  <2> QED BY <1>2, <1>6, <1>7, <2>3, <2>4
<1> QED BY <1>8, <1>9

-----------------------------------------------------------------------------
(* Where a path leads.                                                       *)

(* Where each beginning of a path leads.                                     *)
Led(tree, places, name) == UNION {Entry(tree, Append(dir, name)) : dir \in places}

Leads(f, tree, path, m) ==
  f = [n \in 0..m |-> IF n = 0 THEN {<<>>} ELSE Led(tree, f[n - 1], path[n])]

(* The function Canonical chooses exists.                                    *)
LEMMA LeadsExists ==
  ASSUME NEW tree, NEW path, NEW m \in Nat
  PROVE  \E f : Leads(f, tree, path, m)
<1> DEFINE B == {k \in Nat : ~\E f : Leads(f, tree, path, k)}
<1> SUFFICES ASSUME B # {} PROVE FALSE
  OBVIOUS
<1>1. PICK k \in B : \A l \in B : k <= l
  <2>1. B \in SUBSET Nat
    OBVIOUS
  <2> QED BY <2>1, Least
<1>2. CASE k = 0
  <2>1. PICK f : f = [n \in 0..0 |-> {<<>>}]
    OBVIOUS
  <2>2. f = [n \in 0..0 |-> IF n = 0 THEN {<<>>} ELSE Led(tree, f[n - 1], path[n])]
    BY <2>1
  <2>3. Leads(f, tree, path, 0)
    BY <2>2 DEF Leads
  <2> QED BY <1>2, <2>3
<1>3. CASE k # 0
  <2>1. k - 1 \in Nat /\ k - 1 \notin B
    BY <1>1, <1>3
  <2>2. PICK f : Leads(f, tree, path, k - 1)
    BY <2>1
  <2>3. \A n \in 0..(k - 1) : f[n] = IF n = 0 THEN {<<>>} ELSE Led(tree, f[n - 1], path[n])
    BY <2>2 DEF Leads
  <2>4. PICK g : g = [n \in 0..k |-> IF n < k THEN f[n] ELSE Led(tree, f[k - 1], path[k])]
    OBVIOUS
  <2>5. \A n \in 0..k : g[n] = IF n = 0 THEN {<<>>} ELSE Led(tree, g[n - 1], path[n])
    <3> SUFFICES ASSUME NEW n \in 0..k
                 PROVE  g[n] = IF n = 0 THEN {<<>>} ELSE Led(tree, g[n - 1], path[n])
      OBVIOUS
    <3>1. CASE n = 0
      BY <1>3, <2>1, <2>3, <2>4, <3>1
    <3>2. CASE n # 0 /\ n < k
      <4>1. n \in 0..(k - 1) /\ n - 1 \in 0..k /\ n - 1 < k
        BY <2>1, <3>2
      <4>2. g[n] = f[n] /\ g[n - 1] = f[n - 1]
        BY <2>4, <3>2, <4>1
      <4> QED BY <2>3, <3>2, <4>1, <4>2
    <3>3. CASE n = k
      <4>1. n - 1 \in 0..k /\ n - 1 < k
        BY <2>1, <3>3
      <4>2. g[k] = Led(tree, f[k - 1], path[k]) /\ g[k - 1] = f[k - 1]
        BY <2>4, <3>3, <4>1
      <4> QED BY <1>3, <3>3, <4>2
    <3> QED BY <3>1, <3>2, <3>3
  <2>6. Leads(g, tree, path, k)
    <3>1. g = [n \in 0..k |-> g[n]]
      BY <2>4
    <3> QED BY <2>5, <3>1 DEF Leads
  <2> QED BY <2>6
<1> QED BY <1>2, <1>3

(* So Canonical is its last value.                                           *)
LEMMA CanonicalLeads ==
  ASSUME NEW path \in Path
  PROVE  \E f : /\ f[0] = {<<>>} /\ Canonical(path) = f[Len(path)]
                /\ \A n \in 1..Len(path) : f[n] = Led(host.tree, f[n - 1], path[n])
<1>1. Len(path) \in Nat
  BY DEF Path
<1>2. PICK f : f = CHOOSE g : Leads(g, host.tree, path, Len(path))
  OBVIOUS
<1>3. Leads(f, host.tree, path, Len(path))
  BY <1>1, <1>2, LeadsExists
<1>4. Canonical(path) = f[Len(path)]
  BY <1>2 DEF Canonical, Leads, Led
<1>5. \A n \in 0..Len(path) : f[n] = IF n = 0 THEN {<<>>} ELSE Led(host.tree, f[n - 1], path[n])
  BY <1>3 DEF Leads
<1> QED BY <1>1, <1>4, <1>5

(* Where a path leads, name by name.                                         *)
LEMMA CanonicalOfPath ==
  ASSUME NEW s \in Path, NEW n \in Name
  PROVE  /\ Canonical(<<>>) = {<<>>}
         /\ Canonical(Append(s, n)) = Led(host.tree, Canonical(s), n)
<1>1. <<>> \in Path /\ Len(<<>>) = 0 /\ Len(s) \in Nat
  BY DEF Path
<1>2. Canonical(<<>>) = {<<>>}
  BY <1>1, CanonicalLeads
<1>3. PICK f : /\ f[0] = {<<>>} /\ Canonical(s) = f[Len(s)]
               /\ \A k \in 1..Len(s) : f[k] = Led(host.tree, f[k - 1], s[k])
  BY CanonicalLeads
<1>7. PICK t : t = Append(s, n)
  OBVIOUS
<1>8. t \in Path /\ Len(t) = Len(s) + 1 /\ t[Len(s) + 1] = n /\ \A k \in 1..Len(s) : t[k] = s[k]
  BY <1>7, AppendProperties DEF Path
<1>9. PICK g : /\ g[0] = {<<>>} /\ Canonical(t) = g[Len(t)]
               /\ \A k \in 1..Len(t) : g[k] = Led(host.tree, g[k - 1], t[k])
  BY <1>8, CanonicalLeads
<1>10. \A k \in 0..Len(s) : g[k] = f[k]
  <2> DEFINE P == {k \in 0..Len(s) : g[k] = f[k]}
  <2>1. 0 \in P
    <3>1. g[0] = f[0] /\ 0 \in 0..Len(s)
      BY <1>1, <1>3, <1>9
    <3> QED BY <3>1
  <2>2. ASSUME NEW k \in 1..Len(s), k - 1 \in P PROVE k \in P
    <3>1. g[k] = Led(host.tree, g[k - 1], t[k]) /\ t[k] = s[k]
      BY <1>1, <1>8, <1>9
    <3> QED BY <1>1, <1>3, <2>2, <3>1
  <2>3. \A k \in 0..Len(s) : k \in P
    <3> HIDE DEF P
    <3> QED BY <1>1, <2>1, <2>2, AllUpTo
  <2> QED BY <2>3
<1>11. Canonical(t) = Led(host.tree, Canonical(s), n)
  <2>1. Len(t) \in 1..Len(t) /\ Len(t) - 1 = Len(s) /\ Len(s) \in 0..Len(s)
    BY <1>1, <1>8
  <2> QED BY <1>3, <1>8, <1>9, <1>10, <2>1
<1> QED BY <1>2, <1>7, <1>11

(* It leads to one place at most, and that is no link.                       *)
Place(tree, p) == p \in Path /\ (p = <<>> \/ (p \in DOMAIN tree /\ tree[p].kind # "link"))

(* A name of a directory leads nowhere or to one place.                      *)
LEMMA EntryIs ==
  ASSUME NEW tree, IsTree(tree), NEW p
  PROVE  Entry(tree, p) = {} \/ \E q : Entry(tree, p) = {q} /\ Place(tree, q)
<1>1. CASE p \notin DOMAIN tree
  BY <1>1 DEF Entry
<1>2. CASE p \in DOMAIN tree /\ tree[p].kind # "link"
  <2>1. p \in Path
    BY <1>2 DEF IsTree
  <2> QED BY <1>2, <2>1 DEF Entry, Place
<1>3. CASE p \in DOMAIN tree /\ tree[p].kind = "link"
  <2>1. PICK q : q = tree[p].to
    OBVIOUS
  <2>2. q = <<>> \/ (q \in DOMAIN tree /\ tree[q].kind # "link")
    BY <1>3, <2>1 DEF IsTree
  <2>3. q \in Path
    <3>1. <<>> \in Path
      BY DEF Path
    <3> QED BY <2>2, <3>1 DEF IsTree
  <2> QED BY <1>3, <2>1, <2>2, <2>3 DEF Entry, Place
<1> QED BY <1>1, <1>2, <1>3

(* A path leads nowhere or to one place, which is no link.                   *)
LEMMA CanonicalIsOne ==
  ASSUME IsTree(host.tree), NEW path \in Path
  PROVE  Canonical(path) = {} \/ \E p : Canonical(path) = {p} /\ Place(host.tree, p)
<1>1. Len(path) \in Nat
  BY DEF Path
<1>2. PICK tree : tree = host.tree
  OBVIOUS
<1>3. PICK f : /\ f[0] = {<<>>} /\ Canonical(path) = f[Len(path)]
               /\ \A n \in 1..Len(path) : f[n] = Led(tree, f[n - 1], path[n])
  BY <1>2, CanonicalLeads
<1> DEFINE One(S) == S = {} \/ \E p : S = {p} /\ Place(tree, p)
           P == {n \in 0..Len(path) : One(f[n])}
<1>4. 0 \in P
  <2>1. Place(tree, <<>>)
    BY DEF Place, Path
  <2> QED BY <1>1, <1>3, <2>1
<1>5. ASSUME NEW n \in 1..Len(path), n - 1 \in P PROVE n \in P
  <2>1. PICK S : S = f[n - 1]
    OBVIOUS
  <2>2. One(S) /\ f[n] = Led(tree, S, path[n])
    BY <1>3, <1>5, <2>1
  <2>3. CASE S = {}
    BY <1>1, <2>2, <2>3 DEF Led
  <2>4. CASE \E p : S = {p}
    <3>1. PICK p : S = {p}
      BY <2>4
    <3>2. f[n] = Entry(tree, Append(p, path[n]))
      BY <2>2, <3>1 DEF Led
    <3>3. One(f[n])
      BY <1>2, <3>2, EntryIs
    <3> QED BY <1>1, <3>3
  <2> QED BY <2>2, <2>3, <2>4
<1>6. \A n \in 0..Len(path) : n \in P
  <2> HIDE DEF P
  <2> QED BY <1>1, <1>4, <1>5, AllUpTo
<1>7. One(f[Len(path)])
  <2>1. Len(path) \in 0..Len(path)
    BY <1>1
  <2> QED BY <1>6, <2>1
<1> QED BY <1>2, <1>3, <1>7

(* Below a place that is no link, what is in the tree is where it says.      *)
LEMMA CanonicalBelow ==
  ASSUME NEW s \in Path, NEW r \in Path, NEW x \in Path
  PROVE  /\ IsTree(host.tree) /\ Canonical(s) = {r}
         /\ x = <<>> \/ (r \o x \in DOMAIN host.tree /\ host.tree[r \o x].kind # "link")
         => Canonical(s \o x) = {r \o x}
<1>0. SUFFICES ASSUME /\ IsTree(host.tree) /\ Canonical(s) = {r}
                      /\ x = <<>> \/ (r \o x \in DOMAIN host.tree /\ host.tree[r \o x].kind # "link")
               PROVE  Canonical(s \o x) = {r \o x}
  OBVIOUS
<1>1. PICK tree : tree = host.tree
  OBVIOUS
<1> DEFINE Real(y) == y = <<>> \/ (r \o y \in DOMAIN tree /\ tree[r \o y].kind # "link")
           Wrong(y) == y \in Path /\ Real(y) /\ Canonical(s \o y) # {r \o y}
           B == {n \in Nat : \E y \in Path : Wrong(y) /\ Len(y) = n}
<1>14. SUFFICES ASSUME B # {} PROVE FALSE
  <2>1. Len(x) \in Nat
    BY DEF Path
  <2> QED BY <1>0, <1>1, <2>1
<1>2. PICK n \in B : \A m \in B : n <= m
  <2>1. B \in SUBSET Nat
    OBVIOUS
  <2> QED BY <1>14, <2>1, Least
<1>3. PICK y \in Path : Wrong(y) /\ Len(y) = n
  OBVIOUS
<1>4. y # <<>>
  <2>1. s \o <<>> = s /\ r \o <<>> = r
    BY DEF Path
  <2> QED BY <1>0, <1>3, <2>1
<1>5. PICK f \in Path, e \in Name : y = Append(f, e) /\ Len(f) = Len(y) - 1
  BY <1>4, FrontAndLast DEF Path
<1>6. PICK sf \in Path, rf \in Path : sf = s \o f /\ rf = r \o f
  <2>1. s \o f \in Path /\ r \o f \in Path
    BY ConcatProperties DEF Path
  <2> QED BY <2>1
<1>7. PICK ry \in Path : ry = Append(rf, e)
  BY <1>6, AppendProperties DEF Path
<1>8. s \o y = Append(sf, e) /\ r \o y = ry /\ IsPrefix(rf, ry) /\ ry # <<>> /\ rf # ry
  <2>1. s \in Seq(Name) /\ r \in Seq(Name) /\ f \in Seq(Name) /\ rf \in Seq(Name)
    BY <1>6 DEF Path
  <2>2. s \o y = Append(sf, e) /\ r \o y = ry /\ IsPrefix(rf, ry)
    <3>0. e \in Name
      BY <1>5
    <3>3. s \o Append(f, e) = Append(s \o f, e)
      BY <2>1, <3>0, ConcatAppend
    <3>4. r \o Append(f, e) = Append(r \o f, e) /\ IsPrefix(r \o f, Append(r \o f, e))
      BY <2>1, <3>0, ConcatAppend
    <3>2. /\ s \o y = Append(sf, e) /\ r \o y = Append(rf, e) /\ IsPrefix(rf, Append(rf, e))
      BY <1>5, <1>6, <3>3, <3>4
    <3> QED BY <1>7, <3>2
  <2>3. ry # <<>> /\ rf # ry
    <3>1. PICK a : a = Append(rf, e)
      OBVIOUS
    <3>2. a # <<>> /\ Len(a) = Len(rf) + 1 /\ Len(rf) \in Nat
      BY <2>1, <3>1
    <3>3. a # rf
      BY <3>2
    <3> QED BY <1>7, <3>1, <3>2, <3>3
  <2> QED BY <2>2, <2>3
<1>9. ry \in DOMAIN tree /\ tree[ry].kind # "link"
  BY <1>3, <1>4, <1>8
<1>10. Real(f)
  <2>1. CASE rf # <<>>
    <3>1. IsTree(tree) /\ ry \in DOMAIN tree
      BY <1>0, <1>1, <1>9
    <3>2. rf \in DOMAIN tree /\ tree[rf].kind = "dir"
      BY <1>6, <1>8, <2>1, <3>1, TreeIsClosed
    <3> QED BY <1>6, <3>2
  <2>2. CASE rf = <<>>
    <3>1. r \in Seq(Name) /\ f \in Seq(Name) /\ r \o f = <<>>
      BY <1>6, <2>2 DEF Path
    <3>2. f = <<>>
      BY <3>1, EmptyConcat
    <3> QED BY <3>2
  <2> QED BY <2>1, <2>2
<1>11. Canonical(sf) = {rf}
  <2>0. Len(f) \in Nat /\ n \in Nat /\ Len(y) = n
    BY <1>2, <1>3 DEF Path
  <2>1. Len(f) \in Nat /\ Len(f) < n
    BY <1>5, <2>0
  <2>2. Len(f) \notin B
    <3>0. \A m \in B : n <= m
      BY <1>2
    <3> HIDE DEF B
    <3> QED BY <2>0, <2>1, <3>0
  <2>3. ~Wrong(f)
    BY <2>1, <2>2
  <2>4. Canonical(s \o f) = {r \o f}
    BY <1>10, <2>3
  <2> QED BY <1>6, <2>4
<1>12. Canonical(Append(sf, e)) = Entry(tree, ry)
  <2>1. Canonical(Append(sf, e)) = Led(tree, {rf}, e)
    BY <1>1, <1>11, CanonicalOfPath
  <2>2. Led(tree, {rf}, e) = Entry(tree, Append(rf, e))
    BY DEF Led
  <2> QED BY <1>7, <2>1, <2>2
<1>13. Entry(tree, ry) = {ry}
  BY <1>9 DEF Entry
<1> QED BY <1>3, <1>8, <1>12, <1>13

-----------------------------------------------------------------------------
(* The steps of a walk.                                                      *)

(* Where the program runs and what it was asked for.                         *)
Same == host' = host /\ volume' = volume /\ ask' = ask /\ run' = run /\ roots' = roots

(* Under the same arguments an item has the same name.                       *)
LEMMA NamesStay ==
  ASSUME Same
  PROVE  /\ \A i, r, p : NameOf(i, r, p)' = NameOf(i, r, p)
         /\ \A n : IsExcluded(n)' = IsExcluded(n)
<1>1. ASSUME NEW i, NEW r, NEW p PROVE NameOf(i, r, p)' = NameOf(i, r, p)
  BY DEF Same, NameOf, Prefix
<1>2. ASSUME NEW n PROVE IsExcluded(n)' = IsExcluded(n)
  BY DEF Same, IsExcluded
<1> QED BY <1>1, <1>2

(* On the same host and volume a root is at the same place.                  *)
LEMMA PlacesStay ==
  ASSUME Same
  PROVE  /\ TreeWalked' = TreeWalked /\ Raw' = Raw /\ Archived' = Archived
         /\ \A i : RootAt(i)' = RootAt(i)
<1>1. TreeWalked' = TreeWalked /\ Raw' = Raw /\ Archived' = Archived
  BY DEF Same, TreeWalked, Raw, Archived
<1>2. ASSUME NEW i PROVE RootAt(i)' = RootAt(i)
  BY DEF Same, RootAt, RootOnVolume, Canonical, TreeWalked, Raw
<1> QED BY <1>1, <1>2

(* And the same is asked for.                                                *)
LEMMA AskedStays ==
  ASSUME Same
  PROVE  \A i, r : AskedFor(i, r)' = AskedFor(i, r)
<1> SUFFICES ASSUME NEW i, NEW r PROVE AskedFor(i, r)' = AskedFor(i, r)
  OBVIOUS
<1>1. TreeWalked' = TreeWalked /\ Archived' = Archived /\ run' = run
  BY PlacesStay DEF Same
<1> QED BY <1>1, NamesStay DEF AskedFor, AskedUnder

(* A walk leaves the startup alone, ...                                      *)
LEMMA WalkIsStartup ==
  /\ WalkInit => IInv
  /\ IInv /\ [WalkNext]_walkVars => IInv'
<1>1. WalkInit => IInv
  BY InitIInv DEF WalkInit
<1>2. [WalkNext]_walkVars => [Next]_vars
  <2> SUFFICES ASSUME [WalkNext]_walkVars, vars' # vars PROVE Next
    OBVIOUS
  <2>1. CASE StartWalk
    BY <2>1 DEF StartWalk
  <2>2. ASSUME NEW i \in DOMAIN pending,
               \/ RootIsMissing(i) \/ EnterFile(i) \/ EnterDir(i) \/ EnterOther(i) \/ EnterRaw(i)
               \/ EnterRawUnread(i) \/ ListDir(i) \/ ListFails(i)
        PROVE  vars' = vars
    <3>1. CASE RootIsMissing(i) \/ ListFails(i)
      BY <3>1 DEF RootIsMissing, ListFails, Fail
    <3>2. CASE EnterFile(i) \/ EnterDir(i)
      BY <3>2 DEF EnterFile, EnterDir, Enter
    <3>3. CASE EnterOther(i)
      BY <3>3 DEF EnterOther, Enter, Fail
    <3>4. CASE EnterRaw(i) \/ EnterRawUnread(i)
      BY <3>4 DEF EnterRaw, EnterRawUnread, AsFile, Enter
    <3>5. CASE ListDir(i)
      BY <3>5 DEF ListDir, ListVfs, VfsUnread, ListBulk, ListRaw, List
    <3> QED BY <2>2, <3>1, <3>2, <3>3, <3>4, <3>5
  <2>3. CASE EndWalk
    BY <2>3 DEF EndWalk
  <2>4. CASE UNCHANGED walkVars
    BY <2>4 DEF walkVars
  <2> QED BY <2>1, <2>2, <2>3, <2>4 DEF WalkNext
<1> QED BY <1>1, <1>2, StartupStep

(* ... which is over when it begins.                                         *)
LEMMA NothingElse ==
  ASSUME stage = "running", Next
  PROVE  vars' = vars
BY DEF Next, IntoOptions, ArgsFail, TuneDevice, TuneLinux, TuneMac, TuneOther, WriteSolid, OpenDevice,
       OpenDeviceFails, OpenMount, NoRawSource, ChooseWalker, WalkFails, CreateFails, ChooseReader, Over

(* The walk begins with no more roots than the bound.                        *)
LEMMA RootsAreFew ==
  ASSUME roots \in SeqOf(Media(build.os), MaxRoots)
  PROVE  Len(roots) <= MaxRoots
<1>1. PICK m \in 0..MaxRoots : roots \in [1..m -> Media(build.os)]
  BY DEF SeqOf
<1> QED BY <1>1, StartupAssumption

(* No step takes the roots past the bound.                                   *)
LEMMA RootsStayFew ==
  ASSUME IInv, Len(roots) <= MaxRoots, Next
  PROVE  Len(roots') <= MaxRoots
<1>1. CASE IntoOptions
  <2>1. roots' = <<HostRoot(build.os)>> \/ roots' = roots
    BY <1>1 DEF IntoOptions
  <2>2. 1 <= MaxRoots /\ Len(<<HostRoot(build.os)>>) = 1
    BY WalkAssumption, StartupAssumption
  <2> QED BY <2>1, <2>2
<1>2. CASE ~IntoOptions
  <2>1. roots' = roots
    BY <1>2 DEF Next, ArgsFail, TuneDevice, TuneLinux, TuneMac, TuneOther, WriteSolid, OpenDevice,
       OpenDeviceFails, OpenMount, NoRawSource, ChooseWalker, WalkFails, CreateFails, ChooseReader, Over, vars
  <2> QED BY <2>1
<1> QED BY <1>1, <1>2

(* What a step of the walk under way leaves as it was.                       *)
LEMMA WalkStays ==
  ASSUME Setting, listing # "none", [WalkNext]_walkVars
  PROVE  Same /\ vars' = vars
<1>1. CASE StartWalk
  BY <1>1 DEF StartWalk
<1>2. ASSUME NEW i \in DOMAIN pending,
             \/ RootIsMissing(i) \/ EnterFile(i) \/ EnterDir(i) \/ EnterOther(i) \/ EnterRaw(i)
             \/ EnterRawUnread(i) \/ ListDir(i) \/ ListFails(i)
      PROVE  UNCHANGED <<vars, host, volume, ask>>
  <2>1. CASE RootIsMissing(i) \/ ListFails(i)
    BY <2>1 DEF RootIsMissing, ListFails, Fail
  <2>2. CASE EnterFile(i) \/ EnterDir(i)
    BY <2>2 DEF EnterFile, EnterDir, Enter
  <2>3. CASE EnterOther(i)
    BY <2>3 DEF EnterOther, Enter, Fail
  <2>4. CASE EnterRaw(i) \/ EnterRawUnread(i)
    BY <2>4 DEF EnterRaw, EnterRawUnread, AsFile, Enter
  <2>5. CASE ListDir(i)
    BY <2>5 DEF ListDir, ListVfs, VfsUnread, ListBulk, ListRaw, List
  <2> QED BY <1>2, <2>1, <2>2, <2>3, <2>4, <2>5
<1>3. CASE EndWalk
  BY <1>3 DEF EndWalk, Same, vars
<1>4. CASE Next /\ UNCHANGED walk
  <2>1. vars' = vars
    BY <1>4, NothingElse DEF Setting
  <2> QED BY <1>4, <2>1 DEF walk, Same, vars
<1>5. CASE UNCHANGED walkVars
  BY <1>5 DEF walkVars, walk, Same, vars
<1>6. UNCHANGED <<vars, host, volume, ask>> => Same /\ vars' = vars
  BY DEF Same, vars
<1> QED BY <1>1, <1>2, <1>3, <1>4, <1>5, <1>6 DEF WalkNext

(* What is kept of a root is kept by a step that changes nothing of it.      *)
LEMMA KeptStays ==
  ASSUME Same
  PROVE  \A i, dirs, sent, lost : pending'[i] = dirs /\ items' = sent /\ Lost(i)' = lost =>
           (Kept(i, pending[i], items, Lost(i))' <=> Kept(i, dirs, sent, lost))
<1> SUFFICES ASSUME NEW i, NEW dirs, NEW sent, NEW lost,
                    pending'[i] = dirs, items' = sent, Lost(i)' = lost
             PROVE  Kept(i, pending[i], items, Lost(i))' <=> Kept(i, dirs, sent, lost)
  OBVIOUS
<1>1. RootAt(i)' = RootAt(i) /\ Raw' = Raw /\ TreeWalked' = TreeWalked
  BY PlacesStay
<1>2. ASSUME NEW r PROVE Named(i, r, pending[i])' <=> Named(i, r, dirs)
  BY NamesStay DEF Same, Named
<1>3. ASSUME NEW r PROVE Waiting(TreeWalked, r, pending[i])' <=> Waiting(TreeWalked, r, dirs)
  BY <1>1
<1>4. ASSUME NEW r, NEW asked
      PROVE  Fits(i, r, pending[i], Lost(i), asked)' <=> Fits(i, r, dirs, lost, asked)
  <2>1. AskedFor(i, r)' = AskedFor(i, r)
    BY AskedStays
  <2>2. RootEntry(i, r)' = RootEntry(i, r)
    BY NamesStay DEF RootEntry
  <2> QED BY <1>1, <2>1, <2>2 DEF Fits
<1>5. ASSUME NEW asked PROVE Sent(i, asked, pending[i], items)' <=> Sent(i, asked, dirs, sent)
  OBVIOUS
<1> QED BY <1>1, <1>2, <1>3, <1>4, <1>5 DEF Kept

(* What a step passes over is lost of the root it is under, and of no other. *)
LEMMA LostAfter ==
  ASSUME NEW i, NEW lost, unread' = unread \cup {[root |-> i, path |-> p] : p \in lost}
  PROVE  Lost(i)' = Lost(i) \cup lost /\ \A j : j # i => Lost(j)' = Lost(j)
<1>1. PICK new : new = unread'
  OBVIOUS
<1>2. \A u : u \in new <=> u \in unread \/ \E p \in lost : u = [root |-> i, path |-> p]
  BY <1>1
<1>3. {u.path : u \in {v \in new : v.root = i}} = {u.path : u \in {v \in unread : v.root = i}} \cup lost
  <2> DEFINE Paths(s) == {u.path : u \in {v \in s : v.root = i}}
  <2>1. ASSUME NEW p \in lost PROVE p \in Paths(new)
    <3>1. PICK u : u = [root |-> i, path |-> p]
      OBVIOUS
    <3>2. u \in new /\ u.root = i /\ u.path = p
      BY <1>2, <3>1
    <3> QED BY <3>2
  <2>2. Paths(unread) \subseteq Paths(new)
    BY <1>2
  <2>3. ASSUME NEW p \in Paths(new) PROVE p \in Paths(unread) \cup lost
    <3>1. PICK u \in new : u.root = i /\ p = u.path
      OBVIOUS
    <3> QED BY <1>2, <3>1
  <2> QED BY <2>1, <2>2, <2>3
<1>4. ASSUME NEW j, j # i
      PROVE  {u.path : u \in {v \in new : v.root = j}} = {u.path : u \in {v \in unread : v.root = j}}
  BY <1>2, <1>4
<1> QED BY <1>1, <1>3, <1>4 DEF Lost

(* A step that passes over nothing loses nothing.                            *)
LEMMA LostStays == ASSUME unread' = unread PROVE \A i : Lost(i)' = Lost(i)
  BY DEF Lost

(* What was passed over for a reason was, after the next step too.           *)
LEMMA ExcusedStays ==
  ASSUME Same, NEW u, Excused(u), entered \subseteq entered'
  PROVE  Excused(u)'
<1>1. RootAt(u.root)' = RootAt(u.root) /\ Raw' = Raw /\ run' = run
  BY PlacesStay DEF Same
<1> QED BY <1>1 DEF Excused

(* Where a root is, if anywhere.                                             *)
LEMMA TreeIsThere ==
  ASSUME Setting, listing # "none"
  PROVE  IsTree(TreeWalked) /\ DOMAIN TreeWalked \subseteq Path /\ <<>> \notin DOMAIN TreeWalked
<1>1. IsTree(TreeWalked)
  BY DEF Setting, TreeWalked
<1> QED BY <1>1 DEF IsTree

(* A root is at one place at most: the raw walker's, which may be no entry   *)
(* of the volume, or what the path leads to.                                 *)
LEMMA RootIs ==
  ASSUME Setting, listing # "none", NEW i \in DOMAIN roots
  PROVE  /\ \A r \in RootAt(i) : /\ r \in Path /\ (r = <<>> \/ r \in DOMAIN TreeWalked)
                                 /\ RootAt(i) = {r}
         /\ ~Raw => /\ RootAt(i) = Canonical(ask.given[i].path)
                    /\ \A r \in RootAt(i) : r = <<>> \/ host.tree[r].kind # "link"
         /\ Raw => \E r : /\ RootOnVolume(ask.given[i]) = {r}
                          /\ RootAt(i) = IF r = <<>> \/ r \in DOMAIN volume THEN {r} ELSE {}
<1>1. IsTree(host.tree) /\ ask.given[i].path \in Path
  BY DEF Setting, IsRoot
<1>2. PICK C : C = Canonical(ask.given[i].path)
  OBVIOUS
<1>3. C = {} \/ \E p : C = {p} /\ Place(host.tree, p)
  BY <1>1, <1>2, CanonicalIsOne
<1>4. <<>> \in Path
  BY DEF Path
<1>5. CASE ~Raw
  <2>1. RootAt(i) = {p \in C : p = <<>> \/ p \in DOMAIN host.tree}
    BY <1>2, <1>5 DEF RootAt, TreeWalked
  <2>2. TreeWalked = host.tree
    BY <1>5 DEF TreeWalked
  <2> QED BY <1>2, <1>3, <1>5, <2>1, <2>2 DEF Place
<1>6. CASE Raw
  <2>1. PICK R : R = RootOnVolume(ask.given[i])
    OBVIOUS
  <2>2. RootAt(i) = {p \in R : p = <<>> \/ p \in DOMAIN volume} /\ TreeWalked = volume
    BY <1>6, <2>1 DEF RootAt, TreeWalked
  <2>3. PICK r : R = {r}
    <3>1. PICK p : (IF C = {} THEN {Spelled(ask.given[i].text)} ELSE C) = {p}
      BY <1>3
    <3>2. R = {[k \in DOMAIN p |-> Lossy(p[k])]}
      BY <1>2, <2>1, <3>1 DEF RootOnVolume
    <3> QED BY <3>2
  <2> QED BY <1>4, <1>6, <2>1, <2>2, <2>3, TreeIsThere
<1> QED BY <1>5, <1>6

(* What is asked for under a root is there and no directory.                 *)
LEMMA AskedIs ==
  ASSUME Setting, listing # "none", NEW i, NEW r
  PROVE  /\ AskedIn(TreeWalked, r, AskedFor(i, r))
         /\ \A e \in AskedFor(i, r) : e.root = i /\ e.name = NameOf(i, r, e.path)
<1>1. ASSUME NEW e \in AskedFor(i, r)
      PROVE  /\ e.path \in DOMAIN TreeWalked /\ TreeWalked[e.path].kind # "dir" /\ IsPrefix(r, e.path)
             /\ e.root = i /\ e.name = NameOf(i, r, e.path)
  <2>1. PICK q \in DOMAIN TreeWalked :
          /\ e = [root |-> i, path |-> q, name |-> NameOf(i, r, q)]
          /\ IsPrefix(r, q) /\ KindIn(TreeWalked, q) \in Archived
    BY DEF AskedFor, AskedUnder
  <2>2. KindIn(TreeWalked, q) = TreeWalked[q].kind
    BY <2>1, TreeIsThere DEF KindIn
  <2> QED BY <2>1, <2>2 DEF Archived
<1> QED BY <1>1 DEF AskedIn

(* A root that is no directory is all there is under it.                     *)
LEMMA AskedAlone ==
  ASSUME Setting, listing # "none", NEW i, NEW r \in DOMAIN TreeWalked,
         TreeWalked[r].kind # "dir"
  PROVE  AskedFor(i, r) =
           IF TreeWalked[r].kind \in Archived /\ ~IsExcluded(Prefix(ask.given[i]))
           THEN {[root |-> i, path |-> r, name |-> Prefix(ask.given[i])]} ELSE {}
<1>1. IsTree(TreeWalked) /\ r \in Path /\ r # <<>>
  BY TreeIsThere
<1>2. \A q \in DOMAIN TreeWalked : IsPrefix(r, q) <=> q = r
  <2> SUFFICES ASSUME NEW q \in DOMAIN TreeWalked PROVE IsPrefix(r, q) <=> q = r
    OBVIOUS
  <2>1. IsPrefix(r, r)
    BY <1>1, PrefixOrder DEF Path
  <2>2. IsPrefix(r, q) => q = r
    BY <1>1, TreeIsClosed
  <2> QED BY <2>1, <2>2
<1>3. NameOf(i, r, r) = Prefix(ask.given[i])
  BY DEF NameOf
<1>4. KindIn(TreeWalked, r) = TreeWalked[r].kind
  BY <1>1 DEF KindIn
<1>5. \A e : e \in {q \in DOMAIN TreeWalked :
              /\ IsPrefix(r, q) /\ KindIn(TreeWalked, q) \in Archived
              /\ ~IsExcluded(NameOf(i, r, q))
              /\ run.walker = "vfs" \/ q = r \/ ~IsExcluded(Lossy(Last(q)))}
          <=> e = r /\ TreeWalked[r].kind \in Archived /\ ~IsExcluded(Prefix(ask.given[i]))
  BY <1>2, <1>3, <1>4
<1> QED BY <1>3, <1>5 DEF AskedFor, AskedUnder

(* What has yet to be looked into is all asked for, or nothing is.           *)
LEMMA SentNothing ==
  ASSUME Setting, listing # "none", NEW i, NEW r \in Path, NEW d, d.path = r
  PROVE  /\ Sent(i, AskedFor(i, r), {d}, <<>>)
         /\ AskedFor(i, r) = {} => Sent(i, AskedFor(i, r), {}, <<>>)
<1>1. \A e \in AskedFor(i, r) : IsPrefix(r, e.path)
  BY AskedIs DEF AskedIn
<1> QED BY <1>1 DEF Sent, Above

(* The first moment of the format is a date and a time.                      *)
LEMMA EpochIs == Epoch \in [date : Int, time : Int]
BY DEF Epoch

(* The year of an era is a number.                                           *)
LEMMA YearOfEraIs == ASSUME NEW doe \in Int PROVE YearOfEra(doe) \in Int
  BY DEF YearOfEra

(* Year, month and day are numbers.                                          *)
LEMMA CivilIs ==
  ASSUME NEW days \in Int
  PROVE  CivilFromDays(days).y \in Int /\ CivilFromDays(days).m \in Int /\ CivilFromDays(days).d \in Int
<1> DEFINE z == days + 719468
           era == z \div 146097
           doe == z - era * 146097
           yoe == YearOfEra(doe)
           doy == doe - (365 * yoe + yoe \div 4 - yoe \div 100)
           mp == (5 * doy + 2) \div 153
           m == IF mp < 10 THEN mp + 3 ELSE mp - 9
           y == yoe + era * 400 + IF m <= 2 THEN 1 ELSE 0
           d == doy - (153 * mp + 2) \div 5 + 1
<1>1. z \in Int
  OBVIOUS
<1>2. era \in Int
  BY <1>1, SMT
<1>3. doe \in Int
  BY <1>1, <1>2, SMT
<1>4. yoe \in Int
  BY <1>3, YearOfEraIs
<1>5. doy \in Int
  <2> HIDE DEF yoe, doe
  <2> QED BY <1>3, <1>4
<1>6. mp \in Int
  <2> HIDE DEF doy
  <2> QED BY <1>5
<1>7. m \in Int
  <2> HIDE DEF mp
  <2> QED BY <1>6
<1>8. y \in Int
  <2> HIDE DEF m, yoe, era
  <2> QED BY <1>2, <1>4, <1>7
<1>9. d \in Int
  <2> HIDE DEF mp, doy
  <2> QED BY <1>5, <1>6
<1>10. CivilFromDays(days) = [y |-> y, m |-> m, d |-> d]
  BY DEF CivilFromDays
<1> HIDE DEF y, m, d
<1> QED BY <1>7, <1>8, <1>9, <1>10

(* dos_time makes a date and a time.                                         *)
LEMMA DosTimeIs ==
  ASSUME NEW t, t.day \in Int, t.sec \in Nat
  PROVE  DosTime(t) \in [date : Int, time : Int]
<1>1. PICK at : at = IF t.day < 0 THEN [day |-> 0, sec |-> 0] ELSE t
  OBVIOUS
<1>2. PICK days \in Int, sec \in Int : days = at.day /\ sec = at.sec
  BY <1>1
<1>3. PICK y \in Int, m \in Int, d \in Int :
        y = CivilFromDays(days).y /\ m = CivilFromDays(days).m /\ d = CivilFromDays(days).d
  BY CivilIs
<1>4. DosTime(t) = Epoch \/
      DosTime(t) = [date |-> ((y - 1980) * 512 + m * 32 + d) % 65536,
            time |-> (sec \div 3600) * 2048 + ((sec \div 60) % 60) * 32
                       + (sec % 60) \div 2]
  BY <1>1, <1>2, <1>3 DEF DosTime
<1>5. ((y - 1980) * 512 + m * 32 + d) % 65536 \in Int
  BY SMT
<1>6. (sec \div 3600) * 2048 + ((sec \div 60) % 60) * 32 + (sec % 60) \div 2 \in Int
  BY SMT
<1> QED BY <1>4, <1>5, <1>6, EpochIs

(* What is found under one root makes no difference to what is kept of       *)
(* another, ...                                                              *)
LEMMA KeptMore ==
  ASSUME NEW T, NEW sent \in Seq(T), NEW found \in Seq(T), NEW i, NEW dirs, NEW lost,
         Kept(i, dirs, sent, lost), \A l \in DOMAIN found : found[l].root # i
  PROVE  Kept(i, dirs, sent \o found, lost)
<1>1. PICK new : new = sent \o found
  OBVIOUS
<1>2. \A k \in DOMAIN new : \/ k \in DOMAIN sent /\ new[k] = sent[k]
                            \/ \E l \in DOMAIN found : new[k] = found[l]
  BY <1>1, ConcatHas
<1>3. RootAt(i) = {} => \A k \in DOMAIN new : new[k].root # i
  BY <1>2 DEF Kept
<1>4. \A asked : Sent(i, asked, dirs, sent) => Sent(i, asked, dirs, new)
  BY <1>1, SentOther
<1> QED BY <1>1, <1>3, <1>4 DEF Kept

(* ... and the first that is found under a root is all that is kept of it.   *)
LEMMA KeptFirst ==
  ASSUME NEW T, NEW sent \in Seq(T), NEW found \in Seq(T), NEW i, NEW dirs, NEW lost,
         Kept(i, dirs, found, lost), \A k \in DOMAIN sent : sent[k].root # i
  PROVE  Kept(i, dirs, sent \o found, lost)
<1>1. PICK new : new = sent \o found
  OBVIOUS
<1>2. \A k \in DOMAIN new : \/ k \in DOMAIN sent /\ new[k] = sent[k]
                            \/ \E l \in DOMAIN found : new[k] = found[l]
  BY <1>1, ConcatHas
<1>3. RootAt(i) = {} => \A k \in DOMAIN new : new[k].root # i
  BY <1>2 DEF Kept
<1>4. \A asked : Sent(i, asked, dirs, found) => Sent(i, asked, dirs, new)
  BY <1>1, SentFirst
<1> QED BY <1>1, <1>3, <1>4 DEF Kept

(* A root that is come to.                                                   *)
LEMMA EnterKeeps ==
  ASSUME IInv, WInv, [WalkNext]_walkVars, NEW i \in DOMAIN roots, NEW dirs, NEW found \in Seq(WorkItem),
         Enter(i, dirs, found),
         NEW lost, lost = {} \/ (Raw /\ lost = RootAt(i)),
         unread' = unread \cup {[root |-> i, path |-> p] : p \in lost},
         Kept(i, dirs, found, lost), Once(found),
         \A k \in DOMAIN found : found[k].root = i,
         \A k \in DOMAIN found : \/ found[k].mtime = DosTime(host.time)
                                 \/ found[k].mtime = Epoch /\ run.walker # "vfs"
  PROVE  WInv'
<1>1. /\ listing = "walking" /\ i \notin entered /\ entered' = entered \cup {i}
      /\ pending' = [pending EXCEPT ![i] = dirs] /\ items' = items \o found /\ listing' = listing
  BY DEF Enter, Walking, InTurn
<1>2. Setting /\ Same /\ vars' = vars
  BY <1>1, WalkStays DEF WInv
<1>3. DOMAIN pending = DOMAIN roots
  BY <1>1, <1>2 DEF Setting
<1>4. Setting'
  <2>1. DOMAIN pending' = DOMAIN roots /\ entered' \subseteq DOMAIN roots
    BY <1>1, <1>2, <1>3 DEF Setting
  <2> QED BY <1>1, <1>2, <2>1 DEF Setting, Same, vars
<1>5. items \in Seq(WorkItem)
  BY DEF WInv, Timed
<1>6. PICK new : new = items \o found
  OBVIOUS
<1>7. /\ new \in Seq(WorkItem)
      /\ \A k \in DOMAIN new : \/ k \in DOMAIN items /\ new[k] = items[k]
                               \/ \E l \in DOMAIN found : new[k] = found[l]
  BY <1>5, <1>6, ConcatHas
<1>8. Timed'
  <2>1. DosTime(host.time)' = DosTime(host.time) /\ run' = run
    BY <1>2 DEF Same
  <2>2. \A k \in DOMAIN new :
          new[k].mtime = DosTime(host.time) \/ (new[k].mtime = Epoch /\ run.walker # "vfs")
    BY <1>7 DEF WInv, Timed
  <2> QED BY <1>1, <1>6, <1>7, <2>1, <2>2 DEF Timed
<1>9. Progress'
  <2>1. \A k \in DOMAIN items : items[k].root # i
    BY <1>1 DEF WInv, Progress
  <2>2. Once(new)
    BY <1>1, <1>5, <1>6, <2>1, OnceBoth DEF WInv, Progress
  <2>3. Lost(i)' = lost /\ \A j \in entered : Lost(j)' = Lost(j)
    <3>1. \A u \in unread : u.root # i
      BY <1>1 DEF WInv, Progress, Excused
    <3>2. Lost(i) = {}
      BY <3>1 DEF Lost
    <3>3. Lost(i)' = Lost(i) \cup lost /\ \A j : j # i => Lost(j)' = Lost(j)
      BY LostAfter
    <3> QED BY <1>1, <3>2, <3>3
  <2>4. Kept(i, dirs, new, lost)
    BY <1>5, <1>6, <2>1, KeptFirst
  <2>5. ASSUME NEW j \in entered PROVE Kept(j, pending[j], new, Lost(j))
    <3>1. Kept(j, pending[j], items, Lost(j)) /\ j # i
      BY <1>1 DEF WInv, Progress
    <3>2. \A l \in DOMAIN found : found[l].root # j
      BY <3>1
    <3> QED BY <1>5, <1>6, <3>1, <3>2, KeptMore
  <2>6. \A j \in entered' : Kept(j, pending[j], items, Lost(j))'
    <3>1. entered \subseteq DOMAIN pending
      BY <1>1, <1>2, <1>3 DEF Setting
    <3>2. \A j \in entered' : Kept(j, pending'[j], new, Lost(j)')
      BY <1>1, <1>3, <2>3, <2>4, <2>5, <3>1
    <3> QED BY <1>1, <1>2, <1>6, <3>2, KeptStays
  <2>7. \A k \in DOMAIN new : new[k].root \in entered'
    BY <1>1, <1>7 DEF WInv, Progress
  <2>8. \A j \in DOMAIN roots' \ entered' : pending'[j] = {}
    BY <1>1, <1>2, <1>3 DEF WInv, Progress, Same
  <2>9. \A u \in unread' : Excused(u)'
    <3>1. RootAt(i)' = RootAt(i) /\ Raw' = Raw /\ run' = run
      BY <1>2, PlacesStay DEF Same
    <3>2. ASSUME NEW p \in lost PROVE Excused([root |-> i, path |-> p])'
      BY <1>1, <3>1, <3>2 DEF Excused
    <3>3. ASSUME NEW u \in unread PROVE Excused(u)'
      <4>1. Excused(u) /\ entered \subseteq entered'
        BY <1>1 DEF WInv, Progress
      <4> QED BY <1>2, <4>1, ExcusedStays
    <3> QED BY <3>2, <3>3
  <2> QED BY <1>1, <1>6, <2>2, <2>6, <2>7, <2>8, <2>9 DEF Progress
<1>10. AllSent'
  BY <1>1 DEF AllSent
<1> QED BY <1>4, <1>8, <1>9, <1>10 DEF WInv

(* One that could be read.                                                   *)
LEMMA EnterReadKeeps ==
  ASSUME IInv, WInv, [WalkNext]_walkVars, NEW i \in DOMAIN roots, NEW dirs, NEW found \in Seq(WorkItem),
         Enter(i, dirs, found), unread' = unread,
         Kept(i, dirs, found, {}), Once(found),
         \A k \in DOMAIN found : found[k].root = i,
         \A k \in DOMAIN found : \/ found[k].mtime = DosTime(host.time)
                                 \/ found[k].mtime = Epoch /\ run.walker # "vfs"
  PROVE  WInv'
<1>1. unread' = unread \cup {[root |-> i, path |-> p] : p \in {}}
  OBVIOUS
<1>2. PICK lost : lost = {}
  OBVIOUS
<1>3. /\ lost = {} \/ (Raw /\ lost = RootAt(i))
      /\ unread' = unread \cup {[root |-> i, path |-> p] : p \in lost}
      /\ Kept(i, dirs, found, lost)
  BY <1>1, <1>2
<1> QED BY <1>3, EnterKeeps

(* A root that is a directory waits to be listed.                            *)
LEMMA DirKept ==
  ASSUME Setting, listing # "none", NEW i \in DOMAIN roots, NEW r, RootAt(i) = {r}, r \in Path,
         KindIn(TreeWalked, r) = "dir"
  PROVE  Kept(i, {[path |-> r, prefix |-> Prefix(ask.given[i])]}, <<>>, {})
<1>1. PICK d : d = [path |-> r, prefix |-> Prefix(ask.given[i])]
  OBVIOUS
<1>2. d.path = r /\ d.prefix = NameOf(i, r, r)
  BY <1>1 DEF NameOf
<1>3. r = <<>> \/ r \in DOMAIN TreeWalked
  BY RootIs
<1>4. IsDir(TreeWalked, r) /\ IsPrefix(r, r)
  BY <1>3, PrefixOrder DEF IsDir, KindIn, Path
<1>5. Waiting(TreeWalked, r, {d})
  BY <1>2, <1>4 DEF Waiting
<1>6. Named(i, r, {d})
  BY <1>2 DEF Named
<1>7. Sent(i, AskedFor(i, r), {d}, <<>>) /\ Fits(i, r, {d}, {}, AskedFor(i, r))
  BY <1>2, SentNothing DEF Fits
<1> QED BY <1>1, <1>5, <1>6, <1>7 DEF Kept

(* One that is none is archived, unless it is excluded or no file.           *)
LEMMA FileKept ==
  ASSUME Setting, listing # "none", NEW i \in DOMAIN roots, NEW r \in DOMAIN TreeWalked, RootAt(i) = {r},
         TreeWalked[r].kind # "dir", NEW found,
         IF TreeWalked[r].kind \in Archived /\ ~IsExcluded(Prefix(ask.given[i]))
         THEN \E mtime : found = <<Item(i, r, Prefix(ask.given[i]), mtime)>>
         ELSE found = <<>>
  PROVE  Kept(i, {}, found, {}) /\ Once(found) /\ \A k \in DOMAIN found : found[k].root = i
<1>1. PICK name : name = Prefix(ask.given[i])
  OBVIOUS
<1>2. /\ Waiting(TreeWalked, r, {}) /\ Named(i, r, {}) /\ r \in Path
      /\ Fits(i, r, {}, {}, AskedFor(i, r))
  BY TreeIsThere DEF Waiting, Named, Fits
<1>3. AskedFor(i, r) = IF TreeWalked[r].kind \in Archived /\ ~IsExcluded(name)
                         THEN {[root |-> i, path |-> r, name |-> name]} ELSE {}
  BY <1>1, AskedAlone
<1>4. CASE TreeWalked[r].kind \in Archived /\ ~IsExcluded(name)
  <2>1. PICK mtime : found = <<Item(i, r, name, mtime)>>
    BY <1>1, <1>4
  <2>2. PICK x : x = Item(i, r, name, mtime)
    OBVIOUS
  <2>3. found = <<x>> /\ x.root = i /\ x.path = r
        /\ EntryOf(x) = [root |-> i, path |-> r, name |-> name]
    BY <2>1, <2>2 DEF Item, EntryOf
  <2>4. Sent(i, AskedFor(i, r), {}, found)
    <3>1. AskedFor(i, r) = {EntryOf(x)}
      BY <1>3, <1>4, <2>3
    <3>2. DOMAIN found = {1} /\ found[1] = x
      BY <2>3
    <3> QED BY <3>1, <3>2 DEF Sent, Above
  <2>5. Once(found) /\ \A k \in DOMAIN found : found[k].root = i
    BY <2>3 DEF Once
  <2> QED BY <1>2, <2>4, <2>5 DEF Kept
<1>5. CASE ~(TreeWalked[r].kind \in Archived /\ ~IsExcluded(name))
  <2>1. found = <<>> /\ AskedFor(i, r) = {}
    BY <1>1, <1>3, <1>5
  <2>2. Sent(i, AskedFor(i, r), {}, found)
    BY <2>1 DEF Sent
  <2>3. Once(found) /\ \A k \in DOMAIN found : found[k].root = i
    BY <2>1 DEF Once
  <2> QED BY <1>2, <2>2, <2>3 DEF Kept
<1> QED BY <1>4, <1>5

(* A raw root that could not be read: what is asked for is lost, and the root*)
(* may be archived for a file.                                               *)
LEMMA RootLost ==
  ASSUME Setting, listing # "none", Raw, NEW i \in DOMAIN roots, NEW r \in Path, RootAt(i) = {r},
         NEW found, DOMAIN found \subseteq {1},
         \A k \in DOMAIN found : found[k].root = i /\ EntryOf(found[k]) = RootEntry(i, r)
  PROVE  Kept(i, {}, found, {r}) /\ Once(found)
<1>1. Waiting(TreeWalked, r, {}) /\ Named(i, r, {})
  BY DEF Waiting, Named
<1>2. \A e \in AskedFor(i, r) : ~Above({}, e.path) /\ IsPrefix(r, e.path)
  BY AskedIs DEF AskedIn, Above
<1>3. PICK asked : asked = {EntryOf(found[k]) : k \in DOMAIN found}
  OBVIOUS
<1>4. Fits(i, r, {}, {r}, asked)
  BY <1>2, <1>3 DEF Fits
<1>5. Sent(i, asked, {}, found)
  BY <1>3 DEF Sent, Above
<1>6. Once(found)
  BY DEF Once
<1> QED BY <1>1, <1>4, <1>5, <1>6 DEF Kept

(* What is sent is an item.                                                  *)
LEMMA ItemIs ==
  ASSUME NEW i \in Nat, NEW p \in Path, NEW n \in Seq(Byte), NEW t \in [date : Int, time : Int]
  PROVE  Item(i, p, n, t) \in WorkItem /\ <<Item(i, p, n, t)>> \in Seq(WorkItem)
<1>1. Item(i, p, n, t) \in WorkItem
  BY DEF Item, WorkItem
<1> QED BY <1>1

(* A list of one item, or of none, is a list of items each found once.       *)
LEMMA OneOrNone ==
  ASSUME NEW x \in WorkItem, NEW found, found = <<>> \/ found = <<x>>
  PROVE  found \in Seq(WorkItem) /\ \A k \in DOMAIN found : found[k].mtime = x.mtime
<1>1. CASE found = <<>>
  <2>1. found \in Seq(WorkItem) /\ DOMAIN found = {}
    BY <1>1
  <2> QED BY <2>1
<1>2. CASE found = <<x>>
  <2>1. found \in Seq(WorkItem)
    BY <1>2
  <2>2. DOMAIN found = {1} /\ found[1] = x
    BY <1>2
  <2> QED BY <2>1, <2>2
<1> QED BY <1>1, <1>2

(* The number of a root, and the name it goes by.                            *)
LEMMA RootNumber ==
  ASSUME IInv, WInv, NEW i \in DOMAIN roots, listing # "none"
  PROVE  i \in Nat /\ Prefix(ask.given[i]) \in Seq(Byte) /\ i \in DOMAIN pending
<1>1. roots \in Seq(Media(build.os))
  BY DEF IInv, Places
<1>2. IsRoot(ask.given[i]) /\ i \in DOMAIN pending
  BY DEF WInv, Setting
<1> QED BY <1>1, <1>2, PrefixIsText

(* EnterDir preserves the invariant.                                         *)
LEMMA EnterDirKeeps ==
  ASSUME IInv, WInv, [WalkNext]_walkVars, NEW i \in DOMAIN roots, EnterDir(i)
  PROVE  WInv'
<1>1. PICK root \in Canonical(ask.given[i].path) :
        /\ KindIn(host.tree, root) = "dir"
        /\ Enter(i, {[path |-> root, prefix |-> Prefix(ask.given[i])]}, <<>>)
        /\ unread' = unread
  BY DEF EnterDir
<1>2. listing # "none" /\ ~Raw /\ Setting
  BY <1>1 DEF EnterDir, HostWalker, Raw, Enter, Walking, WInv
<1>3. RootAt(i) = {root} /\ root \in Path /\ TreeWalked = host.tree
  BY <1>2, RootIs DEF TreeWalked
<1>4. Kept(i, {[path |-> root, prefix |-> Prefix(ask.given[i])]}, <<>>, {})
  BY <1>1, <1>2, <1>3, DirKept
<1>5. Once(<<>>) /\ <<>> \in Seq(WorkItem) /\ DOMAIN <<>> = {}
  BY DEF Once
<1> QED BY <1>1, <1>4, <1>5, EnterReadKeeps

(* EnterFile preserves the invariant.                                        *)
LEMMA EnterFileKeeps ==
  ASSUME IInv, WInv, [WalkNext]_walkVars, NEW i \in DOMAIN roots, EnterFile(i)
  PROVE  WInv'
<1>1. PICK root, found :
        /\ root \in Canonical(ask.given[i].path)
        /\ KindIn(host.tree, root) = "file"
        /\ found = IF IsExcluded(Prefix(ask.given[i])) THEN <<>>
                   ELSE <<Item(i, root, Prefix(ask.given[i]), DosTime(host.time))>>
        /\ Enter(i, {}, found) /\ unread' = unread
  BY DEF EnterFile
<1>2. listing # "none" /\ ~Raw /\ Setting
  BY <1>1 DEF EnterFile, HostWalker, Raw, Enter, Walking, WInv
<1>3. /\ RootAt(i) = {root} /\ root \in Path /\ TreeWalked = host.tree /\ root \in DOMAIN TreeWalked
      /\ TreeWalked[root].kind = "file" /\ "file" \in Archived
  BY <1>1, <1>2, RootIs DEF TreeWalked, KindIn, Archived
<1>4. Kept(i, {}, found, {}) /\ Once(found) /\ \A k \in DOMAIN found : found[k].root = i
  <2>1. IF TreeWalked[root].kind \in Archived /\ ~IsExcluded(Prefix(ask.given[i]))
        THEN \E mtime : found = <<Item(i, root, Prefix(ask.given[i]), mtime)>>
        ELSE found = <<>>
    BY <1>1, <1>3
  <2>2. TreeWalked[root].kind # "dir"
    BY <1>3
  <2>3. root \in DOMAIN TreeWalked /\ RootAt(i) = {root}
    BY <1>3
  <2> QED BY <1>2, <2>1, <2>2, <2>3, FileKept
<1>5. DosTime(host.time) \in [date : Int, time : Int]
  BY <1>2, DosTimeIs DEF Setting
<1>6. /\ found \in Seq(WorkItem)
      /\ \A k \in DOMAIN found : found[k].mtime = DosTime(host.time)
  <2>1. PICK t : t = DosTime(host.time)
    OBVIOUS
  <2>2. PICK n \in Seq(Byte) : n = Prefix(ask.given[i])
    BY <1>2, RootNumber
  <2>3. PICK x : x = Item(i, root, n, t)
    OBVIOUS
  <2>4. x \in WorkItem /\ x.mtime = t
    BY <1>2, <1>3, <1>5, <2>1, <2>3, ItemIs, RootNumber DEF Item
  <2>5. found = <<>> \/ found = <<x>>
    BY <1>1, <2>1, <2>2, <2>3
  <2>6. found \in Seq(WorkItem) /\ \A k \in DOMAIN found : found[k].mtime = t
    BY <2>4, <2>5, OneOrNone
  <2> QED BY <2>1, <2>6
<1> QED BY <1>1, <1>4, <1>6, EnterReadKeeps

(* EnterRaw preserves the invariant.                                         *)
LEMMA EnterRawKeeps ==
  ASSUME IInv, WInv, [WalkNext]_walkVars, NEW i \in DOMAIN roots, EnterRaw(i)
  PROVE  WInv'
<1>1. PICK root \in RootOnVolume(ask.given[i]) :
       IF root # <<>> /\ root \notin DOMAIN volume THEN Enter(i, {}, <<>>)
       ELSE IF KindIn(volume, root) = "dir"
       THEN Enter(i, {[path |-> root, prefix |-> Prefix(ask.given[i])]}, <<>>)
       ELSE AsFile(i, root)
  BY DEF EnterRaw
<1>0. unread' = unread
  BY DEF EnterRaw
<1>2. listing # "none" /\ Raw /\ Setting
  BY <1>1 DEF EnterRaw, AsFile, Raw, Enter, Walking, WInv
<1>3. /\ RootAt(i) = (IF root = <<>> \/ root \in DOMAIN volume THEN {root} ELSE {})
      /\ TreeWalked = volume
  BY <1>1, <1>2, RootIs DEF TreeWalked
<1>4. Once(<<>>) /\ <<>> \in Seq(WorkItem) /\ DOMAIN <<>> = {}
  BY DEF Once
<1>5. CASE root # <<>> /\ root \notin DOMAIN volume
  <2>1. Enter(i, {}, <<>>) /\ RootAt(i) = {}
    BY <1>1, <1>3, <1>5
  <2>2. Kept(i, {}, <<>>, {})
    BY <1>2, <1>4, <2>1 DEF Kept
  <2> QED BY <1>0, <1>4, <2>1, <2>2, EnterReadKeeps
<1>6. CASE (root = <<>> \/ root \in DOMAIN volume) /\ KindIn(volume, root) = "dir"
  <2>1. RootAt(i) = {root} /\ root \in Path
    BY <1>2, <1>3, <1>6, RootIs
  <2>2. Kept(i, {[path |-> root, prefix |-> Prefix(ask.given[i])]}, <<>>, {})
    BY <1>2, <1>3, <1>6, <2>1, DirKept
  <2> QED BY <1>0, <1>1, <1>4, <1>6, <2>2, EnterReadKeeps
<1>7. CASE (root = <<>> \/ root \in DOMAIN volume) /\ KindIn(volume, root) # "dir"
  <2>1. /\ RootAt(i) = {root} /\ root \in Path /\ root \in DOMAIN TreeWalked
        /\ TreeWalked[root].kind # "dir"
    BY <1>2, <1>3, <1>7, RootIs DEF KindIn
  <2>2. TreeWalked[root].kind \in Archived
    <3>1. IsTree(TreeWalked)
      BY <1>2, TreeIsThere
    <3>2. TreeWalked[root].kind \in {"file", "dir", "link", "other"}
      BY <2>1, <3>1 DEF IsTree
    <3> QED BY <1>2, <2>1, <3>2 DEF Archived
  <2>3. PICK found : found = IF IsExcluded(Prefix(ask.given[i])) THEN <<>>
                             ELSE <<Item(i, root, Prefix(ask.given[i]), Epoch)>>
    OBVIOUS
  <2>4. Enter(i, {}, found)
    <3>1. AsFile(i, root)
      BY <1>1, <1>7
    <3> QED BY <2>3, <3>1 DEF AsFile
  <2>5. Kept(i, {}, found, {}) /\ Once(found) /\ \A k \in DOMAIN found : found[k].root = i
    <3>1. IF TreeWalked[root].kind \in Archived /\ ~IsExcluded(Prefix(ask.given[i]))
          THEN \E mtime : found = <<Item(i, root, Prefix(ask.given[i]), mtime)>>
          ELSE found = <<>>
      BY <2>2, <2>3
    <3>2. TreeWalked[root].kind # "dir" /\ root \in DOMAIN TreeWalked /\ RootAt(i) = {root}
      BY <2>1
    <3> QED BY <1>2, <3>1, <3>2, FileKept
  <2>6. /\ found \in Seq(WorkItem)
        /\ \A k \in DOMAIN found : found[k].mtime = Epoch
    <3>1. PICK n \in Seq(Byte) : n = Prefix(ask.given[i])
      BY <1>2, RootNumber
    <3>2. PICK x : x = Item(i, root, n, Epoch)
      OBVIOUS
    <3>3. x \in WorkItem /\ x.mtime = Epoch
      BY <1>2, <2>1, <3>2, EpochIs, ItemIs, RootNumber DEF Item
    <3>4. found = <<>> \/ found = <<x>>
      BY <2>3, <3>1, <3>2
    <3> QED BY <3>3, <3>4, OneOrNone
  <2>7. run.walker # "vfs"
    BY <1>2 DEF Raw
  <2> QED BY <1>0, <2>4, <2>5, <2>6, <2>7, EnterReadKeeps
<1> QED BY <1>5, <1>6, <1>7

(* EnterRawUnread preserves the invariant.                                   *)
LEMMA EnterRawUnreadKeeps ==
  ASSUME IInv, WInv, [WalkNext]_walkVars, NEW i \in DOMAIN roots, EnterRawUnread(i)
  PROVE  WInv'
<1>1. PICK root \in RootOnVolume(ask.given[i]) :
        /\ root = <<>> \/ root \in DOMAIN volume
        /\ AsFile(i, root) \/ Enter(i, {}, <<>>)
        /\ PassOver(i, root)
  BY DEF EnterRawUnread
<1>2. listing # "none" /\ Raw /\ Setting /\ run.walker # "vfs"
  BY <1>1 DEF EnterRawUnread, AsFile, Raw, Enter, Walking, WInv
<1>3. RootAt(i) = {root} /\ root \in Path
  <2>1. RootAt(i) = {root}
    BY <1>1, <1>2, RootIs
  <2> QED BY <1>2, <2>1, RootIs
<1>4. unread' = unread \cup {[root |-> i, path |-> p] : p \in {root}}
  BY <1>1 DEF PassOver
<1>5. PICK n \in Seq(Byte) : n = Prefix(ask.given[i])
  BY <1>2, RootNumber
<1>6. PICK x : x = Item(i, root, n, Epoch)
  OBVIOUS
<1>7. x \in WorkItem /\ x.mtime = Epoch
  BY <1>2, <1>3, <1>6, EpochIs, ItemIs, RootNumber DEF Item
<1>8. PICK found : (found = <<>> \/ found = <<x>>) /\ Enter(i, {}, found)
  <2>1. CASE AsFile(i, root)
    <3>1. PICK found : /\ found = IF IsExcluded(n) THEN <<>> ELSE <<x>>
                       /\ Enter(i, {}, found)
      BY <1>5, <1>6, <2>1 DEF AsFile
    <3> QED BY <3>1
  <2>2. CASE Enter(i, {}, <<>>)
    BY <2>2
  <2> QED BY <1>1, <2>1, <2>2
<1>9. found \in Seq(WorkItem) /\ \A k \in DOMAIN found : found[k].mtime = Epoch
  BY <1>7, <1>8, OneOrNone
<1>10. Kept(i, {}, found, {root}) /\ Once(found) /\ \A k \in DOMAIN found : found[k].root = i
  <2>1. x.root = i /\ EntryOf(x) = RootEntry(i, root)
    BY <1>5, <1>6 DEF Item, EntryOf, RootEntry, NameOf
  <2>2. DOMAIN found \subseteq {1} /\ \A k \in DOMAIN found : found[k] = x
    BY <1>8
  <2>3. \A k \in DOMAIN found : found[k].root = i /\ EntryOf(found[k]) = RootEntry(i, root)
    BY <2>1, <2>2
  <2> QED BY <1>2, <1>3, <2>2, <2>3, RootLost
<1>11. PICK lost : lost = {root}
  OBVIOUS
<1>12. /\ Raw /\ lost = RootAt(i)
       /\ unread' = unread \cup {[root |-> i, path |-> p] : p \in lost}
       /\ Kept(i, {}, found, lost)
  BY <1>2, <1>3, <1>4, <1>10, <1>11
<1> QED BY <1>2, <1>8, <1>9, <1>10, <1>12, EnterKeeps

(* What comes to nothing.                                                    *)
LEMMA FailsKeep ==
  ASSUME IInv, WInv, [WalkNext]_walkVars, listing # "none", Fail
  PROVE  WInv'
<1>1. Same /\ vars' = vars /\ Setting
  BY WalkStays DEF WInv
<1>2. listing' = "failed" /\ entered' = entered /\ pending' = pending /\ items' = items
      /\ unread' = unread
  BY DEF Fail
<1>3. Setting'
  BY <1>1, <1>2 DEF Setting, Same, vars
<1>4. Timed'
  <2>1. DosTime(host.time)' = DosTime(host.time) /\ run' = run
    BY <1>1 DEF Same
  <2> QED BY <1>2, <2>1 DEF WInv, Timed
<1>5. Progress'
  <2>1. \A i \in entered' : Kept(i, pending[i], items, Lost(i))'
    BY <1>1, <1>2, LostStays, KeptStays DEF WInv, Progress
  <2>2. \A u \in unread' : Excused(u)'
    BY <1>1, <1>2, ExcusedStays DEF WInv, Progress
  <2> QED BY <1>1, <1>2, <2>1, <2>2 DEF WInv, Progress, Same
<1> QED BY <1>2, <1>3, <1>4, <1>5 DEF WInv, AllSent

(* EnterOther preserves the invariant.                                       *)
LEMMA EnterOtherKeeps ==
  ASSUME IInv, WInv, [WalkNext]_walkVars, NEW i \in DOMAIN roots, EnterOther(i)
  PROVE  WInv'
<1>1. PICK root \in Canonical(ask.given[i].path) : KindIn(host.tree, root) = "other"
  BY DEF EnterOther
<1>2. CASE run.walker = "vfs"
  <2>1. Enter(i, {}, <<>>) /\ unread' = unread /\ listing # "none" /\ ~Raw /\ Setting
    BY <1>2 DEF EnterOther, HostWalker, Raw, Enter, Walking, WInv
  <2>2. /\ RootAt(i) = {root} /\ root \in Path /\ TreeWalked = host.tree /\ root \in DOMAIN TreeWalked
        /\ TreeWalked[root].kind = "other" /\ "other" \notin Archived
    BY <1>1, <2>1, RootIs DEF TreeWalked, KindIn, Archived
  <2>3. Kept(i, {}, <<>>, {})
    BY <2>1, <2>2, FileKept
  <2>4. Once(<<>>) /\ <<>> \in Seq(WorkItem) /\ DOMAIN <<>> = {}
    BY DEF Once
  <2> QED BY <2>1, <2>3, <2>4, EnterReadKeeps
<1>3. CASE run.walker # "vfs"
  BY <1>3, FailsKeep DEF EnterOther, Walking
<1> QED BY <1>2, <1>3

(* A directory that is listed.                                               *)
Yields(i, r, p, found) ==
  /\ IsFiniteSet(found) /\ found \subseteq WorkItem
  /\ \A x \in found : x.root = i /\ EntryOf(x) \in AskedFor(i, r) /\ x.path \in Children(TreeWalked, p)
  /\ \A e \in AskedFor(i, r) : e.path \in Children(TreeWalked, p) => \E x \in found : EntryOf(x) = e
  /\ \A x, y \in found : x.path = y.path => x = y

(* A finite set of items of different files, as a list.                      *)
LEMMA SequenceOf ==
  ASSUME NEW i, NEW r, NEW p, NEW found, Yields(i, r, p, found)
  PROVE  /\ SetToSeq(found) \in Seq(WorkItem)
         /\ FoundIn(TreeWalked, p, i, AskedFor(i, r), SetToSeq(found))
         /\ Once(SetToSeq(found))
         /\ \A k \in DOMAIN SetToSeq(found) : SetToSeq(found)[k] \in found
<1>1. IsFiniteSet(found) /\ found \subseteq WorkItem
  BY DEF Yields
<1>2. PICK s : s = SetToSeq(found)
  OBVIOUS
<1>3. /\ s \in Seq(found)
      /\ \A x \in found : \E k \in DOMAIN s : s[k] = x
      /\ \A k, l \in DOMAIN s : s[k] = s[l] => k = l
  BY <1>1, <1>2, SetToSeqHasAll
<1>4. \A k \in DOMAIN s : s[k] \in found
  BY <1>3
<1>5. s \in Seq(WorkItem)
  BY <1>1, <1>3
<1>6. FoundIn(TreeWalked, p, i, AskedFor(i, r), s)
  <2>1. \A e \in AskedFor(i, r) : e.path \in Children(TreeWalked, p) => \E k \in DOMAIN s : EntryOf(s[k]) = e
    <3> SUFFICES ASSUME NEW e \in AskedFor(i, r), e.path \in Children(TreeWalked, p)
                 PROVE  \E k \in DOMAIN s : EntryOf(s[k]) = e
      OBVIOUS
    <3>1. PICK x \in found : EntryOf(x) = e
      BY DEF Yields
    <3>2. PICK k \in DOMAIN s : s[k] = x
      BY <1>3
    <3> QED BY <3>1, <3>2
  <2> QED BY <1>4, <2>1 DEF FoundIn, Yields
<1>7. Once(s)
  BY <1>3, <1>4 DEF Once, Yields
<1> QED BY <1>2, <1>4, <1>5, <1>6, <1>7

(* Listing a directory preserves the invariant if it sends what is asked for *)
(* in it.                                                                    *)
LEMMA ListKeeps ==
  ASSUME IInv, WInv, [WalkNext]_walkVars, listing = "walking",
         NEW i \in DOMAIN roots, i \in entered, NEW d \in pending[i], NEW r, RootAt(i) = {r},
         NEW found, List(i, d, TreeWalked, found), Yields(i, r, d.path, found),
         \A x \in found : x.mtime = DosTime(host.time) \/ (x.mtime = Epoch /\ run.walker # "vfs")
  PROVE  WInv'
<1>1. PICK more, new :
        /\ more = {[path |-> p, prefix |-> ChildPrefix(d.prefix, Lossy(Last(p)))] :
                     p \in {q \in Children(TreeWalked, d.path) : KindIn(TreeWalked, q) = "dir"}}
        /\ new = SetToSeq(found)
  OBVIOUS
<1>2. /\ pending' = [pending EXCEPT ![i] = (pending[i] \ {d}) \cup more]
      /\ items' = items \o new /\ entered' = entered /\ listing' = listing
      /\ unread' = unread
  BY <1>1 DEF List
<1>3. Setting /\ Same /\ vars' = vars /\ DOMAIN pending = DOMAIN roots
  BY WalkStays DEF WInv, Setting
<1>4. Setting'
  BY <1>2, <1>3 DEF Setting, Same, vars
<1>5. /\ new \in Seq(WorkItem) /\ FoundIn(TreeWalked, d.path, i, AskedFor(i, r), new)
      /\ Once(new) /\ \A k \in DOMAIN new : new[k] \in found
  BY <1>1, SequenceOf
<1>6. items \in Seq(WorkItem)
  BY DEF WInv, Timed
<1>7. PICK all : all = items \o new
  OBVIOUS
<1>8. /\ all \in Seq(WorkItem)
      /\ \A k \in DOMAIN all : \/ k \in DOMAIN items /\ all[k] = items[k]
                               \/ \E l \in DOMAIN new : all[k] = new[l]
  BY <1>5, <1>6, <1>7, ConcatHas
<1>9. Timed'
  <2>1. DosTime(host.time)' = DosTime(host.time) /\ run' = run
    BY <1>3 DEF Same
  <2>2. \A k \in DOMAIN all :
          all[k].mtime = DosTime(host.time) \/ (all[k].mtime = Epoch /\ run.walker # "vfs")
    BY <1>5, <1>8 DEF WInv, Timed
  <2> QED BY <1>2, <1>7, <1>8, <2>1, <2>2 DEF Timed
<1>10. Kept(i, pending[i], items, Lost(i)) /\ IsTree(TreeWalked)
  BY <1>3, TreeIsThere DEF WInv, Progress
<1>11. /\ Waiting(TreeWalked, r, pending[i]) /\ Named(i, r, pending[i])
       /\ r \in Path /\ d.path \in Path /\ IsPrefix(r, d.path)
  <2>1. r \in Path
    BY <1>3, RootIs
  <2> QED BY <1>10, <2>1 DEF Kept, Waiting
<1>12. PICK asked : Fits(i, r, pending[i], Lost(i), asked) /\ Sent(i, asked, pending[i], items)
  BY <1>10 DEF Kept
<1>13. asked \subseteq AskedFor(i, r) /\ AskedIn(TreeWalked, r, AskedFor(i, r))
       /\ AskedIn(TreeWalked, r, asked)
  <2>1. asked \subseteq AskedFor(i, r)
    BY <1>12 DEF Fits
  <2> QED BY <1>3, <2>1, AskedIs DEF AskedIn
<1>14. /\ Opened(TreeWalked, d, more)
       /\ \A e \in more : e.path \in Children(TreeWalked, d.path)
                          /\ e.prefix = Join(d.prefix, Lossy(Last(e.path)))
  <2>1. \A e \in more : e.path \in Children(TreeWalked, d.path) /\ KindIn(TreeWalked, e.path) = "dir"
                        /\ e.prefix = Join(d.prefix, Lossy(Last(e.path)))
                        /\ e = [path |-> e.path, prefix |-> e.prefix]
    BY <1>1 DEF ChildPrefix
  <2>2. \A q \in Children(TreeWalked, d.path) : KindIn(TreeWalked, q) = TreeWalked[q].kind
    BY DEF Children, KindIn
  <2>3. \A e, f \in more : e.path = f.path => e = f
    BY <2>1
  <2>4. \A q \in Children(TreeWalked, d.path) : TreeWalked[q].kind = "dir" => \E e \in more : e.path = q
    <3> SUFFICES ASSUME NEW q \in Children(TreeWalked, d.path), TreeWalked[q].kind = "dir"
                 PROVE  \E e \in more : e.path = q
      OBVIOUS
    <3>1. PICK e : e = [path |-> q, prefix |-> ChildPrefix(d.prefix, Lossy(Last(q)))]
      OBVIOUS
    <3>2. e \in more /\ e.path = q
      BY <1>1, <2>2, <3>1
    <3> QED BY <3>2
  <2> QED BY <2>1, <2>2, <2>3, <2>4 DEF Opened
<1>15. PICK dirs : dirs = (pending[i] \ {d}) \cup more
  OBVIOUS
<1>16. \A e \in AskedFor(i, r) :
         /\ e.path \in Children(TreeWalked, d.path) => Above(pending[i], e.path) /\ ~Above(dirs, e.path)
         /\ e.path \notin Children(TreeWalked, d.path) => (Above(pending[i], e.path) <=> Above(dirs, e.path))
  <2>1. \A e \in AskedFor(i, r) : e.path \in DOMAIN TreeWalked /\ TreeWalked[e.path].kind # "dir"
    BY <1>13 DEF AskedIn
  <2> QED BY <1>10, <1>11, <1>14, <1>15, <2>1, AboveAfter
<1>17. FoundIn(TreeWalked, d.path, i, asked, new)
  <2>1. \A e \in AskedFor(i, r) : e.path \in Children(TreeWalked, d.path) => e \in asked
    BY <1>12, <1>16 DEF Fits
  <2>2. \A k \in DOMAIN new : EntryOf(new[k]).path = new[k].path
    BY DEF EntryOf
  <2> QED BY <1>5, <1>13, <2>1, <2>2 DEF FoundIn
<1>18. /\ Waiting(TreeWalked, r, dirs) /\ Sent(i, asked, dirs, all)
       /\ Fits(i, r, dirs, Lost(i), asked)
  <2>1. Waiting(TreeWalked, r, dirs)
    BY <1>10, <1>11, <1>14, <1>15, WaitingAfter
  <2>2. Sent(i, asked, dirs, all)
    BY <1>5, <1>6, <1>7, <1>10, <1>11, <1>14, <1>15, <1>12, <1>13, <1>17, SentAfter
  <2>3. Fits(i, r, dirs, Lost(i), asked)
    BY <1>12, <1>13, <1>16 DEF Fits
  <2> QED BY <2>1, <2>2, <2>3
<1>19. Named(i, r, dirs)
  <2>1. CASE run.walker = "vfs"
    BY <2>1 DEF Named
  <2>2. CASE run.walker # "vfs"
    <3>1. ASSUME NEW e \in more PROVE e.prefix = NameOf(i, r, e.path)
      <4>1. e.prefix = Join(d.prefix, Lossy(Last(e.path))) /\ e.path \in Children(TreeWalked, d.path)
        BY <1>14
      <4>2. e.path \in Path /\ e.path # <<>> /\ Front(e.path) = d.path
        BY <1>10, <1>11, <4>1, ChildIs
      <4>3. d.prefix = NameOf(i, r, d.path)
        BY <1>11, <2>2 DEF Named
      <4>4. IsRoot(ask.given[i])
        BY <1>3 DEF Setting
      <4>5. NameOf(i, r, e.path) = Join(NameOf(i, r, Front(e.path)), Lossy(Last(e.path)))
        BY <1>11, <2>2, <4>2, <4>4, CarriedIsName
      <4> QED BY <4>1, <4>2, <4>3, <4>5
    <3> QED BY <1>11, <1>15, <3>1 DEF Named
  <2> QED BY <2>1, <2>2
<1>20. Progress'
  <2>1. Once(all)
    <3>1. \A k \in DOMAIN items, l \in DOMAIN new :
            ~(items[k].root = new[l].root /\ items[k].path = new[l].path)
      BY <1>10, <1>11, <1>12, <1>17, FoundIsNew
    <3> QED BY <1>5, <1>6, <1>7, <3>1, OnceBoth DEF WInv, Progress
  <2>2. Kept(i, dirs, all, Lost(i))
    BY <1>18, <1>19 DEF Kept
  <2>3. ASSUME NEW j \in entered, j # i PROVE Kept(j, pending[j], all, Lost(j))
    <3>1. Kept(j, pending[j], items, Lost(j)) /\ \A l \in DOMAIN new : new[l].root # j
      BY <1>5, <2>3 DEF WInv, Progress, FoundIn
    <3> QED BY <1>5, <1>6, <1>7, <3>1, KeptMore
  <2>4. \A j \in entered' : Kept(j, pending'[j], all, Lost(j))
    <3>1. entered \subseteq DOMAIN pending
      BY <1>3 DEF Setting
    <3> QED BY <1>2, <1>3, <1>15, <2>2, <2>3, <3>1
  <2>5. \A j \in entered' : Kept(j, pending[j], items, Lost(j))'
    BY <1>2, <1>3, <1>7, <2>4, LostStays, KeptStays
  <2>6. \A k \in DOMAIN all : all[k].root \in entered'
    BY <1>2, <1>5, <1>8 DEF WInv, Progress, FoundIn
  <2>7. \A j \in DOMAIN roots' \ entered' : pending'[j] = {}
    BY <1>2, <1>3 DEF WInv, Progress, Same
  <2>8. \A u \in unread' : Excused(u)'
    BY <1>2, <1>3, ExcusedStays DEF WInv, Progress
  <2> QED BY <1>2, <1>7, <2>1, <2>5, <2>6, <2>7, <2>8 DEF Progress
<1>21. AllSent'
  BY <1>2 DEF AllSent
<1> QED BY <1>4, <1>9, <1>20, <1>21 DEF WInv

(* What is found in a directory below a root, by its name.                   *)
Wanted(i, r, q) ==
  /\ KindIn(TreeWalked, q) \in Archived /\ ~IsExcluded(NameOf(i, r, q))
  /\ run.walker = "vfs" \/ ~IsExcluded(Lossy(Last(q)))

(* Each walker finds in a directory what is asked for in it.                 *)
LEMMA Finds ==
  ASSUME IInv, WInv, listing # "none", NEW i \in DOMAIN roots, NEW r \in Path,
         NEW p \in Path, IsPrefix(r, p), NEW t \in [date : Int, time : Int], NEW found,
         found = {Item(i, q, NameOf(i, r, q), t) : q \in {c \in Children(TreeWalked, p) : Wanted(i, r, c)}}
  PROVE  Yields(i, r, p, found) /\ \A x \in found : x.mtime = t
<1>1. Setting /\ IsTree(TreeWalked) /\ IsRoot(ask.given[i]) /\ i \in Nat
  BY TreeIsThere, RootNumber DEF WInv, Setting
<1>2. ASSUME NEW q \in Children(TreeWalked, p)
      PROVE  /\ q \in DOMAIN TreeWalked /\ q \in Path /\ IsPrefix(r, q) /\ q # r
             /\ NameOf(i, r, q) \in Seq(Byte)
  <2>1. q \in DOMAIN TreeWalked /\ q \in Path /\ IsPrefix(p, q) /\ ~IsPrefix(q, p) /\ IsPrefix(p, p)
    BY <1>1, <1>2, ChildIs, PrefixOrder DEF Path
  <2>2. IsPrefix(r, q)
    BY <2>1, PrefixOrder DEF Path
  <2> QED BY <1>1, <2>1, <2>2, NameOfIs
<1>3. ASSUME NEW x \in found
      PROVE  \E q \in Children(TreeWalked, p) : x = Item(i, q, NameOf(i, r, q), t) /\ Wanted(i, r, q)
  BY <1>3
<1>4. ASSUME NEW x \in found
      PROVE  /\ x \in WorkItem /\ x.root = i /\ x.mtime = t /\ x.path \in Children(TreeWalked, p)
             /\ EntryOf(x) \in AskedFor(i, r) /\ x.name = NameOf(i, r, x.path)
             /\ x = Item(i, x.path, NameOf(i, r, x.path), t)
  <2>1. PICK q \in Children(TreeWalked, p) : x = Item(i, q, NameOf(i, r, q), t) /\ Wanted(i, r, q)
    BY <1>3
  <2>2. PICK n \in Seq(Byte) : n = NameOf(i, r, q)
    BY <1>2
  <2>3. x \in WorkItem /\ x.root = i /\ x.path = q /\ x.name = n /\ x.mtime = t
    BY <1>1, <1>2, <2>1, <2>2, ItemIs DEF Item
  <2>4. EntryOf(x) = [root |-> i, path |-> q, name |-> NameOf(i, r, q)]
    BY <2>2, <2>3 DEF EntryOf
  <2>5. EntryOf(x) \in AskedFor(i, r)
    BY <1>2, <2>1, <2>4 DEF AskedFor, AskedUnder, Wanted
  <2> QED BY <2>1, <2>2, <2>3, <2>5
<1>5. \A e \in AskedFor(i, r) : e.path \in Children(TreeWalked, p) => \E x \in found : EntryOf(x) = e
  <2> SUFFICES ASSUME NEW e \in AskedFor(i, r), e.path \in Children(TreeWalked, p)
               PROVE  \E x \in found : EntryOf(x) = e
    OBVIOUS
  <2>1. PICK q \in DOMAIN TreeWalked :
          /\ e = [root |-> i, path |-> q, name |-> NameOf(i, r, q)]
          /\ KindIn(TreeWalked, q) \in Archived /\ ~IsExcluded(NameOf(i, r, q))
          /\ run.walker = "vfs" \/ q = r \/ ~IsExcluded(Lossy(Last(q)))
    BY DEF AskedFor, AskedUnder
  <2>2. q \in Children(TreeWalked, p) /\ q # r
    BY <1>2, <2>1
  <2>3. Wanted(i, r, q)
    BY <2>1, <2>2 DEF Wanted
  <2>4. PICK x : x = Item(i, q, NameOf(i, r, q), t)
    OBVIOUS
  <2>5. EntryOf(x) = e
    BY <2>1, <2>4 DEF EntryOf, Item
  <2>6. x \in found
    BY <2>2, <2>3, <2>4
  <2> QED BY <2>5, <2>6
<1>6. IsFiniteSet(found)
  <2>1. PICK S : S = {c \in Children(TreeWalked, p) : Wanted(i, r, c)}
    OBVIOUS
  <2>2. IsFiniteSet(S)
    <3>1. S \subseteq DOMAIN TreeWalked
      BY <1>2, <2>1
    <3> QED BY <1>1, <3>1, FS_Subset DEF IsTree
  <2>3. PICK f : f = [q \in S |-> Item(i, q, NameOf(i, r, q), t)]
    OBVIOUS
  <2>4. found = {f[q] : q \in S}
    BY <2>1, <2>3
  <2> QED BY <2>2, <2>4, ImageIsFinite
<1>7. \A x, y \in found : x.path = y.path => x = y
  BY <1>4
<1> QED BY <1>4, <1>5, <1>6, <1>7 DEF Yields

(* A directory that jwalk could not read: what is asked for in it is lost.   *)
LEMMA FitsAfterLoss ==
  ASSUME Setting, listing # "none", ~Raw, NEW i, NEW r, NEW dirs, Waiting(TreeWalked, r, dirs),
         NEW d \in dirs, NEW lost, NEW asked, NEW sent,
         Fits(i, r, dirs, lost, asked), Sent(i, asked, dirs, sent)
  PROVE  \E left : /\ Fits(i, r, dirs \ {d}, lost \cup {d.path}, left)
                   /\ Sent(i, left, dirs \ {d}, sent)
<1>1. PICK left : left = {e \in asked : ~IsPrefix(d.path, e.path)}
  OBVIOUS
<1>2. asked \subseteq AskedFor(i, r) /\ \A e \in AskedFor(i, r) : e.path \in Path
  BY AskedIs, TreeIsThere DEF Fits, AskedIn
<1>3. ASSUME NEW e \in AskedFor(i, r), IsPrefix(d.path, e.path) PROVE ~Above(dirs \ {d}, e.path)
  <2> SUFFICES ASSUME NEW f \in dirs \ {d}, IsPrefix(f.path, e.path) PROVE FALSE
    BY DEF Above
  <2>1. /\ d.path \in Path /\ f.path \in Path /\ ~IsPrefix(d.path, f.path) /\ ~IsPrefix(f.path, d.path)
    BY DEF Waiting
  <2>2. Len(d.path) \in Nat /\ Len(f.path) \in Nat /\ e.path \in Path
    BY <1>2, <2>1 DEF Path
  <2>3. Len(d.path) <= Len(f.path) \/ Len(f.path) <= Len(d.path)
    BY <2>2
  <2> QED BY <1>3, <2>1, <2>2, <2>3, PrefixOrder DEF Path
<1>4. Fits(i, r, dirs \ {d}, lost \cup {d.path}, left)
  <2>1. \A e \in left : e \in AskedFor(i, r)
    BY <1>1, <1>2
  <2>2. ASSUME NEW e \in AskedFor(i, r), e \notin left
        PROVE  ~Above(dirs \ {d}, e.path) /\ \E p \in lost \cup {d.path} : IsPrefix(p, e.path)
    <3>1. CASE e \in asked
      <4>1. IsPrefix(d.path, e.path)
        BY <1>1, <2>2, <3>1
      <4> QED BY <1>3, <4>1
    <3>2. CASE e \notin asked
      <4>1. ~Above(dirs, e.path) /\ \E p \in lost : IsPrefix(p, e.path)
        BY <3>2 DEF Fits
      <4> QED BY <4>1 DEF Above
    <3> QED BY <3>1, <3>2
  <2> QED BY <2>1, <2>2 DEF Fits
<1>5. Sent(i, left, dirs \ {d}, sent)
  <2>1. ASSUME NEW k \in DOMAIN sent, sent[k].root = i
        PROVE  EntryOf(sent[k]) \in left /\ ~Above(dirs \ {d}, sent[k].path)
    <3>1. EntryOf(sent[k]) \in asked /\ ~Above(dirs, sent[k].path)
      BY <2>1 DEF Sent
    <3>2. ~IsPrefix(d.path, EntryOf(sent[k]).path)
      BY <3>1 DEF Above, EntryOf
    <3> QED BY <1>1, <3>1, <3>2 DEF Above
  <2>2. ASSUME NEW e \in left, ~Above(dirs \ {d}, e.path)
        PROVE  \E k \in DOMAIN sent : EntryOf(sent[k]) = e
    <3>1. e \in asked /\ ~Above(dirs, e.path)
      BY <1>1, <2>2 DEF Above
    <3> QED BY <3>1 DEF Sent
  <2> QED BY <2>1, <2>2 DEF Sent
<1> QED BY <1>4, <1>5

(* VfsUnread preserves the invariant.                                        *)
LEMMA VfsUnreadKeeps ==
  ASSUME IInv, WInv, [WalkNext]_walkVars, listing = "walking",
         NEW i \in DOMAIN roots, i \in entered, NEW d \in pending[i], VfsUnread(i, d)
  PROVE  WInv'
<1>1. /\ run.walker = "vfs" /\ ~Raw
      /\ pending' = [pending EXCEPT ![i] = pending[i] \ {d}]
      /\ unread' = unread \cup {[root |-> i, path |-> p] : p \in {d.path}}
      /\ items' = items /\ entered' = entered /\ listing' = listing
  BY DEF VfsUnread, PassOver, Raw
<1>2. Setting /\ Same /\ vars' = vars /\ DOMAIN pending = DOMAIN roots
  BY WalkStays DEF WInv, Setting
<1>3. Setting'
  BY <1>1, <1>2 DEF Setting, Same, vars
<1>4. Timed'
  <2>1. DosTime(host.time)' = DosTime(host.time) /\ run' = run
    BY <1>2 DEF Same
  <2> QED BY <1>1, <2>1 DEF WInv, Timed
<1>5. Lost(i)' = Lost(i) \cup {d.path} /\ \A j : j # i => Lost(j)' = Lost(j)
  BY <1>1, LostAfter
<1>6. Kept(i, pending[i] \ {d}, items, Lost(i) \cup {d.path})
  <2>1. Kept(i, pending[i], items, Lost(i))
    BY DEF WInv, Progress
  <2>2. RootAt(i) # {}
    BY <1>1, <2>1 DEF Kept
  <2>3. ASSUME NEW r \in RootAt(i)
        PROVE  /\ Waiting(TreeWalked, r, pending[i] \ {d}) /\ Named(i, r, pending[i] \ {d})
               /\ \E asked : /\ Fits(i, r, pending[i] \ {d}, Lost(i) \cup {d.path}, asked)
                             /\ Sent(i, asked, pending[i] \ {d}, items)
    <3>1. PICK asked : /\ Waiting(TreeWalked, r, pending[i]) /\ Named(i, r, pending[i])
                       /\ Fits(i, r, pending[i], Lost(i), asked) /\ Sent(i, asked, pending[i], items)
      BY <2>1 DEF Kept
    <3>2. Waiting(TreeWalked, r, pending[i] \ {d}) /\ Named(i, r, pending[i] \ {d})
      BY <3>1 DEF Waiting, Named
    <3>3. PICK dirs, lost : dirs = pending[i] /\ lost = Lost(i)
      OBVIOUS
    <3>4. \E left : /\ Fits(i, r, dirs \ {d}, lost \cup {d.path}, left)
                    /\ Sent(i, left, dirs \ {d}, items)
      BY <1>1, <1>2, <3>1, <3>3, FitsAfterLoss
    <3> QED BY <3>2, <3>3, <3>4
  <2> QED BY <2>2, <2>3 DEF Kept
<1>7. Progress'
  <2>1. \A j \in entered' : Kept(j, pending'[j], items, Lost(j)')
    <3>1. \A j \in entered : j # i => Kept(j, pending[j], items, Lost(j))
      BY DEF WInv, Progress
    <3>2. \A j \in entered : j # i => pending'[j] = pending[j]
      BY <1>1, <1>2 DEF Setting
    <3>3. pending'[i] = pending[i] \ {d}
      BY <1>1, <1>2
    <3> QED BY <1>1, <1>5, <1>6, <3>1, <3>2, <3>3
  <2>2. \A j \in entered' : Kept(j, pending[j], items, Lost(j))'
    BY <1>1, <1>2, <2>1, KeptStays
  <2>3. \A j \in DOMAIN roots' \ entered' : pending'[j] = {}
    BY <1>1, <1>2 DEF WInv, Progress, Same
  <2>4. \A u \in unread' : Excused(u)'
    <3>1. run' = run
      BY <1>2 DEF Same
    <3>2. \A u \in unread' : u.root \in entered
      BY <1>1 DEF WInv, Progress, Excused
    <3> QED BY <1>1, <3>1, <3>2 DEF Excused
  <2> QED BY <1>1, <2>2, <2>3, <2>4 DEF WInv, Progress
<1>8. AllSent'
  BY <1>1 DEF AllSent
<1> QED BY <1>3, <1>4, <1>7, <1>8 DEF WInv

(* ListDir preserves the invariant.                                          *)
LEMMA ListDirKeeps ==
  ASSUME IInv, WInv, [WalkNext]_walkVars, NEW i \in DOMAIN pending, ListDir(i)
  PROVE  WInv'
<1>1. PICK d \in pending[i] : ListVfs(i, d) \/ VfsUnread(i, d) \/ ListBulk(i, d) \/ ListRaw(i, d)
  BY DEF ListDir
<1>2. listing = "walking" /\ Setting
  BY DEF ListDir, Walking, WInv
<1>3. i \in DOMAIN roots /\ i \in entered
  BY <1>2 DEF WInv, Setting, Progress
<1>4. PICK r \in Path : RootAt(i) = {r}
  BY <1>2, <1>3, RootIs DEF WInv, Progress, Kept
<1>5. d.path \in Path /\ IsPrefix(r, d.path) /\ Named(i, r, pending[i])
  BY <1>2, <1>3, <1>4 DEF WInv, Progress, Kept, Waiting
<1>6. IsTree(TreeWalked) /\ IsRoot(ask.given[i]) /\ IsTree(volume)
  BY <1>2, <1>3, TreeIsThere DEF Setting
<1>7. ASSUME NEW q \in Children(TreeWalked, d.path)
      PROVE  /\ q \in Path /\ q # <<>> /\ Front(q) = d.path /\ IsPrefix(r, Front(q)) /\ q # r
             /\ KindIn(TreeWalked, q) \in {"file", "dir", "link", "other"}
  <2>1. /\ q \in DOMAIN TreeWalked /\ q \in Path /\ q # <<>> /\ Front(q) = d.path
        /\ ~IsPrefix(q, d.path)
    BY <1>5, <1>6, <1>7, ChildIs
  <2>2. KindIn(TreeWalked, q) \in {"file", "dir", "link", "other"}
    BY <1>6, <2>1 DEF KindIn, IsTree
  <2> QED BY <1>5, <2>1, <2>2
<1>8. CASE ListVfs(i, d)
  <2>1. run.walker = "vfs" /\ ~Raw /\ TreeWalked = host.tree /\ Archived = {"file"}
    BY <1>8 DEF ListVfs, Raw, TreeWalked, Archived
  <2>2. (CHOOSE p \in Canonical(ask.given[i].path) : TRUE) = r
    BY <1>2, <1>3, <1>4, <2>1, RootIs
  <2>3. PICK t \in [date : Int, time : Int] : t = DosTime(host.time)
    BY <1>2, DosTimeIs DEF Setting
  <2> DEFINE name(p) == ArchiveName(Prefix(ask.given[i]), SubSeq(p, Len(r) + 1, Len(p)))
  <2>4. PICK found :
          found = {Item(i, p, name(p), t) :
                     p \in {q \in Children(TreeWalked, d.path) : KindIn(TreeWalked, q) = "file" /\ ~IsExcluded(name(q))}}
    OBVIOUS
  <2>5. List(i, d, TreeWalked, found)
    BY <1>8, <2>1, <2>2, <2>3, <2>4 DEF ListVfs
  <2>6. \A q \in Children(TreeWalked, d.path) : name(q) = NameOf(i, r, q)
    BY <1>7, <2>1 DEF NameOf, Below
  <2> HIDE DEF name
  <2>7. found = {Item(i, q, NameOf(i, r, q), t) :
                   q \in {c \in Children(TreeWalked, d.path) : Wanted(i, r, c)}}
    BY <2>1, <2>4, <2>6 DEF Wanted
  <2>8. Yields(i, r, d.path, found) /\ \A x \in found : x.mtime = t
    BY <1>2, <1>3, <1>5, <2>7, Finds
  <2> QED BY <1>2, <1>3, <1>4, <2>3, <2>5, <2>8, ListKeeps
<1>9. ASSUME run.walker # "vfs", NEW found, List(i, d, TreeWalked, found),
             found = {Item(i, p, CarriedName(d, p), Epoch) :
                        p \in {q \in Children(TreeWalked, d.path) :
                                 KindIn(TreeWalked, q) \in Archived /\ ~Skipped(d, q)}}
      PROVE  WInv'
  <2>1. \A q \in Children(TreeWalked, d.path) : CarriedName(d, q) = NameOf(i, r, q)
    <3> SUFFICES ASSUME NEW q \in Children(TreeWalked, d.path)
                 PROVE  CarriedName(d, q) = NameOf(i, r, q)
      OBVIOUS
    <3>1. d.prefix = NameOf(i, r, d.path)
      BY <1>5, <1>9 DEF Named
    <3>2. NameOf(i, r, q) = Join(NameOf(i, r, Front(q)), Lossy(Last(q)))
      BY <1>6, <1>7, <1>9, CarriedIsName
    <3> QED BY <1>7, <3>1, <3>2 DEF CarriedName
  <2>2. found = {Item(i, q, NameOf(i, r, q), Epoch) :
                   q \in {c \in Children(TreeWalked, d.path) : Wanted(i, r, c)}}
    BY <1>9, <2>1 DEF Wanted, Skipped
  <2>3. Yields(i, r, d.path, found) /\ \A x \in found : x.mtime = Epoch
    BY <1>2, <1>3, <1>5, <2>2, EpochIs, Finds
  <2> QED BY <1>2, <1>3, <1>4, <1>9, <2>3, ListKeeps
<1>10. CASE ListBulk(i, d)
  <2>1. run.walker = "bulk" /\ TreeWalked = host.tree /\ Archived = {"file"}
    BY <1>10 DEF ListBulk, Raw, TreeWalked, Archived
  <2>2. PICK found : found = {Item(i, p, CarriedName(d, p), Epoch) :
                       p \in {q \in Children(host.tree, d.path) :
                                KindIn(host.tree, q) = "file" /\ ~Skipped(d, q)}}
    OBVIOUS
  <2>3. List(i, d, host.tree, found)
    BY <1>10, <2>2 DEF ListBulk
  <2>4. found = {Item(i, p, CarriedName(d, p), Epoch) :
                        p \in {q \in Children(TreeWalked, d.path) :
                                 KindIn(TreeWalked, q) \in Archived /\ ~Skipped(d, q)}}
    BY <2>1, <2>2
  <2> QED BY <1>9, <2>1, <2>3, <2>4
<1>11. CASE ListRaw(i, d)
  <2>1. run.walker = "raw" /\ TreeWalked = volume /\ Archived = {"file", "link", "other"}
    BY <1>11 DEF ListRaw, Raw, TreeWalked, Archived
  <2>2. PICK found : found = {Item(i, p, CarriedName(d, p), Epoch) :
                       p \in {q \in Children(volume, d.path) : KindIn(volume, q) # "dir" /\ ~Skipped(d, q)}}
    OBVIOUS
  <2>3. List(i, d, volume, found)
    BY <1>11, <2>2 DEF ListRaw
  <2>4. found = {Item(i, p, CarriedName(d, p), Epoch) :
                        p \in {q \in Children(TreeWalked, d.path) :
                                 KindIn(TreeWalked, q) \in Archived /\ ~Skipped(d, q)}}
    BY <1>7, <2>1, <2>2
  <2> QED BY <1>9, <2>1, <2>3, <2>4
<1>12. CASE VfsUnread(i, d)
  BY <1>2, <1>3, <1>12, VfsUnreadKeeps
<1> QED BY <1>1, <1>8, <1>10, <1>11, <1>12

(* EndWalk preserves the invariant: what it may do is put the list in order. *)
LEMMA EndWalkKeeps ==
  ASSUME IInv, WInv, [WalkNext]_walkVars, EndWalk
  PROVE  WInv'
<1>1. /\ listing = "walking" /\ entered = DOMAIN roots /\ AllListed
      /\ listing' \in {"failed", "listed"}
      /\ items' = IF cmd.sort THEN SortedByName(items) ELSE items
      /\ entered' = entered /\ pending' = pending /\ unread' = unread
  BY DEF EndWalk, Walking
<1>2. Setting /\ Same /\ vars' = vars
  BY <1>1, WalkStays DEF WInv
<1>3. Setting'
  BY <1>1, <1>2 DEF Setting, Same, vars
<1>4. items \in Seq(WorkItem)
  BY DEF WInv, Timed
<1>5. PICK new : new = IF cmd.sort THEN SortedByName(items) ELSE items
  OBVIOUS
<1>6. new \in Seq(WorkItem) /\ Rearranged(items, new)
  <2>1. CASE cmd.sort
    <3>1. \A k \in DOMAIN items : items[k].name \in Seq(Byte)
      <4>1. \A k \in DOMAIN items : items[k] \in WorkItem
        BY <1>4
      <4> QED BY <4>1 DEF WorkItem
    <3> QED BY <1>4, <1>5, <2>1, <3>1, SortRearranges
  <2>2. CASE ~cmd.sort
    <3>1. PICK order : order = [k \in DOMAIN items |-> k]
      OBVIOUS
    <3>2. Rearranged(items, items)
      BY <3>1 DEF Rearranged
    <3> QED BY <1>4, <1>5, <2>2, <3>2
  <2> QED BY <2>1, <2>2
<1>7. \A k \in DOMAIN new : \E l \in DOMAIN items : new[k] = items[l]
  BY <1>6 DEF Rearranged
<1>8. Timed'
  <2>1. DosTime(host.time)' = DosTime(host.time) /\ run' = run
    BY <1>2 DEF Same
  <2>2. \A k \in DOMAIN new :
          new[k].mtime = DosTime(host.time) \/ (new[k].mtime = Epoch /\ run.walker # "vfs")
    BY <1>7 DEF WInv, Timed
  <2> QED BY <1>1, <1>5, <1>6, <2>1, <2>2 DEF Timed
<1>9. Progress'
  <2>1. Once(new)
    BY <1>1, <1>6, OnceRearranged DEF WInv, Progress
  <2>2. ASSUME NEW i \in entered PROVE Kept(i, pending[i], new, Lost(i))
    <3>1. Kept(i, pending[i], items, Lost(i))
      BY <1>1 DEF WInv, Progress
    <3>2. RootAt(i) = {} => \A k \in DOMAIN new : new[k].root # i
      BY <1>7, <3>1 DEF Kept
    <3>3. \A asked : Sent(i, asked, pending[i], items) => Sent(i, asked, pending[i], new)
      BY <1>6, SentRearranged
    <3> QED BY <3>1, <3>2, <3>3 DEF Kept
  <2>3. \A i \in entered' : Kept(i, pending[i], items, Lost(i))'
    BY <1>1, <1>2, <1>5, <2>2, LostStays, KeptStays
  <2>4. \A k \in DOMAIN new : new[k].root \in entered'
    BY <1>1, <1>7 DEF WInv, Progress
  <2>5. \A u \in unread' : Excused(u)'
    BY <1>1, <1>2, ExcusedStays DEF WInv, Progress
  <2> QED BY <1>1, <1>2, <1>5, <2>1, <2>3, <2>4, <2>5 DEF WInv, Progress, Same
<1>10. AllSent'
  BY <1>1, <1>2 DEF AllSent, AllListed, Same
<1> QED BY <1>3, <1>8, <1>9, <1>10 DEF WInv

(* StartWalk preserves the invariant.                                        *)
LEMMA StartWalkKeeps ==
  ASSUME IInv, WInv, StartWalk
  PROVE  WInv'
<1>1. PICK case \in Cases[Len(roots)] : host' = case.host /\ ask' = case.ask
  BY DEF StartWalk
<1>2. /\ listing = "none" /\ stage = "running" /\ ~cmd.solid
      /\ volume' \in (IF raw = Volume THEN Volumes ELSE {host'.tree})
      /\ pending' = [i \in DOMAIN roots |-> {}] /\ listing' = "walking"
      /\ vars' = vars /\ entered' = entered /\ items' = items
      /\ unread' = unread
  BY DEF StartWalk
<1>3. /\ stage' = stage /\ roots' = roots /\ run' = run
  BY <1>2 DEF vars
<1>4. items = <<>> /\ entered = {} /\ unread = {}
  BY <1>2 DEF WInv, Timed
<1>5. Len(roots) \in 1..MaxRoots /\ DOMAIN roots = 1..Len(roots)
  <2>1. roots \in Seq(Media(build.os)) /\ roots # <<>> /\ Len(roots) <= MaxRoots
    BY <1>2 DEF IInv, Places, WInv, Setting
  <2> QED BY <2>1, StartupAssumption
<1>6. /\ IsTree(case.host.tree)
      /\ case.host.time.day \in Int
      /\ case.host.time.sec \in Nat /\ case.host.time.sec < 86400
      /\ DOMAIN case.ask.given = DOMAIN roots /\ \A i \in DOMAIN roots : IsRoot(case.ask.given[i])
  BY <1>1, <1>5, WalkAssumption
<1>7. run.walker \in {"raw", "bulk", "vfs"}
  BY <1>2 DEF IInv, RunFits, Solid, Walker
<1>8. IsTree(volume')
  BY <1>1, <1>2, <1>6, WalkAssumption
<1>9. Setting'
  <2>1. IsTree(host.tree)' /\ IsTree(volume)'
    BY <1>1, <1>6, <1>8
  <2>2. \A i \in DOMAIN roots' : IsRoot(ask.given[i])'
    BY <1>1, <1>3, <1>6
  <2> QED BY <1>1, <1>2, <1>3, <1>4, <1>6, <1>7, <2>1, <2>2 DEF WInv, Setting
<1>10. Timed'
  <2>1. items' = <<>> /\ DOMAIN <<>> = {} /\ <<>> \in Seq(WorkItem)
    BY <1>2, <1>4
  <2> QED BY <1>2, <2>1 DEF Timed
<1>11. Progress'
  <2>1. items' = <<>> /\ entered' = {} /\ unread' = {} /\ DOMAIN <<>> = {}
    BY <1>2, <1>4
  <2> QED BY <1>2, <1>3, <2>1 DEF Progress, Once
<1> QED BY <1>2, <1>9, <1>10, <1>11 DEF WInv, AllSent

(* The invariant holds before the walk.                                      *)
LEMMA WalkInitHolds == WalkInit => WInv
<1> SUFFICES ASSUME WalkInit PROVE WInv
  OBVIOUS
<1>1. /\ roots \in SeqOf(Media(build.os), MaxRoots) /\ listing = "none" /\ items = <<>> /\ entered = {}
      /\ unread = {}
  BY DEF WalkInit, Init
<1>2. DOMAIN <<>> = {} /\ <<>> \in Seq(WorkItem)
  OBVIOUS
<1>3. Len(roots) <= MaxRoots
  BY <1>1, RootsAreFew
<1> QED BY <1>1, <1>2, <1>3 DEF WInv, Setting, Progress, Timed, AllSent

(* Nothing happens to the walk.                                              *)
LEMMA RestKeeps ==
  ASSUME IInv, WInv, [WalkNext]_walkVars, UNCHANGED walk, [Next]_vars
  PROVE  WInv'
<1>1. /\ listing' = listing /\ items' = items /\ pending' = pending /\ entered' = entered
      /\ host' = host /\ volume' = volume /\ ask' = ask /\ unread' = unread
  BY DEF walk
<1>2. CASE listing = "none"
  <2>1. Len(roots') <= MaxRoots
    BY RootsStayFew DEF WInv, Setting, vars
  <2>2. items' = <<>> /\ DOMAIN <<>> = {} /\ <<>> \in Seq(WorkItem) /\ entered' = {}
        /\ unread' = {}
    BY <1>1, <1>2 DEF WInv, Timed
  <2> QED BY <1>1, <1>2, <2>1, <2>2 DEF WInv, Setting, Progress, Timed, AllSent
<1>3. CASE listing # "none"
  <2>1. Same /\ vars' = vars /\ Setting
    BY <1>3, WalkStays DEF WInv
  <2>2. Setting'
    BY <1>1, <2>1 DEF Setting, Same, vars
  <2>3. DosTime(host.time)' = DosTime(host.time) /\ run' = run
    BY <2>1 DEF Same
  <2>4. Timed'
    BY <1>1, <2>3 DEF WInv, Timed
  <2>5. \A i \in entered' : Kept(i, pending[i], items, Lost(i))'
    BY <1>1, <1>3, <2>1, LostStays, KeptStays DEF WInv, Progress
  <2>8. \A u \in unread' : Excused(u)'
    BY <1>1, <1>3, <2>1, ExcusedStays DEF WInv, Progress
  <2>6. Progress'
    BY <1>1, <1>3, <2>1, <2>5, <2>8 DEF WInv, Progress, Same
  <2>7. AllSent'
    BY <1>1, <2>1 DEF WInv, AllSent, Same
  <2> QED BY <2>2, <2>4, <2>6, <2>7 DEF WInv
<1> QED BY <1>2, <1>3

(* Every step preserves the invariant.                                       *)
LEMMA WalkStep == IInv /\ WInv /\ [WalkNext]_walkVars => WInv'
<1> SUFFICES ASSUME IInv, WInv, [WalkNext]_walkVars PROVE WInv'
  OBVIOUS
<1>1. CASE StartWalk
  BY <1>1, StartWalkKeeps
<1>2. ASSUME NEW i \in DOMAIN pending, listing = "walking",
             \/ RootIsMissing(i) \/ EnterFile(i) \/ EnterDir(i) \/ EnterOther(i) \/ EnterRaw(i)
             \/ EnterRawUnread(i) \/ ListDir(i) \/ ListFails(i)
      PROVE  WInv'
  <2>1. i \in DOMAIN roots
    BY <1>2 DEF WInv, Setting
  <2>2. CASE RootIsMissing(i) \/ ListFails(i)
    BY <1>2, <2>2, FailsKeep DEF RootIsMissing, ListFails
  <2>3. CASE EnterFile(i)
    BY <2>1, <2>3, EnterFileKeeps
  <2>4. CASE EnterDir(i)
    BY <2>1, <2>4, EnterDirKeeps
  <2>5. CASE EnterOther(i)
    BY <2>1, <2>5, EnterOtherKeeps
  <2>6. CASE EnterRaw(i)
    BY <2>1, <2>6, EnterRawKeeps
  <2>8. CASE EnterRawUnread(i)
    BY <2>1, <2>8, EnterRawUnreadKeeps
  <2>7. CASE ListDir(i)
    BY <2>7, ListDirKeeps
  <2> QED BY <1>2, <2>2, <2>3, <2>4, <2>5, <2>6, <2>7, <2>8
<1>3. CASE EndWalk
  BY <1>3, EndWalkKeeps
<1>4. CASE UNCHANGED walk /\ [Next]_vars
  BY <1>4, RestKeeps
<1>5. ASSUME NEW i \in DOMAIN pending,
             \/ RootIsMissing(i) \/ EnterFile(i) \/ EnterDir(i) \/ EnterOther(i) \/ EnterRaw(i)
             \/ EnterRawUnread(i) \/ ListDir(i) \/ ListFails(i)
      PROVE  listing = "walking"
  <2>1. CASE RootIsMissing(i) \/ ListFails(i)
    BY <2>1 DEF RootIsMissing, ListFails, Walking
  <2>2. CASE EnterFile(i) \/ EnterDir(i)
    BY <2>2 DEF EnterFile, EnterDir, Enter, Walking
  <2>3. CASE EnterOther(i)
    BY <2>3 DEF EnterOther, Enter, Walking
  <2>4. CASE EnterRaw(i) \/ EnterRawUnread(i)
    BY <2>4 DEF EnterRaw, EnterRawUnread, AsFile, Enter, Walking
  <2>5. CASE ListDir(i)
    BY <2>5 DEF ListDir, Walking
  <2> QED BY <1>5, <2>1, <2>2, <2>3, <2>4, <2>5
<1>6. CASE UNCHANGED walkVars
  BY <1>4, <1>6 DEF walkVars
<1> QED BY <1>1, <1>2, <1>3, <1>4, <1>5, <1>6 DEF WalkNext

(* At every moment of a walk what is asked for under a root entered is sent  *)
(* once, or below one directory that waits, or below something that was      *)
(* passed over unread; only jwalk passes over directories and only the raw   *)
(* walker roots; the subdirectories in the walkers that carry a prefix wait  *)
(* under the right one, and every item has the time of its file or the first *)
(* moment.                                                                   *)
THEOREM WalkInvariant == WalkSpec => [](IInv /\ WInv)
<1>1. WalkInit => IInv /\ WInv
  BY WalkIsStartup, WalkInitHolds
<1>2. (IInv /\ WInv) /\ [WalkNext]_walkVars => (IInv /\ WInv)'
  BY WalkIsStartup, WalkStep
<1> QED BY <1>1, <1>2, PTL DEF WalkSpec

(* A day of the format has the date of that day, a day before it the first   *)
(* moment.                                                                   *)
LEMMA OneTimeOrAnother ==
  ASSUME WInv, NEW x \in ToSet(items)
  PROVE  \/ x.mtime = Epoch /\ (run.walker # "vfs" \/ host.time.day < StartOf(1980, 1))
         \/ host.time.day >= StartOf(2108, 1)
         \/ /\ DaysOf(x.mtime.date) = {host.time.day}
            /\ SecondOf(x.mtime.time) = host.time.sec - (host.time.sec % 2)
<1>1. PICK k \in DOMAIN items : x = items[k]
  BY DEF ToSet
<1>2. items # <<>>
  BY <1>1
<1>3. listing # "none"
  BY <1>2 DEF WInv, Timed
<1>4. PICK t : t = host.time
  OBVIOUS
<1>5. t.day \in Int /\ t.sec \in Nat /\ t.sec < 86400
  BY <1>3, <1>4 DEF WInv, Setting
<1>6. x.mtime = DosTime(t) \/ (x.mtime = Epoch /\ run.walker # "vfs")
  BY <1>1, <1>4 DEF WInv, Timed
<1>7. t.day >= StartOf(2108, 1) \/ InFormat(t)
  <2>1. PICK end \in Int, day \in Int : end = StartOf(2108, 1) /\ day = t.day
    BY <1>5, YearsOfTheFormat
  <2>2. day >= end \/ day < end
    OBVIOUS
  <2> QED BY <1>5, <2>1, <2>2, SMT DEF InFormat
<1>8. InFormat(t) => ComesOut(DosTime(t), t)
  BY DosTimeIsRight
<1> QED BY <1>4, <1>6, <1>7, <1>8, SMT DEF ComesOut

(* The date and time of an item are those of its file, to two seconds, as    *)
(* far as the format has them (dos_time, civil_from_days).                   *)
THEOREM TimesAreTheFiles == WalkSpec => []ItemsCarryTheirTime
<1>1. IInv /\ WInv => ItemsCarryTheirTime
  BY OneTimeOrAnother DEF ItemsCarryTheirTime
<1> QED BY <1>1, WalkInvariant, PTL

(* At the end of the walk all that was asked for is sent or was passed over, *)
(* and all that is sent was asked for or is a root taken for a file.         *)
LEMMA AllIsSent ==
  ASSUME WInv, listing = "listed"
  PROVE  /\ \A k \in DOMAIN items : EntryOf(items[k]) \in Asked({"file", "link", "other"}) \cup TakenForFile
         /\ \A e \in Asked({"file"}) : Unread(e) \/ \E k \in DOMAIN items : EntryOf(items[k]) = e
<1>1. \A i \in DOMAIN roots : Kept(i, {}, items, Lost(i))
  BY DEF WInv, AllSent, Progress
<1>2. ASSUME NEW k \in DOMAIN items
      PROVE  EntryOf(items[k]) \in Asked({"file", "link", "other"}) \cup TakenForFile
  <2>1. PICK i \in DOMAIN roots : i = items[k].root
    BY DEF WInv, AllSent, Progress
  <2>6. PICK r \in RootAt(i) : TRUE
    BY <1>1, <2>1 DEF Kept
  <2>2. PICK asked : Fits(i, r, {}, Lost(i), asked) /\ Sent(i, asked, {}, items)
    BY <1>1, <2>1, <2>6 DEF Kept
  <2>3. PICK e : e = EntryOf(items[k]) /\ e \in asked
    BY <2>1, <2>2 DEF Sent
  <2>4. CASE e \in AskedFor(i, r)
    <3>1. AskedFor(i, r) \subseteq AskedUnder(i, r, {"file", "link", "other"})
      BY DEF AskedFor, AskedUnder, Archived
    <3> QED BY <2>2, <2>3, <2>4, <3>1 DEF Asked
  <2>5. CASE Raw /\ r \in Lost(i) /\ e = RootEntry(i, r)
    <3>1. PICK u \in unread : u.root = i /\ u.path = r
      BY <2>5 DEF Lost
    <3>2. e = [root |-> u.root, path |-> u.path, name |-> Prefix(ask.given[u.root])]
      BY <2>5, <3>1 DEF RootEntry, NameOf
    <3> QED BY <2>3, <2>5, <3>1, <3>2 DEF TakenForFile
  <2> QED BY <2>2, <2>3, <2>4, <2>5 DEF Fits
<1>3. ASSUME NEW e \in Asked({"file"})
      PROVE  Unread(e) \/ \E k \in DOMAIN items : EntryOf(items[k]) = e
  <2>1. PICK i \in DOMAIN roots : e \in UNION {AskedUnder(i, r, {"file"}) : r \in RootAt(i)}
    BY DEF Asked
  <2>2. PICK r \in RootAt(i) : e \in AskedUnder(i, r, {"file"})
    BY <2>1
  <2>3. e \in AskedFor(i, r) /\ e.root = i
    BY <2>2 DEF AskedFor, AskedUnder, Archived
  <2>4. PICK asked : Fits(i, r, {}, Lost(i), asked) /\ Sent(i, asked, {}, items)
    BY <1>1 DEF Kept
  <2>5. CASE e \in asked
    BY <2>4, <2>5 DEF Sent, Above
  <2>6. CASE \E p \in Lost(i) : IsPrefix(p, e.path)
    <3>1. PICK u \in unread : u.root = i /\ IsPrefix(u.path, e.path)
      BY <2>6 DEF Lost
    <3> QED BY <2>3, <3>1 DEF Unread
  <2> QED BY <2>3, <2>4, <2>5, <2>6 DEF Fits
<1> QED BY <1>2, <1>3

(* A walk that succeeds has listed once, under each root, every file there   *)
(* that no glob excludes but what it could not read, and nothing that was not*)
(* asked for but an unread raw root (walk_stream, walk_stream_bulk, raw      *)
(* walk_root and walk_dir).                                                  *)
THEOREM ListedIsAsked == WalkSpec => []ListsWhatWasAsked
<1>1. IInv /\ WInv => ListsWhatWasAsked
  <2> DEFINE sent == {[root |-> x.root, path |-> x.path, name |-> x.name] : x \in ToSet(items)}
  <2>1. SUFFICES ASSUME WInv, listing = "listed"
                 PROVE  /\ sent \subseteq Asked({"file", "link", "other"}) \cup TakenForFile
                        /\ \A x \in Asked({"file"}) : x \in sent \/ Unread(x)
                        /\ Once(items)
                        /\ \A u \in unread : run.walker = "vfs" \/ (Raw /\ u.path \in RootAt(u.root))
                        /\ Raw \/ \A i \in DOMAIN roots : RootAt(i) # {}
    BY DEF ListsWhatWasAsked, Once
  <2>2. \A e : e \in sent <=> \E k \in DOMAIN items : EntryOf(items[k]) = e
    BY DEF ToSet, EntryOf
  <2>3. sent \subseteq Asked({"file", "link", "other"}) \cup TakenForFile
    BY <2>1, <2>2, AllIsSent
  <2>4. \A x \in Asked({"file"}) : x \in sent \/ Unread(x)
    BY <2>1, <2>2, AllIsSent
  <2>5. /\ Once(items)
        /\ \A u \in unread : run.walker = "vfs" \/ (Raw /\ u.path \in RootAt(u.root))
    BY <2>1 DEF WInv, Progress, Excused
  <2>6. Raw \/ \A i \in DOMAIN roots : RootAt(i) # {}
    BY <2>1 DEF WInv, AllSent, Progress, Kept
  <2> QED BY <2>3, <2>4, <2>5, <2>6
<1> QED BY <1>1, WalkInvariant, PTL

-----------------------------------------------------------------------------
(* The paths that names spell.                                               *)

(* A whole name, at the beginning or after a slash.                          *)
LEMMA SpelledName ==
  ASSUME NEW u \in Seq(Byte), u = <<>> \/ Last(u) = Slash, NEW n \in Name
  PROVE  Spelled(u \o n) = Append(Spelled(u), n)
<1> DEFINE Free(m) == \A k \in 1..Len(m) : m[k] # Slash
           S == {m \in Seq(Byte) : m # <<>> /\ Free(m) => Spelled(u \o m) = Append(Spelled(u), m)}
<1>1. <<>> \in S
  OBVIOUS
<1>2. ASSUME NEW m \in Seq(Byte), m \in S, NEW c \in Byte PROVE Append(m, c) \in S
  <2>1. PICK w : w = Append(m, c)
    OBVIOUS
  <2>2. w \in Seq(Byte) /\ Len(w) = Len(m) + 1 /\ w[Len(m) + 1] = c /\ \A k \in 1..Len(m) : w[k] = m[k]
    BY <2>1
  <2>3. SUFFICES ASSUME Free(w) PROVE Spelled(u \o w) = Append(Spelled(u), w)
    BY <2>1, <2>2
  <2>4. Len(m) \in Nat
    OBVIOUS
  <2>5. c # Slash /\ Free(m)
    BY <2>2, <2>3, <2>4
  <2>6. PICK names \in Seq(Seq(Byte)) : names = Spelled(u)
    BY SpelledIs
  <2>7. PICK um \in Seq(Byte) : um = u \o m
    <3>1. u \o m \in Seq(Byte)
      OBVIOUS
    <3> QED BY <3>1
  <2>8. u \o w = Append(um, c)
    BY <2>1, <2>7, ConcatAppend
  <2>9. Spelled(u \o w) = IF um = <<>> \/ Last(um) = Slash THEN Append(Spelled(um), <<c>>)
                          ELSE Append(Front(Spelled(um)), Append(Last(Spelled(um)), c))
    BY <2>5, <2>8, SpelledFurther
  <2>10. CASE m = <<>>
    <3>1. um = u /\ w = <<c>>
      BY <2>1, <2>7, <2>10
    <3> QED BY <2>9, <3>1
  <2>11. CASE m # <<>>
    <3>1. PICK f \in Seq(Byte), l \in Byte : m = Append(f, l) /\ l = Last(m)
      BY <2>11, FrontAndLast
    <3>2. PICK uf \in Seq(Byte) : uf = u \o f
      <4>1. u \o f \in Seq(Byte)
        OBVIOUS
      <4> QED BY <4>1
    <3>3. um = Append(uf, l)
      BY <2>7, <3>1, <3>2, ConcatAppend
    <3>4. um # <<>> /\ Last(um) = l
      BY <3>3, FrontOfAppend
    <3>5. l # Slash
      BY <2>4, <2>5, <2>11, <3>1 DEF Last
    <3>6. Spelled(um) = Append(names, m)
      BY <1>2, <2>5, <2>6, <2>7, <2>11
    <3>7. Front(Append(names, m)) = names /\ Last(Append(names, m)) = m
      BY FrontOfAppend
    <3> QED BY <2>1, <2>6, <2>9, <3>4, <3>5, <3>6, <3>7
  <2> QED BY <2>10, <2>11
<1>3. \A m \in Seq(Byte) : m \in S
  <2> HIDE DEF S
  <2> QED BY <1>1, <1>2, SeqInduct
<1>4. n \in Seq(Byte) /\ n # <<>> /\ Free(n)
  BY NameIs
<1> QED BY <1>3, <1>4

(* Where it is joined to what there is.                                      *)
LEMMA SpelledJoin ==
  ASSUME NEW x \in Seq(Byte), NEW n \in Name
  PROVE  Spelled(Join(x, n)) = Append(Spelled(x), n)
<1>1. n \in Seq(Byte)
  BY NameIs
<1>2. CASE x = <<>>
  <2>1. Join(x, n) = n /\ x \o n = n
    BY <1>1, <1>2, JoinIs
  <2> QED BY <1>2, <2>1, SpelledName
<1>3. CASE x # <<>>
  <2>1. PICK b \in Byte : b = Slash
    BY DEF Byte, Slash
  <2>2. PICK u \in Seq(Byte) : u = Append(x, b) /\ Last(u) = b
    BY FrontOfAppend
  <2>3. Spelled(u) = Spelled(x)
    BY <2>1, <2>2, SpelledFurther
  <2>4. Join(x, n) = u \o n
    <3>1. u = x \o <<b>>
      BY <2>2
    <3>2. Join(x, n) = x \o <<Slash>> \o n
      BY <1>1, <1>3, JoinIs
    <3> QED BY <2>1, <3>1, <3>2
  <2>5. Spelled(u \o n) = Append(Spelled(u), n)
    BY <2>1, <2>2, SpelledName
  <2> QED BY <2>3, <2>4, <2>5
<1> QED BY <1>2, <1>3

(* The names of a path come out again.                                       *)
Utf8(names) == \A k \in 1..Len(names) : ToSet(names[k]) \cap NotUtf8 = {}

Joined(base, names) == IF names = <<>> THEN base ELSE Join(base, PathText(names))

(* The text of a path under a base, name by name.                            *)
LEMMA JoinedFurther ==
  ASSUME NEW base \in Seq(Byte), NEW s \in Path, NEW n \in Name
  PROVE  /\ Joined(base, s) \in Seq(Byte)
         /\ Joined(base, Append(s, n)) = Join(Joined(base, s), Lossy(n))
<1>1. n \in Seq(Byte) /\ n # <<>>
  BY NameIs
<1>2. PICK l \in Seq(Byte) : l = Lossy(n)
  BY <1>1, LossyIs
<1>3. PICK p \in Seq(Byte) : p = PathText(s) /\ (s # <<>> => p # <<>>) /\ PathText(Append(s, n)) = Join(p, l)
  BY <1>2, TextOfPath
<1>4. Append(s, n) # <<>>
  BY FrontOfAppend DEF Path
<1>5. CASE s = <<>>
  <2>1. p = <<>>
    BY <1>3, <1>5, TextOfPath
  <2>2. Join(p, l) = l
    BY <2>1, JoinIs
  <2> QED BY <1>2, <1>3, <1>4, <1>5, <2>2 DEF Joined
<1>6. CASE s # <<>>
  <2>1. p # <<>>
    BY <1>3, <1>6
  <2>2. Join(Join(base, p), l) = Join(base, Join(p, l)) /\ Join(base, p) \in Seq(Byte)
    BY <2>1, JoinIs, JoinJoin
  <2> QED BY <1>2, <1>3, <1>4, <1>6, <2>2 DEF Joined
<1> QED BY <1>5, <1>6

(* The names of a path under a base come out after those of the base.        *)
LEMMA SpelledJoined ==
  ASSUME NEW base \in Seq(Byte), NEW names \in Path, Utf8(names)
  PROVE  Spelled(Joined(base, names)) = Spelled(base) \o names
<1>1. PICK B \in Seq(Seq(Byte)) : B = Spelled(base)
  BY SpelledIs
<1> DEFINE S == {s \in Path : Utf8(s) => Spelled(Joined(base, s)) = B \o s}
<1>2. <<>> \in S
  <2>1. <<>> \in Path /\ B \o <<>> = B
    BY DEF Path
  <2> QED BY <1>1, <2>1 DEF Joined
<1>3. ASSUME NEW s \in Path, s \in S, NEW n \in Name PROVE Append(s, n) \in S
  <2>1. PICK t \in Path : t = Append(s, n)
    BY FrontOfAppend DEF Path
  <2>2. SUFFICES ASSUME Utf8(t) PROVE Spelled(Joined(base, t)) = B \o t
    BY <2>1
  <2>3. s \in Seq(Name) /\ Len(s) \in Nat
    BY DEF Path
  <2>4. Len(t) = Len(s) + 1 /\ t[Len(s) + 1] = n /\ \A k \in 1..Len(s) : t[k] = s[k]
    BY <2>1, <2>3
  <2>5. Utf8(s) /\ ToSet(n) \cap NotUtf8 = {}
    <3>1. Utf8(s)
      BY <2>2, <2>3, <2>4 DEF Utf8
    <3>2. Len(s) + 1 \in 1..Len(t)
      BY <2>3, <2>4
    <3>3. ToSet(n) \cap NotUtf8 = {}
      BY <2>2, <2>4, <3>2 DEF Utf8
    <3> QED BY <3>1, <3>3
  <2>6. Lossy(n) = n
    BY <2>5, LossyIs, NameIs
  <2>7. PICK x \in Seq(Byte) : x = Joined(base, s) /\ Joined(base, t) = Join(x, n)
    BY <2>1, <2>6, JoinedFurther
  <2>8. Spelled(Joined(base, t)) = Append(B \o s, n)
    BY <1>3, <2>5, <2>7, SpelledJoin
  <2>9. B \o t = Append(B \o s, n)
    <3>1. s \in Seq(Seq(Byte)) /\ n \in Seq(Byte)
      <4>1. Name \subseteq Seq(Byte)
        BY DEF Name
      <4> QED BY <2>3, <4>1
    <3> QED BY <2>1, <3>1, ConcatAppend
  <2> QED BY <2>8, <2>9
<1>4. \A s \in Seq(Name) : s \in S
  <2> HIDE DEF S
  <2> QED BY <1>2, <1>3, SeqInduct DEF Path
<1> QED BY <1>1, <1>4 DEF Path

Slashes(f, text, a, b) ==
  \A n \in (a + 1)..b : f[n] = SpellStep(f[n - 1], text, n) /\ text[n] = Slash

(* Slashes around a text change nothing about its names.                     *)
LEMMA SlashesSpellNothing ==
  ASSUME NEW f, NEW text, NEW a \in Nat, NEW b \in Nat, a <= b, Slashes(f, text, a, b)
  PROVE  f[b] = f[a]
<1>1. PICK m \in Nat : m = b - a
  OBVIOUS
<1> DEFINE P == {k \in 0..m : f[a + k] = f[a]}
<1>2. 0 \in P
  <2>1. a + 0 = a /\ 0 \in 0..m
    OBVIOUS
  <2> QED BY <2>1
<1>3. ASSUME NEW k \in 1..m, k - 1 \in P PROVE k \in P
  <2>1. a + k \in (a + 1)..b /\ a + k - 1 = a + (k - 1)
    BY <1>1
  <2>2. f[a + k] = f[a + (k - 1)]
    <3>1. PICK l \in (a + 1)..b : l = a + k /\ l - 1 = a + (k - 1)
      BY <2>1
    <3>2. f[l] = SpellStep(f[l - 1], text, l) /\ text[l] = Slash
      BY DEF Slashes
    <3>3. f[l] = f[l - 1]
      BY <3>2 DEF SpellStep
    <3> QED BY <3>1, <3>3
  <2>3. k \in 0..m
    BY <1>1
  <2> QED BY <1>3, <2>2, <2>3
<1>4. \A k \in 0..m : k \in P
  <2> HIDE DEF P
  <2> QED BY <1>2, <1>3, AllUpTo
<1>5. m \in 0..m /\ a + m = b
  BY <1>1
<1> QED BY <1>4, <1>5

(* A text without the slashes around it spells the same names.               *)
LEMMA SpelledTrimmed ==
  ASSUME NEW t \in Seq(Byte)
  PROVE  Spelled(Trimmed(t, TRUE, TRUE)) = Spelled(t)
<1>1. PICK n \in Nat : n = Len(t) /\ DOMAIN t = 1..n
  OBVIOUS
<1>2. PICK kept \in SUBSET (1..n) : kept = {k \in DOMAIN t : t[k] # Slash}
  BY <1>1
<1>3. PICK f : /\ f[0] = <<>> /\ Spelled(t) = f[n]
               /\ \A k \in 1..n : f[k] = SpellStep(f[k - 1], t, k)
  BY <1>1, SpelledSpells
<1>4. \A k \in 1..n : k \notin kept => t[k] = Slash
  BY <1>1, <1>2
<1>5. CASE kept = {}
  <2>1. Trimmed(t, TRUE, TRUE) = <<>>
    BY <1>2, <1>5 DEF Trimmed
  <2>2. f[n] = f[0]
    <3>1. 0 \in Nat /\ 0 <= n /\ 0 + 1 = 1
      OBVIOUS
    <3>2. Slashes(f, t, 0, n)
      BY <1>3, <1>4, <1>5, <3>1 DEF Slashes
    <3> QED BY <3>1, <3>2, SlashesSpellNothing
  <2>3. PICK c \in Byte : c = 0
    BY DEF Byte
  <2>4. <<>> \in Seq(Byte)
    OBVIOUS
  <2> QED BY <1>3, <2>1, <2>2, <2>3, <2>4, SpelledFurther
<1>6. CASE kept # {}
  <2>1. PICK a \in 1..n, b \in 1..n : /\ a = Min(kept) /\ b = Max(kept) /\ a \in kept /\ b \in kept
                                      /\ \A k \in kept : a <= k /\ k <= b
    BY <1>2, <1>6, MinAndMax
  <2>2. a <= b
    BY <2>1
  <2>3. PICK u : u = SubSeq(t, a, b)
    OBVIOUS
  <2>4. Trimmed(t, TRUE, TRUE) = u
    BY <1>1, <1>2, <1>6, <2>1, <2>3 DEF Trimmed
  <2>5. u \in Seq(Byte) /\ Len(u) = b - a + 1 /\ \A k \in 1..(b - a + 1) : u[k] = t[a + k - 1]
    <3>1. \A k \in a..b : t[k] \in Byte
      BY <1>1, <2>1
    <3> QED BY <2>1, <2>2, <2>3, <3>1, SubSeqProperties
  <2>6. PICK g : /\ g[0] = <<>> /\ Spelled(u) = g[Len(u)]
                 /\ \A k \in 1..Len(u) : g[k] = SpellStep(g[k - 1], u, k)
    BY <2>5, SpelledSpells
  <2>7. f[a - 1] = <<>>
    <3>1. PICK c \in Nat : c = a - 1 /\ c + 1 = a /\ c < n
      BY <2>1
    <3>2. \A k \in (0 + 1)..c : k \in 1..n /\ t[k] = Slash
      <4> SUFFICES ASSUME NEW k \in 1..c PROVE k \in 1..n /\ t[k] = Slash
        OBVIOUS
      <4>1. k \in 1..n /\ k < a
        BY <2>1, <3>1
      <4>2. k \notin kept
        BY <2>1, <4>1
      <4> QED BY <1>4, <4>1, <4>2
    <3>3. Slashes(f, t, 0, c)
      BY <1>3, <3>2 DEF Slashes
    <3>4. f[c] = f[0]
      <4>1. 0 \in Nat /\ 0 <= c
        BY <3>1
      <4> QED BY <3>1, <3>3, <4>1, SlashesSpellNothing
    <3> QED BY <1>3, <3>1, <3>4
  <2>8. f[n] = f[b]
    <3>1. \A k \in (b + 1)..n : k \in 1..n /\ t[k] = Slash
      <4> SUFFICES ASSUME NEW k \in (b + 1)..n PROVE k \in 1..n /\ t[k] = Slash
        OBVIOUS
      <4>1. k \in 1..n /\ b < k
        BY <2>1
      <4>2. k \notin kept
        BY <2>1, <4>1
      <4> QED BY <1>4, <4>1, <4>2
    <3>2. b \in Nat /\ b <= n
      BY <2>1
    <3>3. Slashes(f, t, b, n)
      BY <1>3, <3>1 DEF Slashes
    <3> QED BY <1>1, <3>2, <3>3, SlashesSpellNothing
  <2>9. PICK m \in Nat : m = b - a + 1 /\ a - 1 + m = b /\ Len(u) = m
    BY <2>1, <2>2, <2>5
  <2>10. \A k \in 0..m : f[a - 1 + k] = g[k]
    <3> DEFINE P == {k \in 0..m : f[a - 1 + k] = g[k]}
    <3>0. a \in Int /\ b \in Int /\ 1 <= a /\ b <= n
      BY <2>1
    <3>1. 0 \in P
      <4>1. a - 1 + 0 = a - 1 /\ 0 \in 0..m
        BY <2>1
      <4> QED BY <2>6, <2>7, <4>1
    <3>2. ASSUME NEW k \in 1..m, k - 1 \in P PROVE k \in P
      <4>1. PICK l \in 1..n : l = a - 1 + k /\ l = a + k - 1 /\ l - 1 = a - 1 + (k - 1)
        <5>1. a - 1 + k \in 1..n
          BY <1>1, <2>9, <3>0
        <5>2. a - 1 + k = a + k - 1 /\ a - 1 + k - 1 = a - 1 + (k - 1)
          BY <3>0
        <5> QED BY <5>1, <5>2
      <4>2. f[l] = SpellStep(f[l - 1], t, l) /\ g[k] = SpellStep(g[k - 1], u, k)
        BY <1>3, <2>6, <2>9
      <4>3. f[l - 1] = g[k - 1]
        BY <3>2, <4>1
      <4>4. u[k] = t[l]
        BY <2>5, <2>9, <4>1
      <4>5. CASE k = 1
        <5>1. l = a /\ t[l] # Slash
          BY <1>2, <2>1, <4>1, <4>5
        <5>2. l = 1 \/ t[l - 1] = Slash
          <6>1. CASE l # 1
            <7>1. l - 1 \in 1..n /\ l - 1 < a
              BY <4>1, <5>1, <6>1
            <7>2. l - 1 \notin kept
              BY <2>1, <7>1
            <7> QED BY <1>4, <7>1, <7>2
          <6> QED BY <6>1
        <5>3. f[l] = g[k]
          BY <4>2, <4>3, <4>4, <4>5, <5>2 DEF SpellStep
        <5> QED BY <4>1, <5>3
      <4>6. CASE k # 1
        <5>1. k - 1 \in 1..m /\ l # 1 /\ a + (k - 1) - 1 = l - 1
          BY <2>1, <4>1, <4>6
        <5>2. u[k - 1] = t[l - 1]
          BY <2>5, <2>9, <5>1
        <5>3. f[l] = g[k]
          BY <4>2, <4>3, <4>4, <4>6, <5>1, <5>2 DEF SpellStep
        <5> QED BY <4>1, <5>3
      <4> QED BY <4>5, <4>6
    <3>3. \A k \in 0..m : k \in P
      <4> HIDE DEF P
      <4> QED BY <3>1, <3>2, AllUpTo
    <3> QED BY <3>3
  <2>11. f[b] = g[m]
    <3>1. m \in 0..m
      OBVIOUS
    <3> QED BY <2>9, <2>10, <3>1
  <2> QED BY <1>3, <2>4, <2>6, <2>8, <2>9, <2>11
<1> QED BY <1>5, <1>6

(* Names are UTF-8 if the last one and those before it are.                  *)
LEMMA Utf8Further ==
  ASSUME NEW names \in Seq(Seq(Byte)), NEW n \in Seq(Byte)
  PROVE  Utf8(Append(names, n)) <=> Utf8(names) /\ ToSet(n) \cap NotUtf8 = {}
<1>1. PICK t : t = Append(names, n)
  OBVIOUS
<1>2. PICK m \in Nat : m = Len(names)
  OBVIOUS
<1>3. Len(t) = m + 1 /\ t[m + 1] = n /\ \A k \in 1..m : t[k] = names[k]
  BY <1>1, <1>2
<1>4. m + 1 \in 1..(m + 1) /\ \A k \in 1..m : k \in 1..(m + 1)
  OBVIOUS
<1>5. \A k \in 1..(m + 1) : k = m + 1 \/ k \in 1..m
  OBVIOUS
<1> QED BY <1>1, <1>2, <1>3, <1>4, <1>5 DEF Utf8

-----------------------------------------------------------------------------
(* Names that tell files apart.                                              *)

(* A text with no backslash that does not begin with a slash stays as it is. *)
NoByte(names, byte) == \A k \in 1..Len(names) : byte \notin ToSet(names[k])

Plain(t) == (t # <<>> => t[1] # Slash) /\ \A k \in 1..Len(t) : t[k] # Backslash

(* Plain texts are joined to a plain text.                                   *)
LEMMA PlainJoin ==
  ASSUME NEW p \in Seq(Byte), NEW n \in Seq(Byte), n # <<>>, Plain(p), Plain(n)
  PROVE  Plain(Join(p, n))
<1>1. CASE p = <<>>
  BY <1>1, JoinIs
<1>2. CASE p # <<>>
  <2>1. PICK b \in Byte : b = Slash
    BY DEF Byte, Slash
  <2>2. PICK u \in Seq(Byte) : /\ u = Append(p, b) /\ Len(u) = Len(p) + 1 /\ u[Len(p) + 1] = b
                               /\ \A k \in 1..Len(p) : u[k] = p[k]
    <3>1. PICK u : u = Append(p, b)
      OBVIOUS
    <3>2. u \in Seq(Byte)
      BY <3>1
    <3>3. Len(u) = Len(p) + 1 /\ u[Len(p) + 1] = b /\ \A k \in 1..Len(p) : u[k] = p[k]
      BY <3>1
    <3> QED BY <3>1, <3>2, <3>3
  <2>3. PICK t \in Seq(Byte) : t = u \o n
    <3>1. u \o n \in Seq(Byte)
      OBVIOUS
    <3> QED BY <3>1
  <2>4. Join(p, n) = t
    <3>1. u = p \o <<b>>
      BY <2>2
    <3>2. Join(p, n) = p \o <<Slash>> \o n
      BY <1>2, JoinIs
    <3> QED BY <2>1, <2>3, <3>1, <3>2
  <2>5. /\ Len(t) = Len(u) + Len(n) /\ \A k \in 1..Len(u) : t[k] = u[k]
        /\ \A k \in 1..Len(n) : t[Len(u) + k] = n[k]
    BY <2>3
  <2>6. Len(p) \in Nat /\ Len(n) \in Nat /\ Len(u) \in Nat /\ Len(p) # 0
    BY <1>2
  <2>7. b # Backslash
    BY <2>1, SMT DEF Slash, Backslash
  <2>8. \A k \in 1..Len(u) : u[k] # Backslash
    BY <2>2, <2>6, <2>7 DEF Plain
  <2>9. t[1] # Slash
    <3>1. 1 \in 1..Len(p) /\ 1 \in 1..Len(u)
      BY <2>2, <2>6
    <3>2. t[1] = p[1]
      BY <2>2, <2>5, <3>1
    <3> QED BY <1>2, <3>2 DEF Plain
  <2>10. ASSUME NEW k \in 1..Len(t) PROVE t[k] # Backslash
    <3>1. CASE k \in 1..Len(u)
      BY <2>5, <2>8, <3>1
    <3>2. CASE k \notin 1..Len(u)
      <4>1. PICK l \in 1..Len(n) : k = Len(u) + l
        <5>1. k - Len(u) \in 1..Len(n) /\ k = Len(u) + (k - Len(u))
          BY <2>5, <2>6, <3>2
        <5> QED BY <5>1
      <4> QED BY <2>5, <4>1 DEF Plain
    <3> QED BY <3>1, <3>2
  <2> QED BY <2>4, <2>9, <2>10 DEF Plain
<1> QED BY <1>1, <1>2

(* What holds of the names of a longer path holds of those of the shorter    *)
(* one.                                                                      *)
LEMMA AppendUtf8 ==
  ASSUME NEW s \in Path, NEW n \in Name
  PROVE  /\ Utf8(Append(s, n)) => Utf8(s) /\ ToSet(n) \cap NotUtf8 = {}
         /\ \A b : NoByte(Append(s, n), b) => NoByte(s, b) /\ b \notin ToSet(n)
<1>1. PICK t : t = Append(s, n)
  OBVIOUS
<1>2. s \in Seq(Name) /\ Len(s) \in Nat
  BY DEF Path
<1>3. Len(t) = Len(s) + 1 /\ t[Len(s) + 1] = n /\ \A k \in 1..Len(s) : t[k] = s[k]
  BY <1>1, <1>2
<1>4. Len(s) + 1 \in 1..Len(t) /\ \A k \in 1..Len(s) : k \in 1..Len(t)
  BY <1>2, <1>3
<1>5. Utf8(t) => Utf8(s) /\ ToSet(n) \cap NotUtf8 = {}
  BY <1>3, <1>4 DEF Utf8
<1>6. ASSUME NEW b, NoByte(t, b) PROVE NoByte(s, b) /\ b \notin ToSet(n)
  BY <1>3, <1>4, <1>6 DEF NoByte
<1> QED BY <1>1, <1>5, <1>6

(* The text of a path of plain names is plain.                               *)
LEMMA PathTextPlain ==
  ASSUME NEW names \in Path, Utf8(names), NoByte(names, Backslash)
  PROVE  Plain(PathText(names))
<1> DEFINE S == {s \in Path : Utf8(s) /\ NoByte(s, Backslash) => Plain(PathText(s))}
<1>1. <<>> \in S
  <2>1. <<>> \in Path
    BY DEF Path
  <2>2. PathText(<<>>) = <<>>
    BY <2>1, PathTextIs
  <2>3. Plain(<<>>)
    BY DEF Plain
  <2> QED BY <2>1, <2>2, <2>3
<1>2. ASSUME NEW s \in Path, s \in S, NEW n \in Name PROVE Append(s, n) \in S
  <2>1. Append(s, n) \in Path
    BY FrontOfAppend DEF Path
  <2>2. SUFFICES ASSUME Utf8(Append(s, n)), NoByte(Append(s, n), Backslash)
                 PROVE  Plain(PathText(Append(s, n)))
    BY <2>1
  <2>3. Utf8(s) /\ NoByte(s, Backslash) /\ ToSet(n) \cap NotUtf8 = {} /\ Backslash \notin ToSet(n)
    BY <2>2, AppendUtf8
  <2>4. n \in Seq(Byte) /\ n # <<>> /\ \A k \in 1..Len(n) : n[k] # Slash
    BY NameIs
  <2>5. Lossy(n) = n
    BY <2>3, <2>4, LossyIs
  <2>6. PICK p \in Seq(Byte) : p = PathText(s) /\ PathText(Append(s, n)) = Join(p, n)
    BY <2>5, TextOfPath
  <2>7. Plain(p)
    BY <1>2, <2>3, <2>6
  <2>8. Plain(n)
    <3>1. DOMAIN n = 1..Len(n) /\ 1 \in 1..Len(n)
      BY <2>4
    <3> QED BY <2>3, <2>4, <3>1 DEF Plain, ToSet
  <2> QED BY <2>4, <2>6, <2>7, <2>8, PlainJoin
<1>3. \A s \in Seq(Name) : s \in S
  <2> HIDE DEF S
  <2> QED BY <1>1, <1>2, SeqInduct DEF Path
<1> QED BY <1>3 DEF Path

(* So archive_name has nothing to replace or to trim.                        *)
LEMMA PlainArchiveName ==
  ASSUME NEW base, NEW names \in Path, names # <<>>, Utf8(names), NoByte(names, Backslash)
  PROVE  ArchiveName(base, names) = Joined(base, names)
<1>1. names \in Seq(Name)
  BY DEF Path
<1>2. PICK f \in Seq(Name), l \in Name : names = Append(f, l)
  BY <1>1, FrontAndLast
<1>3. f \in Path
  BY DEF Path
<1>4. PICK t \in Seq(Byte) : t = PathText(names) /\ t # <<>>
  BY <1>3, TextOfPath
<1>5. Plain(t)
  BY <1>4, PathTextPlain
<1>6. PICK u : u = [k \in DOMAIN t |-> IF t[k] = Backslash THEN Slash ELSE t[k]]
  OBVIOUS
<1>7. u = t
  <2>1. \A k \in DOMAIN t : t[k] # Backslash
    BY <1>5 DEF Plain
  <2>2. t = [k \in DOMAIN t |-> t[k]]
    OBVIOUS
  <2> QED BY <1>6, <2>1, <2>2
<1>8. Trimmed(t, TRUE, FALSE) = t
  <2>1. t[1] # Slash
    BY <1>4, <1>5 DEF Plain
  <2> QED BY <1>4, <2>1, TrimmedIs
<1>9. ArchiveName(base, names) = Join(base, Trimmed(u, TRUE, FALSE))
  BY <1>4, <1>6 DEF ArchiveName
<1> QED BY <1>4, <1>7, <1>8, <1>9 DEF Joined

(* The names of an item: those of the root as named, and those below it.     *)
LEMMA NameIsJoined ==
  ASSUME NEW i, IsRoot(ask.given[i]), NEW r \in Path, NEW p \in Path, IsPrefix(r, p), Utf8(p),
         run.walker # "vfs" \/ NoByte(p, Backslash)
  PROVE  /\ NameOf(i, r, p) = Joined(Prefix(ask.given[i]), Below(r, p))
         /\ Spelled(NameOf(i, r, p)) = Spelled(Prefix(ask.given[i])) \o Below(r, p)
<1>1. r \in Seq(Name) /\ p \in Seq(Name) /\ Len(r) \in Nat /\ Len(p) \in Nat
  BY DEF Path
<1>2. PICK b \in Path : /\ b = Below(r, p) /\ p = r \o b /\ Len(b) = Len(p) - Len(r)
                        /\ p = r => b = <<>>
  BY <1>1, BelowIs DEF Path
<1>3. p # r => b # <<>>
  <2>1. r \o <<>> = r
    BY <1>1
  <2> QED BY <1>2, <2>1
<1>4. \A k \in 1..Len(b) : Len(r) + k \in 1..Len(p) /\ b[k] = p[Len(r) + k]
  <2>1. \A k \in 1..Len(b) : (r \o b)[Len(r) + k] = b[k]
    BY <1>1 DEF Path
  <2>2. Len(b) \in Nat
    BY <1>1, <1>2 DEF Path
  <2>3. \A k \in 1..Len(b) : Len(r) + k \in 1..Len(p)
    BY <1>1, <1>2, <2>2
  <2> QED BY <1>2, <2>1, <2>3
<1>5. Utf8(b) /\ (NoByte(p, Backslash) => NoByte(b, Backslash))
  BY <1>4 DEF Utf8, NoByte
<1>6. PICK base \in Seq(Byte) : base = Prefix(ask.given[i])
  BY PrefixIsText
<1>7. NameOf(i, r, p) = Joined(base, b)
  <2>1. CASE p = r
    BY <1>2, <1>6, <2>1 DEF NameOf, Joined
  <2>2. CASE p # r /\ run.walker = "vfs"
    <3>1. ArchiveName(base, b) = Joined(base, b)
      BY <1>3, <1>5, <2>2, PlainArchiveName
    <3> QED BY <1>2, <1>6, <2>2, <3>1 DEF NameOf
  <2>3. CASE p # r /\ run.walker # "vfs"
    BY <1>2, <1>3, <1>6, <2>3 DEF NameOf, Joined
  <2> QED BY <2>1, <2>2, <2>3
<1> QED BY <1>2, <1>5, <1>6, <1>7, SpelledJoined

(* Where an item is and what it is called.                                   *)
Lies(x, r) ==
  /\ x.root \in DOMAIN roots /\ IsRoot(ask.given[x.root])
  /\ RootAt(x.root) = {r} /\ r \in Path
  /\ x.path \in Path /\ IsPrefix(r, x.path)
  /\ ~Raw => x.path \in DOMAIN TreeWalked /\ TreeWalked[x.path].kind # "link"
  /\ x.name = NameOf(x.root, r, x.path)

(* Every item lies below its root, under the name it was asked for by.       *)
LEMMA ItemLies ==
  ASSUME WInv, NEW k \in DOMAIN items
  PROVE  listing # "none" /\ Setting /\ \E r : Lies(items[k], r)
<1>1. listing # "none"
  BY DEF WInv, Timed
<1>2. Setting /\ Progress
  BY DEF WInv
<1>3. PICK i : i = items[k].root
  OBVIOUS
<1>4. i \in entered /\ i \in DOMAIN roots /\ IsRoot(ask.given[i])
  BY <1>1, <1>2, <1>3 DEF Progress, Setting
<1>5. Kept(i, pending[i], items, Lost(i))
  BY <1>1, <1>2, <1>4 DEF Progress
<1>6. PICK r \in RootAt(i) : TRUE
  BY <1>3, <1>5 DEF Kept
<1>7. RootAt(i) = {r} /\ r \in Path
  BY <1>1, <1>2, <1>4, <1>6, RootIs
<1>8. PICK asked : Fits(i, r, pending[i], Lost(i), asked) /\ Sent(i, asked, pending[i], items)
  BY <1>5, <1>6 DEF Kept
<1>9. EntryOf(items[k]) \in asked
  BY <1>3, <1>8 DEF Sent
<1>10. CASE EntryOf(items[k]) \in AskedFor(i, r)
  <2>1. PICK q \in DOMAIN TreeWalked :
          /\ EntryOf(items[k]) = [root |-> i, path |-> q, name |-> NameOf(i, r, q)]
          /\ IsPrefix(r, q) /\ KindIn(TreeWalked, q) \in Archived
    BY <1>10 DEF AskedFor, AskedUnder
  <2>2. items[k].path = q /\ items[k].name = NameOf(i, r, q)
    BY <2>1 DEF EntryOf
  <2>3. q \in Path /\ q # <<>>
    BY <1>1, <1>2, TreeIsThere
  <2>4. ~Raw => TreeWalked[q].kind # "link"
    BY <2>1, <2>3 DEF KindIn, Archived
  <2> QED BY <1>1, <1>2, <1>3, <1>4, <1>7, <2>1, <2>2, <2>3, <2>4 DEF Lies
<1>11. CASE Raw /\ EntryOf(items[k]) = RootEntry(i, r)
  <2>1. items[k].path = r /\ items[k].name = NameOf(i, r, r)
    BY <1>11 DEF EntryOf, RootEntry
  <2>2. IsPrefix(r, r)
    BY <1>7, PrefixOrder DEF Path
  <2> QED BY <1>1, <1>2, <1>3, <1>4, <1>7, <1>11, <2>1, <2>2 DEF Lies
<1> QED BY <1>8, <1>9, <1>10, <1>11 DEF Fits

(* What the exceptions leave.                                                *)
Told(x) ==
  /\ Utf8(x.path) /\ ToSet(ask.given[x.root].text) \cap NotUtf8 = {}
  /\ run.walker # "vfs" \/ NoByte(x.path, Backslash)

(* The exceptions of NamesAreDistinct are all that has to be excluded.       *)
LEMMA Exceptions ==
  ASSUME NEW x, x.path \in Path, ask.given[x.root].text \in Seq(Byte),
         ~SomeByte(Append(x.path, ask.given[x.root].text), NotUtf8),
         run.walker # "vfs" \/ ~SomeByte(x.path, {Backslash})
  PROVE  Told(x)
<1>1. PICK p \in Seq(Name) : p = x.path
  BY DEF Path
<1>2. PICK t : t = ask.given[x.root].text
  OBVIOUS
<1>3. PICK n \in Nat : n = Len(p) /\ DOMAIN p = 1..n
  OBVIOUS
<1>4. PICK a : a = Append(p, t)
  OBVIOUS
<1>5. DOMAIN a = 1..(n + 1) /\ a[n + 1] = t /\ \A k \in 1..n : a[k] = p[k]
  BY <1>3, <1>4
<1>6. \A k \in 1..(n + 1) : ToSet(a[k]) \cap NotUtf8 = {}
  BY <1>1, <1>2, <1>4, <1>5 DEF SomeByte
<1>7. n + 1 \in 1..(n + 1) /\ \A k \in 1..n : k \in 1..(n + 1)
  OBVIOUS
<1>8. Utf8(p) /\ ToSet(t) \cap NotUtf8 = {}
  BY <1>3, <1>5, <1>6, <1>7 DEF Utf8
<1>9. run.walker # "vfs" \/ NoByte(x.path, Backslash)
  <2>1. DOMAIN x.path = 1..Len(x.path)
    BY <1>1, <1>3
  <2>2. ~SomeByte(x.path, {Backslash}) => NoByte(x.path, Backslash)
    BY <2>1 DEF SomeByte, NoByte
  <2> QED BY <2>2
<1> QED BY <1>1, <1>2, <1>8, <1>9 DEF Told

(* The name of an item spells the names of the root as named and those below *)
(* it.                                                                       *)
LEMMA SpelledItem ==
  ASSUME NEW x, NEW r, Lies(x, r), Told(x)
  PROVE  /\ Spelled(x.name) = Spelled(Prefix(ask.given[x.root])) \o Below(r, x.path)
         /\ Spelled(Prefix(ask.given[x.root])) \in Seq(Seq(Byte))
         /\ Below(r, x.path) \in Path /\ Below(r, x.path) \in Seq(Seq(Byte))
         /\ x.path = r \o Below(r, x.path)
<1>1. PICK i, p : i = x.root /\ p = x.path
  OBVIOUS
<1>2. /\ IsRoot(ask.given[i]) /\ r \in Path /\ p \in Path /\ IsPrefix(r, p) /\ Utf8(p)
      /\ run.walker # "vfs" \/ NoByte(p, Backslash)
      /\ x.name = NameOf(i, r, p)
  BY <1>1 DEF Lies, Told
<1>3. Spelled(NameOf(i, r, p)) = Spelled(Prefix(ask.given[i])) \o Below(r, p)
  BY <1>2, NameIsJoined
<1>4. Spelled(Prefix(ask.given[i])) \in Seq(Seq(Byte))
  BY <1>2, PrefixIsText, SpelledIs
<1>5. Below(r, p) \in Path /\ p = r \o Below(r, p)
  BY <1>2, BelowIs DEF Path
<1>6. Below(r, p) \in Seq(Seq(Byte))
  <2>1. \A n \in Name : n \in Seq(Byte)
    BY NameIs
  <2> QED BY <1>5, <2>1 DEF Path
<1> QED BY <1>1, <1>2, <1>3, <1>4, <1>5, <1>6

(* The names a UTF-8 text spells are UTF-8.                                  *)
LEMMA SpelledUtf8 ==
  ASSUME NEW t \in Seq(Byte), ToSet(t) \cap NotUtf8 = {}
  PROVE  Utf8(Spelled(t))
<1> DEFINE Clean(n) == ToSet(n) \cap NotUtf8 = {}
           S == {s \in Seq(Byte) : Clean(s) => Utf8(Spelled(s))}
<1>1. <<>> \in S
  <2>1. PICK c \in Byte : c = 0
    BY DEF Byte
  <2>2. <<>> \in Seq(Byte)
    OBVIOUS
  <2>3. Spelled(<<>>) = <<>>
    BY <2>1, <2>2, SpelledFurther
  <2> QED BY <2>2, <2>3 DEF Utf8
<1>2. ASSUME NEW s \in Seq(Byte), s \in S, NEW c \in Byte PROVE Append(s, c) \in S
  <2>1. PICK u \in Seq(Byte) : u = Append(s, c)
    BY FrontOfAppend
  <2>2. SUFFICES ASSUME Clean(u) PROVE Utf8(Spelled(u))
    BY <2>1
  <2>3. Clean(s) /\ c \notin NotUtf8
    <3>1. ToSet(u) = ToSet(s) \cup {c}
      BY <2>1, SetOfAppend
    <3> QED BY <2>2, <3>1
  <2>4. PICK names \in Seq(Seq(Byte)) :
          /\ names = Spelled(s) /\ Utf8(names)
          /\ s # <<>> /\ Last(s) # Slash => names # <<>>
    BY <1>2, <2>3, SpelledIs
  <2>5. CASE c = Slash
    BY <2>1, <2>4, <2>5, SpelledFurther
  <2>6. CASE c # Slash /\ (s = <<>> \/ Last(s) = Slash)
    <3>1. PICK e \in Seq(Byte) : e = <<c>>
      <4>1. <<c>> \in Seq(Byte)
        OBVIOUS
      <4> QED BY <4>1
    <3>2. Clean(e)
      BY <2>3, <3>1 DEF ToSet
    <3>3. Spelled(u) = Append(names, e)
      BY <2>1, <2>4, <2>6, <3>1, SpelledFurther
    <3> QED BY <2>4, <3>2, <3>3, Utf8Further
  <2>7. CASE c # Slash /\ ~(s = <<>> \/ Last(s) = Slash)
    <3>0. names \in Seq(Seq(Byte)) /\ names # <<>>
      BY <2>4, <2>7
    <3>1. PICK f \in Seq(Seq(Byte)), l \in Seq(Byte) : f = Front(names) /\ l = Last(names)
      BY <3>0, FrontAndLast
    <3>2. Utf8(f) /\ Clean(l)
      <4>1. names = Append(f, l)
        BY <3>0, <3>1, FrontAndLast
      <4>2. Utf8(Append(f, l))
        BY <2>4, <4>1
      <4> QED BY <4>2, Utf8Further
    <3>3. PICK e \in Seq(Byte) : e = Append(l, c)
      BY FrontOfAppend
    <3>4. Clean(e)
      <4>1. ToSet(e) = ToSet(l) \cup {c}
        BY <3>3, SetOfAppend
      <4> QED BY <2>3, <3>2, <4>1
    <3>5. Spelled(u) = Append(f, e)
      BY <2>1, <2>4, <2>7, <3>1, <3>3, SpelledFurther
    <3> QED BY <3>2, <3>4, <3>5, Utf8Further
  <2> QED BY <2>5, <2>6, <2>7
<1>3. \A s \in Seq(Byte) : s \in S
  <2> HIDE DEF S
  <2> QED BY <1>1, <1>2, SeqInduct
<1> QED BY <1>3

(* to_string_lossy changes nothing about a path that is UTF-8.               *)
LEMMA LossyPath ==
  ASSUME NEW s \in Path, Utf8(s)
  PROVE  [k \in DOMAIN s |-> Lossy(s[k])] = s
<1>1. DOMAIN s = 1..Len(s) /\ s = [k \in DOMAIN s |-> s[k]]
  BY DEF Path
<1>2. \A k \in DOMAIN s : Lossy(s[k]) = s[k]
  <2> SUFFICES ASSUME NEW k \in DOMAIN s PROVE Lossy(s[k]) = s[k]
    OBVIOUS
  <2>1. s[k] \in Name
    BY <1>1 DEF Path
  <2>2. PICK n \in Name : n = s[k]
    BY <2>1
  <2>3. ToSet(n) \cap NotUtf8 = {}
    <3>1. k \in 1..Len(s)
      BY <1>1
    <3>2. ToSet(s[k]) \cap NotUtf8 = {}
      BY <3>1 DEF Utf8
    <3> QED BY <2>2, <3>2
  <2>4. n \in Seq(Byte)
    BY NameIs
  <2> QED BY <2>2, <2>3, <2>4, LossyIs
<1> QED BY <1>1, <1>2

(* A root that was typed whole is named whole.                               *)
LEMMA WholeRoot ==
  ASSUME NEW g, IsRoot(g), ~ask.basenameOnly, ~Relative(g), ToSet(g.text) \cap NotUtf8 = {}
  PROVE  Spelled(Prefix(g)) = g.path /\ Spelled(g.text) = g.path
<1>1. g.text \in Seq(Byte) /\ g.path = Spelled(g.text)
  BY DEF IsRoot, Relative
<1>2. Lossy(g.text) = g.text
  BY <1>1, LossyIs
<1>3. Prefix(g) = Trimmed(g.text, TRUE, TRUE)
  BY <1>2 DEF Prefix
<1> QED BY <1>1, <1>3, SpelledTrimmed

(* There a name leads to the file it is the name of.                         *)
Found(name) == IF Raw THEN {Spelled(name)} ELSE Canonical(Spelled(name))

(* Under an absolute root, named whole, the name of an item spells a path    *)
(* that leads to its file.                                                   *)
LEMMA NameLeads ==
  ASSUME Setting, listing # "none", NEW x, NEW r, Lies(x, r), Told(x), ~ask.basenameOnly,
         ~Relative(ask.given[x.root]), ~(Raw /\ Moved(ask.given[x.root]))
  PROVE  Found(x.name) = {x.path}
<1>1. PICK g : g = ask.given[x.root] /\ IsRoot(g)
  BY DEF Lies
<1>2. PICK s \in Path : s = g.path
  BY <1>1 DEF IsRoot
<1>3. Spelled(Prefix(g)) = s /\ Spelled(g.text) = s
  BY <1>1, <1>2, WholeRoot DEF Told
<1>4. PICK b \in Path : b = Below(r, x.path) /\ x.path = r \o b /\ Spelled(x.name) = s \o b
  BY <1>1, <1>3, SpelledItem
<1>5. x.root \in DOMAIN roots /\ r \in Path /\ RootAt(x.root) = {r}
  BY DEF Lies
<1>6. CASE ~Raw
  <2>1. Canonical(s) = {r}
    BY <1>1, <1>2, <1>5, <1>6, RootIs
  <2>2. IsTree(host.tree)
    BY DEF Setting
  <2>3. r \o b \in DOMAIN host.tree /\ host.tree[r \o b].kind # "link"
    BY <1>4, <1>6 DEF Lies, TreeWalked
  <2>4. Canonical(s \o b) = {r \o b}
    BY <1>5, <2>1, <2>2, <2>3, CanonicalBelow
  <2> QED BY <1>4, <1>6, <2>4 DEF Found
<1>7. CASE Raw
  <2>1. Canonical(s) \in {{}, {s}}
    BY <1>1, <1>2, <1>7 DEF Moved
  <2>2. RootOnVolume(g) = {s}
    <3>1. (IF Canonical(g.path) = {} THEN {Spelled(g.text)} ELSE Canonical(g.path)) = {s}
      BY <1>2, <1>3, <2>1
    <3>2. Utf8(s)
      BY <1>1, <1>3, SpelledUtf8 DEF IsRoot, Told
    <3>3. [k \in DOMAIN s |-> Lossy(s[k])] = s
      BY <3>2, LossyPath
    <3> QED BY <3>1, <3>3 DEF RootOnVolume
  <2>3. r = s
    BY <1>1, <1>5, <1>7, <2>2 DEF RootAt
  <2> QED BY <1>4, <1>7, <2>3 DEF Found
<1> QED BY <1>6, <1>7

(* Two entries of an archive have one name only if they are one file under   *)
(* two roots, or for one of the reasons NamesAreDistinct lists               *)
(* (archive_prefix_for_root, archive_name, and the prefixes walk_recursive   *)
(* and walk_dir carry).                                                      *)
THEOREM NamesTellFilesApart == WalkSpec => []NamesAreDistinct
<1>1. IInv /\ WInv => NamesAreDistinct
  <2>1. SUFFICES ASSUME WInv, NEW j \in DOMAIN items, NEW k \in DOMAIN items,
                        items[j].name = items[k].name,
                        ~\E x \in {items[j], items[k]} :
                           SomeByte(Append(x.path, ask.given[x.root].text), NotUtf8),
                        ~(run.walker = "vfs" /\ \E x \in {items[j], items[k]} :
                                                  SomeByte(x.path, {Backslash})),
                        ~(/\ items[j].root # items[k].root
                          /\ \/ ask.basenameOnly
                             \/ \E x \in {items[j], items[k]} :
                                  Relative(ask.given[x.root]) \/ (Raw /\ Moved(ask.given[x.root])))
                 PROVE  items[j].path = items[k].path
    BY DEF NamesAreDistinct
  <2>2. PICK x, y : x = items[j] /\ y = items[k]
    OBVIOUS
  <2>3. listing # "none" /\ Setting
    BY <2>1, ItemLies
  <2>4. PICK r : Lies(x, r)
    BY <2>1, <2>2, ItemLies
  <2>5. PICK s : Lies(y, s)
    BY <2>1, <2>2, ItemLies
  <2>6. Told(x) /\ Told(y)
    <3>1. x.path \in Path /\ ask.given[x.root].text \in Seq(Byte)
      BY <2>4 DEF Lies, IsRoot
    <3>2. y.path \in Path /\ ask.given[y.root].text \in Seq(Byte)
      BY <2>5 DEF Lies, IsRoot
    <3>3. ~SomeByte(Append(x.path, ask.given[x.root].text), NotUtf8)
      BY <2>1, <2>2
    <3>4. ~SomeByte(Append(y.path, ask.given[y.root].text), NotUtf8)
      BY <2>1, <2>2
    <3>5. /\ run.walker # "vfs" \/ ~SomeByte(x.path, {Backslash})
          /\ run.walker # "vfs" \/ ~SomeByte(y.path, {Backslash})
      BY <2>1, <2>2
    <3>6. Told(x)
      BY <3>1, <3>3, <3>5, Exceptions
    <3>7. Told(y)
      BY <3>2, <3>4, <3>5, Exceptions
    <3> QED BY <3>6, <3>7
  <2>7. x.name = y.name
    BY <2>1, <2>2
  <2>8. CASE x.root = y.root
    <3>1. r = s
      BY <2>4, <2>5, <2>8 DEF Lies
    <3>2. PICK B \in Seq(Seq(Byte)) : B = Spelled(Prefix(ask.given[x.root]))
      BY <2>4, <2>6, SpelledItem
    <3>3. PICK b \in Seq(Seq(Byte)) : x.path = r \o b /\ Spelled(x.name) = B \o b
      BY <2>4, <2>6, <3>2, SpelledItem
    <3>4. PICK c \in Seq(Seq(Byte)) : y.path = r \o c /\ Spelled(y.name) = B \o c
      BY <2>5, <2>6, <2>8, <3>1, <3>2, SpelledItem
    <3>5. b = c
      BY <2>7, <3>3, <3>4, ConcatCancels
    <3> QED BY <2>2, <3>3, <3>4, <3>5
  <2>9. CASE x.root # y.root
    <3>1. /\ ~ask.basenameOnly
          /\ ~Relative(ask.given[x.root]) /\ ~(Raw /\ Moved(ask.given[x.root]))
          /\ ~Relative(ask.given[y.root]) /\ ~(Raw /\ Moved(ask.given[y.root]))
      BY <2>1, <2>2, <2>9
    <3>2. Found(x.name) = {x.path}
      BY <2>3, <2>4, <2>6, <3>1, NameLeads
    <3>3. Found(y.name) = {y.path}
      BY <2>3, <2>5, <2>6, <3>1, NameLeads
    <3> QED BY <2>2, <2>7, <3>2, <3>3
  <2> QED BY <2>8, <2>9
<1> QED BY <1>1, WalkInvariant, PTL
=============================================================================
