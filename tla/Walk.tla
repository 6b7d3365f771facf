--------------------------------- MODULE Walk ---------------------------------
(* The walk of a run that Startup has set going: walker.rs `walk_stream` (the *)
(* "vfs" walker), bulk_walker.rs `walk_stream_bulk` and raw_apfs.rs           *)
(* `walk_root` and `walk_dir`, each of which names the files for the archive  *)
(* in its own way.                                                            *)
(*                                                                            *)
(* A name or an archive name is a sequence of bytes, a path the sequence of   *)
(* its names.  A tree is a function on the paths below "/".  A directory is   *)
(* listed in one step: what becomes of a walk whose items nobody receives is  *)
(* in Pipeline, what its reads go through in RawCatalog.                      *)
EXTENDS Startup, Ordered

CONSTANTS
  Volumes, \* trees a device may hold
  Cases,   \* per number of roots: [host, ask], an ask being a record
           \* [given, exclude, basenameOnly]
  MaxUnread \* bound on the directories passed over unread

VARIABLES
  host,     \* where the program runs: [tree, time], the time that of every file
  volume,   \* the tree of the raw source
  ask,      \* the roots as typed, --exclude, --basename-only
  entered,  \* roots the walk has come to
  pending,  \* per root: directories to be listed, [path, prefix]
  items,    \* WorkItems sent: [root, path, name, mtime]
  unread,   \* what the walk passed over, as it could not read it: [root, path]
  listing   \* "none", "walking", "listed", "failed"

walk == <<host, volume, ask, entered, pending, items, unread, listing>>
walkVars == <<vars, walk>>

Slash == 47
Backslash == 92
Star == 42
Question == 63
Dot == 46
Replacement == 239    \* what stands for bytes that are not UTF-8
NotUtf8 == {254, 255}

NoTree == <<>>
WalkInit ==
  /\ Init
  /\ host = [tree |-> NoTree, time |-> [day |-> 0, sec |-> 0]]
  /\ volume = NoTree
  /\ ask = [given |-> <<>>, exclude |-> {}, basenameOnly |-> FALSE]
  /\ entered = {} /\ pending = <<>> /\ items = <<>> /\ unread = {}
  /\ listing = "none"

-----------------------------------------------------------------------------
(* Defects for the pairs in PROJECT.json.                                     *)

(* The separator comes also after an empty prefix.                            *)
AlwaysJoined(prefix, name) == prefix \o <<Slash>> \o name

(* A subdirectory's prefix is its own name only.                              *)
NameAlone(prefix, name) == name

(* Every fourth year is a leap year.                                          *)
JulianYear(doe) == (4 * doe + 3) \div 1461

-----------------------------------------------------------------------------
(* Times: `unix_to_dos`, of a day and a second of it.                         *)

Epoch == [date |-> 33, time |-> 0]    \* 1980-01-01 00:00

YearOfEra(doe) == (doe - doe \div 1460 + doe \div 36524 - doe \div 146096) \div 365

CivilFromDays(days) ==
  LET z == days + 719468
      era == z \div 146097
      doe == z - era * 146097
      yoe == YearOfEra(doe)
      doy == doe - (365 * yoe + yoe \div 4 - yoe \div 100)
      mp == (5 * doy + 2) \div 153
      m == IF mp < 10 THEN mp + 3 ELSE mp - 9
  IN  [y |-> yoe + era * 400 + IF m <= 2 THEN 1 ELSE 0, m |-> m,
       d |-> doy - (153 * mp + 2) \div 5 + 1]

DosTime(t) ==
  LET at == IF t.day < 0 THEN [day |-> 0, sec |-> 0] ELSE t
      c == CivilFromDays(at.day)
  IN  IF c.y < 1980 THEN Epoch
      ELSE [date |-> ((c.y - 1980) * 512 + c.m * 32 + c.d) % 65536,
            time |-> (at.sec \div 3600) * 2048 + ((at.sec \div 60) % 60) * 32
                       + (at.sec % 60) \div 2]

-----------------------------------------------------------------------------
(* Names.                                                                     *)

(* to_string_lossy.                                                           *)
Lossy(name) == [k \in DOMAIN name |-> IF name[k] \in NotUtf8 THEN Replacement ELSE name[k]]

Trimmed(s, front, back) ==
  LET kept == {k \in DOMAIN s : s[k] # Slash}
      first == IF front THEN Min(kept) ELSE 1
      last == IF back THEN Max(kept) ELSE Len(s)
  IN  IF kept = {} THEN <<>> ELSE SubSeq(s, first, last)

Join(prefix, name) == IF prefix = <<>> THEN name ELSE prefix \o <<Slash>> \o name

(* The prefix of a subdirectory, in the walkers that carry one.               *)
ChildPrefix(prefix, name) == Join(prefix, name)

(* archive_name: the path below the root, every backslash a slash.            *)
PathText(names) ==
  LET text[n \in 0..Len(names)] ==
        IF n = 0 THEN <<>> ELSE Join(text[n - 1], Lossy(names[n]))
  IN  text[Len(names)]
ArchiveName(base, names) ==
  LET text == PathText(names) IN
  Join(base, Trimmed([k \in DOMAIN text |-> IF text[k] = Backslash THEN Slash ELSE text[k]],
                     TRUE, FALSE))

(* The names a text has between its slashes.                                  *)
Spelled(text) ==
  LET names[n \in 0..Len(text)] ==
        IF n = 0 THEN <<>>
        ELSE IF text[n] = Slash THEN names[n - 1]
        ELSE IF n = 1 \/ text[n - 1] = Slash THEN Append(names[n - 1], <<text[n]>>)
        ELSE Append(Front(names[n - 1]), Append(Last(names[n - 1]), text[n]))
  IN  names[Len(text)]

(* archive_prefix_for_root: the root as typed, or its file_name if it has one *)
(* (".." has none, and a "." after a name is no part of the path).            *)
Prefix(r) ==
  LET names == Spelled(r.text)
      kept == {k \in DOMAIN names : names[k] # <<Dot>>}
  IN  IF ~ask.basenameOnly THEN Trimmed(Lossy(r.text), TRUE, TRUE)
      ELSE IF kept = {} \/ names[Max(kept)] = <<Dot, Dot>> THEN <<>>
      ELSE Lossy(names[Max(kept)])

(* glob_match, of the rest of the pattern from p and of the text from t.      *)
GlobMatch(pattern, text) ==
  LET m[p \in 1..(Len(pattern) + 1), t \in 1..(Len(text) + 1)] ==
        IF p > Len(pattern) THEN t > Len(text)
        ELSE IF pattern[p] = Star THEN m[p + 1, t] \/ (t <= Len(text) /\ m[p, t + 1])
        ELSE t <= Len(text) /\ pattern[p] \in {Question, text[t]} /\ m[p + 1, t + 1]
  IN  m[1, 1]

IsExcluded(name) == \E g \in ask.exclude : GlobMatch(g, name)

-----------------------------------------------------------------------------
(* What is there under a name, if something is: a link is its target.         *)
Entry(tree, p) ==
  IF p \notin DOMAIN tree THEN {} ELSE IF tree[p].kind = "link" THEN {tree[p].to} ELSE {p}

(* canonicalize: where a path leads on the host; nowhere if it does not exist.*)
Canonical(path) ==
  LET at[n \in 0..Len(path)] ==
        IF n = 0 THEN {<<>>}
        ELSE UNION {Entry(host.tree, Append(dir, path[n])) : dir \in at[n - 1]}
  IN  at[Len(path)]

KindIn(tree, p) == IF p = <<>> THEN "dir" ELSE tree[p].kind
Children(tree, dir) == {p \in DOMAIN tree : p # <<>> /\ Front(p) = dir}

(* What a file system and a command line can hold.  A link is modelled by what*)
(* it leads to in the end; an absolute root has no "." or "..".               *)
Byte == 0..255
Name == {n \in Seq(Byte) : n # <<>> /\ Slash \notin ToSet(n)}
Path == Seq(Name)

IsTree(tree) ==
  /\ IsFiniteSet(DOMAIN tree)
  /\ \A p \in DOMAIN tree :
       /\ p \in Path /\ p # <<>> /\ tree[p].kind \in {"file", "dir", "link", "other"}
       /\ Front(p) # <<>> => Front(p) \in DOMAIN tree /\ tree[Front(p)].kind = "dir"
       /\ tree[p].kind = "link" /\ tree[p].to # <<>> =>
            tree[p].to \in DOMAIN tree /\ tree[tree[p].to].kind # "link"

IsRoot(r) ==
  /\ r.text \in Seq(Byte) /\ r.text # <<>> /\ r.path \in Path
  /\ Head(r.text) = Slash => r.path = Spelled(r.text)

ASSUME WalkAssumption ==
  /\ MaxRoots > 0
  /\ \A tree \in Volumes : IsTree(tree)
  /\ \A n \in 1..MaxRoots : \A case \in Cases[n] :
       /\ IsTree(case.host.tree)
       /\ case.host.time.day \in Int
       /\ case.host.time.sec \in Nat /\ case.host.time.sec < 86400
       /\ DOMAIN case.ask.given = 1..n /\ \A i \in 1..n : IsRoot(case.ask.given[i])

Item(root, path, name, mtime) == [root |-> root, path |-> path, name |-> name, mtime |-> mtime]

Walking == listing = "walking"
AllListed == \A i \in entered : pending[i] = {}

(* walk_stream and walk_stream_bulk take the roots in turn; the raw walker    *)
(* has one thread for each.                                                   *)
InTurn(i) == i \notin entered /\ (run.walker # "raw" => entered = 1..(i - 1) /\ AllListed)

(* A bound: what was tuned and makes no difference to the walk is left out.   *)
PlainRun ==
  /\ cmd.jobs = NotGiven /\ cmd.readJobs = NotGiven /\ cmd.rawBlock # "off"
  /\ opts.read_jobs = ReadJobs /\ ~opts.keep_cache /\ ~opts.dispatch_io /\ ~opts.io_uring
  /\ opts.raw_block = (cmd.rawBlock = "on")
  /\ out = HostRoot(build.os) /\ roots[1] = HostRoot(build.os) /\ ~build.ioUring
  /\ \A i \in DOMAIN roots : roots[i] = roots[1] /\ WalkedIn(i) = Meant(i)

StartWalk ==
  /\ listing = "none"
  /\ stage = "running" /\ ~cmd.solid /\ PlainRun
  /\ \E case \in Cases[Len(roots)] : host' = case.host /\ ask' = case.ask
  /\ volume' \in IF raw = Volume THEN Volumes ELSE {host'.tree}
  /\ pending' = [i \in DOMAIN roots |-> {}]
  /\ listing' = "walking"
  /\ UNCHANGED <<vars, entered, items, unread>>

Enter(i, dirs, found) ==
  /\ Walking /\ InTurn(i)
  /\ entered' = entered \cup {i}
  /\ pending' = [pending EXCEPT ![i] = dirs]
  /\ items' = items \o found
  /\ UNCHANGED <<vars, host, volume, ask, listing>>

PassOver(i, path) ==
  /\ Cardinality(unread) < MaxUnread
  /\ unread' = unread \cup {[root |-> i, path |-> path]}

Fail ==
  /\ listing' = "failed"
  /\ UNCHANGED <<vars, host, volume, ask, entered, pending, items, unread>>

-----------------------------------------------------------------------------
(* The roots, in the walkers that ask the host.                               *)
HostWalker == run.walker \in {"vfs", "bulk"}

RootIsMissing(i) ==
  /\ HostWalker /\ Walking /\ InTurn(i)
  /\ Canonical(ask.given[i].path) = {}
  /\ Fail

EnterFile(i) ==
  LET base == Prefix(ask.given[i]) IN
  /\ HostWalker
  /\ \E root \in Canonical(ask.given[i].path) :
       /\ KindIn(host.tree, root) = "file"
       /\ Enter(i, {}, IF IsExcluded(base) THEN <<>>
                       ELSE <<Item(i, root, base, DosTime(host.time))>>)
       /\ UNCHANGED unread

EnterDir(i) ==
  /\ HostWalker
  /\ \E root \in Canonical(ask.given[i].path) :
       /\ KindIn(host.tree, root) = "dir"
       /\ Enter(i, {[path |-> root, prefix |-> Prefix(ask.given[i])]}, <<>>)
       /\ UNCHANGED unread

(* A root that is neither: jwalk lists it and it is skipped, the bulk walker  *)
(* cannot open it as a directory.                                             *)
EnterOther(i) ==
  /\ HostWalker
  /\ \E root \in Canonical(ask.given[i].path) : KindIn(host.tree, root) = "other"
  /\ IF run.walker = "vfs" THEN Enter(i, {}, <<>>) /\ UNCHANGED unread
                            ELSE Walking /\ InTurn(i) /\ Fail

(* walk_root: canonicalize asks the host, the volume is asked for what it     *)
(* says, or else for the path as typed, in UTF-8 by to_string_lossy.  One that*)
(* is not there is passed over.                                               *)
RootOnVolume(r) ==
  {[k \in DOMAIN p |-> Lossy(p[k])] :
     p \in IF Canonical(r.path) = {} THEN {Spelled(r.text)} ELSE Canonical(r.path)}

AsFile(i, root) ==
  LET base == Prefix(ask.given[i]) IN
  Enter(i, {}, IF IsExcluded(base) THEN <<>> ELSE <<Item(i, root, base, Epoch)>>)

EnterRaw(i) ==
  /\ run.walker = "raw"
  /\ \E root \in RootOnVolume(ask.given[i]) :
       IF root # <<>> /\ root \notin DOMAIN volume THEN Enter(i, {}, <<>>)
       ELSE IF KindIn(volume, root) = "dir"
         THEN Enter(i, {[path |-> root, prefix |-> Prefix(ask.given[i])]}, <<>>)
       ELSE AsFile(i, root)
  /\ UNCHANGED unread

(* A read fails: a directory that does not open is taken for a file, and a    *)
(* root whose oid cannot be had is passed over.                               *)
EnterRawUnread(i) ==
  /\ run.walker = "raw"
  /\ \E root \in RootOnVolume(ask.given[i]) :
       /\ root = <<>> \/ root \in DOMAIN volume
       /\ \/ KindIn(volume, root) = "dir" /\ AsFile(i, root)
          \/ Enter(i, {}, <<>>)
       /\ PassOver(i, root)

-----------------------------------------------------------------------------
(* The directories.                                                           *)
List(i, dir, tree, found) ==
  /\ pending' = [pending EXCEPT ![i] = (@ \ {dir}) \cup
       {[path |-> p, prefix |-> ChildPrefix(dir.prefix, Lossy(Last(p)))] :
          p \in {q \in Children(tree, dir.path) : KindIn(tree, q) = "dir"}}]
  /\ items' = items \o SetToSeq(found)
  /\ UNCHANGED <<vars, host, volume, ask, entered, unread, listing>>

(* jwalk: the name comes from the whole path below the root.                  *)
ListVfs(i, dir) ==
  LET root == CHOOSE p \in Canonical(ask.given[i].path) : TRUE
      name(p) == ArchiveName(Prefix(ask.given[i]), SubSeq(p, Len(root) + 1, Len(p)))
  IN
  /\ run.walker = "vfs"
  /\ List(i, dir, host.tree,
          {Item(i, p, name(p), DosTime(host.time)) :
             p \in {q \in Children(host.tree, dir.path) :
                      KindIn(host.tree, q) = "file" /\ ~IsExcluded(name(q))}})

(* One that jwalk cannot read comes as an entry like any other, with the error*)
(* in its read_children_error, at which walk_stream does not look.            *)
VfsUnread(i, dir) ==
  /\ run.walker = "vfs"
  /\ pending' = [pending EXCEPT ![i] = @ \ {dir}]
  /\ PassOver(i, dir.path)
  /\ UNCHANGED <<vars, host, volume, ask, entered, items, listing>>

(* walk_recursive and walk_dir: a glob may match the file's own name too.     *)
CarriedName(dir, p) == Join(dir.prefix, Lossy(Last(p)))
Skipped(dir, p) == IsExcluded(CarriedName(dir, p)) \/ IsExcluded(Lossy(Last(p)))

ListBulk(i, dir) ==
  /\ run.walker = "bulk"
  /\ List(i, dir, host.tree,
          {Item(i, p, CarriedName(dir, p), Epoch) :
             p \in {q \in Children(host.tree, dir.path) :
                      KindIn(host.tree, q) = "file" /\ ~Skipped(dir, q)}})

(* The catalog has links and special files in with the files.                 *)
ListRaw(i, dir) ==
  /\ run.walker = "raw"
  /\ List(i, dir, volume,
          {Item(i, p, CarriedName(dir, p), Epoch) :
             p \in {q \in Children(volume, dir.path) :
                      KindIn(volume, q) # "dir" /\ ~Skipped(dir, q)}})

ListDir(i) ==
  /\ Walking
  /\ \E dir \in pending[i] :
       ListVfs(i, dir) \/ VfsUnread(i, dir) \/ ListBulk(i, dir) \/ ListRaw(i, dir)

(* In walk_recursive and walk_dir a directory that cannot be read; in jwalk an*)
(* error amid the entries of one, or a file gone before its stat.             *)
ListFails(i) == Walking /\ pending[i] # {} /\ Fail

-----------------------------------------------------------------------------
TextBefore(s, t) ==
  \/ IsStrictPrefix(s, t)
  \/ \E k \in DOMAIN s \cap DOMAIN t : s[k] < t[k] /\ \A j \in 1..(k - 1) : s[j] = t[j]

(* sort_by, which keeps the order of items of one name.                       *)
NameBefore(s) ==
  {at \in (DOMAIN s) \X (DOMAIN s) :
     \/ TextBefore(s[at[1]].name, s[at[2]].name)
     \/ s[at[1]].name = s[at[2]].name /\ at[1] < at[2]}
SortedByName(s) ==
  LET order == InOrder(DOMAIN s, NameBefore(s)) IN [k \in DOMAIN s |-> s[order[k]]]

(* --sort has the whole list put in order, and refuses an empty one.          *)
EndWalk ==
  /\ Walking /\ entered = DOMAIN roots /\ AllListed
  /\ listing' = IF cmd.sort /\ items = <<>> THEN "failed" ELSE "listed"
  /\ items' = IF cmd.sort THEN SortedByName(items) ELSE items
  /\ UNCHANGED <<vars, host, volume, ask, entered, pending, unread>>

WalkNext ==
  \/ StartWalk
  \/ \E i \in DOMAIN pending :
       \/ RootIsMissing(i) \/ EnterFile(i) \/ EnterDir(i) \/ EnterOther(i)
       \/ EnterRaw(i) \/ EnterRawUnread(i)
       \/ ListDir(i) \/ ListFails(i)
  \/ EndWalk
  \/ Next /\ UNCHANGED walk

WalkSpec == WalkInit /\ [][WalkNext]_walkVars

-----------------------------------------------------------------------------
(* Properties.                                                                *)

Raw == run.walker = "raw"
TreeWalked == IF Raw THEN volume ELSE host.tree
(* Where root i is: the raw walker falls back on the path as typed.           *)
RootAt(i) ==
  {p \in IF Raw THEN RootOnVolume(ask.given[i]) ELSE Canonical(ask.given[i].path) :
     p = <<>> \/ p \in DOMAIN TreeWalked}

Below(r, p) == SubSeq(p, Len(r) + 1, Len(p))
NameOf(i, r, p) ==
  LET base == Prefix(ask.given[i]) IN
  IF p = r THEN base
  ELSE IF run.walker = "vfs" THEN ArchiveName(base, Below(r, p))
  ELSE Join(base, PathText(Below(r, p)))

AskedUnder(i, r, kinds) ==
  {[root |-> i, path |-> p, name |-> NameOf(i, r, p)] :
     p \in {q \in DOMAIN TreeWalked :
              /\ IsPrefix(r, q) /\ KindIn(TreeWalked, q) \in kinds
              /\ ~IsExcluded(NameOf(i, r, q))
              /\ run.walker = "vfs" \/ q = r \/ ~IsExcluded(Lossy(Last(q)))}}
Asked(kinds) == UNION {UNION {AskedUnder(i, r, kinds) : r \in RootAt(i)} : i \in DOMAIN roots}

Unread(x) == \E u \in unread : u.root = x.root /\ IsPrefix(u.path, x.path)

(* A raw root that could not be read, taken for a file.                       *)
TakenForFile ==
  {[root |-> u.root, path |-> u.path, name |-> Prefix(ask.given[u.root])] :
     u \in {v \in unread : Raw}}

(* A walk that succeeds has listed, under each root, every file there that no *)
(* glob excludes and nothing twice, each named by the root as typed and the   *)
(* path below it; what it leaves out or takes for a file though it is none is *)
(* what it could not read: directories of the "vfs" walker, roots of the raw  *)
(* one.  Whether links and special files are listed is left open: the raw     *)
(* walker lists them.  (Only the raw walker goes on without a root that is    *)
(* missing; only "vfs" holds --exclude against the archive path alone.)       *)
ListsWhatWasAsked ==
  listing = "listed" =>
    LET sent == {[root |-> x.root, path |-> x.path, name |-> x.name] : x \in ToSet(items)} IN
    /\ sent \subseteq Asked({"file", "link", "other"}) \cup TakenForFile
    /\ \A x \in Asked({"file"}) : x \in sent \/ Unread(x)
    /\ \A j, k \in DOMAIN items :
         items[j].root = items[k].root /\ items[j].path = items[k].path => j = k
    /\ \A u \in unread : run.walker = "vfs" \/ (Raw /\ u.path \in RootAt(u.root))
    /\ Raw \/ \A i \in DOMAIN roots : RootAt(i) # {}

(* Two entries have one name only if they are one file under two roots, if    *)
(* what the names had to tell them apart is lost (--basename-only, the slash  *)
(* an absolute root begins with, bytes that are not UTF-8), if the raw walker *)
(* was given a link for a root (it archives the link as well, or the volume   *)
(* has something else of that name), or if the "vfs" walker has made slashes  *)
(* of backslashes.                                                            *)
Relative(r) == Head(r.text) # Slash
Moved(r) == Canonical(r.path) \notin {{}, {r.path}}
SomeByte(names, bytes) == \E k \in DOMAIN names : ToSet(names[k]) \cap bytes # {}
NamesAreDistinct ==
  \A j, k \in DOMAIN items :
    j # k /\ items[j].name = items[k].name =>
      \/ items[j].path = items[k].path
      \/ /\ items[j].root # items[k].root
         /\ \/ ask.basenameOnly
            \/ \E x \in {items[j], items[k]} :
                 Relative(ask.given[x.root]) \/ (Raw /\ Moved(ask.given[x.root]))
      \/ \E x \in {items[j], items[k]} : SomeByte(Append(x.path, ask.given[x.root].text), NotUtf8)
      \/ run.walker = "vfs" /\ \E x \in {items[j], items[k]} : SomeByte(x.path, {Backslash})

(* From 1980 to the end of 2107 the date and time of an item are those of its *)
(* file, to the two seconds the format has, and before that its first moment. *)
(* (The walkers that do not read times have the first moment throughout.)     *)
Leaps(y) == (y - 1) \div 4 - (y - 1) \div 100 + (y - 1) \div 400
MonthStart == <<0, 31, 59, 90, 120, 151, 181, 212, 243, 273, 304, 334, 365>>
StartOf(y, m) ==
  365 * (y - 1970) + Leaps(y) - Leaps(1970) + MonthStart[m]
    + IF m > 2 THEN Leaps(y + 1) - Leaps(y) ELSE 0

(* The days a date stands for: one, or none if there is no such date.         *)
DaysOf(date) ==
  LET y == 1980 + date \div 512
      m == (date \div 32) % 16
      d == date % 32
  IN  {n \in {StartOf(y, m) + d - 1} : m \in 1..12 /\ d >= 1 /\ n < StartOf(y, m + 1)}
SecondOf(time) == (time \div 2048) * 3600 + ((time \div 32) % 64) * 60 + (time % 32) * 2

ItemsCarryTheirTime ==
  \A x \in ToSet(items) :
    \/ x.mtime = Epoch /\ (run.walker # "vfs" \/ host.time.day < StartOf(1980, 1))
    \/ host.time.day >= StartOf(2108, 1)
    \/ /\ DaysOf(x.mtime.date) = {host.time.day}
       /\ SecondOf(x.mtime.time) = host.time.sec - (host.time.sec % 2)
===============================================================================
