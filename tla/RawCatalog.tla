------------------------------ MODULE RawCatalog ------------------------------
(* raw_apfs.rs before a window's extents are read: the walk over the roots,  *)
(* one thread each, and phase 1 of bulk_read_window, which share the oid,    *)
(* inode and extent caches and, below them, the sharded block cache of       *)
(* AlignedRawReader.  Then RawWindow goes on with the window found.          *)
(*                                                                           *)
(* The catalog is external (vendor/apfs): block o of the device answers what *)
(* is asked about oid o or about the data stream o.  An inode names the      *)
(* stream its data is in, its private_id: the stream has any number, and     *)
(* clones have one together.  A path is the sequence of its names.  The      *)
(* volume does not change while it is read.                                  *)
EXTENDS RawWindow

CONSTANTS
  Layouts,    \* catalogs: what is behind each oid, oid 1 being the root
  RootPaths,  \* paths given as roots; there are two
  Shards,     \* SHARDS
  Capacity,   \* per_shard
  Ahead,      \* READ_AHEAD, in blocks
  MaxFaults   \* bound on reads that fail

RootOid == 1

(* A volume in order: its names lead to what there is.                       *)
IsCatalog(c) ==
  /\ c \in Seq(Range(c))
  /\ RootOid \in DOMAIN c /\ c[RootOid].kind = "dir"
  /\ \A o \in DOMAIN c : c[o].pid \in DOMAIN c /\ c[o].mtime \in Mtimes
  /\ \A d, e \in DOMAIN c :
       c[d].kind = "regular" /\ c[e].kind = "regular" /\ c[d].pid = c[e].pid =>
         c[d].extents = c[e].extents
  /\ \A o \in DOMAIN c :
       \/ /\ c[o].kind = "dir"
          /\ IsFiniteSet(DOMAIN c[o].names) /\ Range(c[o].names) \subseteq DOMAIN c
       \/ /\ c[o].kind = "regular"
          /\ c[o].size \in 0..(MaxBlocks * Block) /\ c[o].extents \in ExtentSets
       \/ c[o].kind = "special"

ASSUME CatalogAssumption ==
  /\ \A c \in Layouts : IsCatalog(c)
  /\ \A p \in RootPaths : p \in Seq(Range(p))
  /\ Shards \in Nat \ {0} /\ Capacity \in Nat \ {0} /\ Ahead \in Nat \ {0}
  /\ MaxFaults \in Nat

Walkers == {1, 2}
Reader == 3
Threads == Walkers \cup {Reader}
NoAnswer == 0   \* what a failed read answers

VARIABLES
  cat,       \* oid -> directory or file
  roots,     \* per walker
  th,        \* per thread: where it is in its function
  oids,      \* oid_cache: path -> oid
  inodes,    \* inode_cache: oid -> [kind, size, pid, mtime]
  extents,   \* extent_cache: private id -> extents
  batch,     \* extent_batch
  blocks,    \* per shard of the block cache: map and order
  items,     \* paths sent by the walk
  faults     \* reads that failed so far

caches == <<oids, inodes, extents, batch>>
catalogVars == <<cat, roots, th, caches, blocks, items, faults>>
allVars == <<vars, catalogVars>>

Idle == [pc |-> "idle", ret |-> "", want |-> 0, last |-> 0, answer |-> NoAnswer,
         path |-> <<>>, oid |-> 0, stack |-> <<>>]

IsDir(c, o) == c[o].kind = "dir"
IsFile(c, o) == o \in DOMAIN c /\ ~ IsDir(c, o)
InodeIn(c, o) == [kind |-> c[o].kind, size |-> IF IsDir(c, o) THEN 0 ELSE c[o].size,
                  pid |-> c[o].pid, mtime |-> c[o].mtime]

(* The extent records under a private id, and the ids that have any.         *)
Stream(c, p) ==
  UNION {c[o].extents : o \in {x \in DOMAIN c : c[x].kind = "regular" /\ c[x].pid = p}}
Streams(c) == {p \in DOMAIN c : Stream(c, p) # {}}

Lost == [kind |-> "lost", size |-> 0, extents |-> {}, mtime |-> Epoch]

(* scan_all_metadata, which may fail: then the caches start empty.           *)
CatalogInit ==
  /\ entry = [f \in Files |-> Lost]
  /\ tasks = <<>>
  /\ remaining = [f \in Files |-> 0] /\ data = [f \in Files |-> <<>>]
  /\ sent = [f \in Files |-> FALSE]
  /\ run = NoRun /\ next = 1 /\ rest = 1 /\ shipped = <<>>
  /\ phase = "catalog"
  /\ cat \in Layouts
  /\ roots \in [Walkers -> RootPaths]
  /\ th = [t \in Threads |-> IF t = Reader THEN Idle
                             ELSE [Idle EXCEPT !.pc = "root", !.path = roots[t]]]
  /\ \E scanned \in BOOLEAN :
       /\ inodes = [o \in IF scanned THEN DOMAIN cat ELSE {} |-> InodeIn(cat, o)]
       /\ extents = [p \in IF scanned THEN Streams(cat) ELSE {} |-> Stream(cat, p)]
  /\ oids = <<>> /\ batch = <<>>
  /\ blocks = [s \in 0..(Shards - 1) |-> [map |-> <<>>, order |-> <<>>]]
  /\ items = <<>> /\ faults = 0

-----------------------------------------------------------------------------
(* Defects for the pairs in PROJECT.json.                                    *)

(* An evicted offset stays in the map.                                       *)
KeepsAll(map, kept) == map

(* A child's key leaves out the directory's own path.                        *)
LastNameOnly(dir, name) == <<name>>

(* A list that was taken leaves an empty one behind.                         *)
EmptyWhenTaken(o) == [batch EXCEPT ![o] = {}]

(* Only the last subdirectory is left to walk.                               *)
ForgetsSiblings(subdirs, stack) == SetToSeq(subdirs)

-----------------------------------------------------------------------------
(* The block cache.                                                          *)

ShardOf(off) == off % Shards

Dropped(map, kept) == [off \in ToSet(kept) |-> map[off]]

(* BlockCacheInner::put.                                                     *)
PutIn(s, off, bytes) ==
  IF off \in DOMAIN s.map THEN s
  ELSE LET kept == SubSeq(s.order, Larger(Len(s.order) - Capacity + 1, 0) + 1, Len(s.order))
           old == Dropped(s.map, kept)
       IN  [map |-> [o \in DOMAIN old \cup {off} |-> IF o = off THEN bytes ELSE old[o]],
            order |-> Append(kept, off)]

At(t, pc) == phase = "catalog" /\ th[t].pc = pc
Goto(t, pc) == th' = [th EXCEPT ![t].pc = pc]

(* A call of the parser: it needs block o, and goes on at ret.               *)
Asking(rec, o, ret) == [rec EXCEPT !.pc = "get", !.want = o, !.ret = ret]
Return(rec, answer) == [rec EXCEPT !.pc = rec.ret, !.answer = answer]

(* AlignedRawReader::read of one block: from the cache, ...                  *)
CacheGet(t) ==
  /\ At(t, "get")
  /\ LET b == th[t].want
         s == blocks[ShardOf(b)]
     IN  th' = [th EXCEPT ![t] = IF b \in DOMAIN s.map
                                   THEN Return(@, s.map[b])
                                   ELSE [@ EXCEPT !.pc = "device"]]
  /\ UNCHANGED <<vars, cat, roots, caches, blocks, items, faults>>

(* ... or from the device, READ_AHEAD bytes or what is left of it; ...       *)
DeviceRead(t) ==
  /\ At(t, "device")
  /\ LET b == th[t].want IN
       th' = [th EXCEPT ![t] = [@ EXCEPT !.pc = "put", !.answer = b,
                                         !.last = Smaller(b + Ahead - 1, Len(cat))]]
  /\ UNCHANGED <<vars, cat, roots, caches, blocks, items, faults>>

DeviceFails(t) ==
  /\ At(t, "device")
  /\ faults < MaxFaults
  /\ faults' = faults + 1
  /\ th' = [th EXCEPT ![t] = Return(@, NoAnswer)]
  /\ UNCHANGED <<vars, cat, roots, caches, blocks, items>>

(* ... each whole block of which is then put, one lock at a time.            *)
CachePut(t) ==
  /\ At(t, "put")
  /\ LET b == th[t].want IN
       /\ blocks' = [blocks EXCEPT ![ShardOf(b)] = PutIn(@, b, b)]
       /\ th' = [th EXCEPT ![t] = IF b = @.last THEN Return(@, @.answer)
                                  ELSE [@ EXCEPT !.want = b + 1]]
  /\ UNCHANGED <<vars, cat, roots, caches, items, faults>>

-----------------------------------------------------------------------------
(* What the parser makes of a block.                                         *)

Answered(t) == th[t].answer # NoAnswer

(* What a listing finds under an oid: nothing if that is no directory.       *)
NamesIn(c, o) == IF o \in DOMAIN c /\ IsDir(c, o) THEN c[o].names ELSE <<>>

ChildOf(c, o, name) == IF name \in DOMAIN NamesIn(c, o) THEN NamesIn(c, o)[name] ELSE 0

(* The oid a path leads to from the root, 0 if there is none.                *)
OidIn(c, path) ==
  LET at[i \in 0..Len(path)] == IF i = 0 THEN RootOid ELSE ChildOf(c, at[i - 1], path[i])
  IN  at[Len(path)]
OidAt(path) == OidIn(cat, path)

(* open_directory: the last block of its descent, and what it returns.       *)
OpeningBlock(path) ==
  IF path = <<>> \/ OidAt(Front(path)) = 0 THEN RootOid ELSE OidAt(Front(path))
Opened(t, p) ==
  LET a == th[t].answer
      o == IF p = <<>> THEN a ELSE ChildOf(cat, a, Last(p))
  IN  IF Answered(t) /\ (p # <<>> => OidAt(Front(p)) # 0) /\ o # 0 /\ IsDir(cat, o) THEN o ELSE 0

(* The key of a child in the oid cache.                                      *)
ChildPath(dir, name) == Append(dir, name)

(* What a listing adds to the oid cache.                                     *)
Listing(dir, a) ==
  [p \in {ChildPath(dir, n) : n \in DOMAIN NamesIn(cat, a)} |-> NamesIn(cat, a)[Last(p)]]

(* A cache `old` with what is inserted, which replaces what was there.       *)
Over(new, old) ==
  [x \in DOMAIN new \cup DOMAIN old |-> IF x \in DOMAIN new THEN new[x] ELSE old[x]]
Entered(key, value, old) == Over([x \in {key} |-> value], old)

-----------------------------------------------------------------------------
(* resolve_oid, called with `path` and leading to "resolved", where `oid` is *)
(* what was found, 0 for an error.                                           *)

Resolving(rec, path) == [rec EXCEPT !.pc = "direct", !.path = path, !.oid = 0]
Resolved(rec, o) == [rec EXCEPT !.pc = "resolved", !.oid = o]

DirectHit(t) ==
  /\ At(t, "direct")
  /\ th' = [th EXCEPT ![t] = IF @.path \in DOMAIN oids
                               THEN Resolved(@, oids[@.path])
                               ELSE [@ EXCEPT !.pc = "parent"]]
  /\ UNCHANGED <<vars, cat, roots, caches, blocks, items, faults>>

(* split_parent_name makes "/" the parent of the root itself.                *)
Parent(path) == IF path = <<>> THEN <<>> ELSE Front(path)

ParentHit(t) ==
  /\ At(t, "parent")
  /\ LET dir == Parent(th[t].path) IN
       th' = [th EXCEPT ![t] =
         IF dir \in DOMAIN oids
           THEN Asking([@ EXCEPT !.oid = oids[dir]], oids[dir], "listed")
           ELSE Asking(@, OpeningBlock(dir), "opened")]
  /\ UNCHANGED <<vars, cat, roots, caches, blocks, items, faults>>

ParentOpened(t) ==
  LET dir == Parent(th[t].path)
      o == Opened(t, dir)
  IN
  /\ At(t, "opened")
  /\ th' = [th EXCEPT ![t] = IF o = 0 THEN Resolved(@, 0)
                             ELSE Asking([@ EXCEPT !.oid = o], o, "listed")]
  /\ oids' = IF o = 0 THEN oids ELSE Entered(dir, o, oids)
  /\ UNCHANGED <<vars, cat, roots, inodes, extents, batch, blocks, items, faults>>

ParentListed(t) ==
  /\ At(t, "listed")
  /\ th' = [th EXCEPT ![t] = IF Answered(t) THEN [@ EXCEPT !.pc = "again"]
                             ELSE Resolved(@, 0)]
  /\ oids' = IF Answered(t) THEN Over(Listing(Parent(th[t].path), th[t].answer), oids) ELSE oids
  /\ UNCHANGED <<vars, cat, roots, inodes, extents, batch, blocks, items, faults>>

LookedUp(t) ==
  /\ At(t, "again")
  /\ th' = [th EXCEPT ![t] = Resolved(@, IF @.path \in DOMAIN oids THEN oids[@.path] ELSE 0)]
  /\ UNCHANGED <<vars, cat, roots, caches, blocks, items, faults>>

-----------------------------------------------------------------------------
(* walk_root and walk_dir.                                                   *)

OpenRoot(t) ==
  /\ At(t, "root")
  /\ th' = [th EXCEPT ![t] = Asking(@, OpeningBlock(@.path), "rootOpened")]
  /\ UNCHANGED <<vars, cat, roots, caches, blocks, items, faults>>

(* A root that does not open as a directory is taken for a file.             *)
RootOpened(t) ==
  LET o == Opened(t, th[t].path) IN
  /\ At(t, "rootOpened")
  /\ th' = [th EXCEPT ![t] =
       IF o = 0 THEN Resolving(@, @.path)
       ELSE [@ EXCEPT !.pc = "dir", !.stack = << [path |-> th[t].path, oid |-> o] >>]]
  /\ oids' = IF o = 0 THEN oids ELSE Entered(th[t].path, o, oids)
  /\ UNCHANGED <<vars, cat, roots, inodes, extents, batch, blocks, items, faults>>

(* One that cannot be resolved either is passed over.                        *)
RootIsFile(t) ==
  /\ t \in Walkers /\ At(t, "resolved")
  /\ items' = IF th[t].oid = 0 THEN items ELSE Append(items, th[t].path)
  /\ Goto(t, "done")
  /\ UNCHANGED <<vars, cat, roots, caches, blocks, faults>>

ListDir(t) ==
  /\ At(t, "dir")
  /\ th' = [th EXCEPT ![t] = IF @.stack = <<>> THEN [@ EXCEPT !.pc = "done"]
                             ELSE Asking(@, Head(@.stack).oid, "dirListed")]
  /\ UNCHANGED <<vars, cat, roots, caches, blocks, items, faults>>

(* batch_inodes_in_range, of the oids from the least to the greatest.        *)
InodesInRange(os) == [o \in {x \in DOMAIN cat : Min(os) <= x /\ x <= Max(os)} |-> InodeIn(cat, o)]

Descend(subdirs, stack) == SetToSeq(subdirs) \o Tail(stack)

(* Files are sent, then the subdirectories walked; the batch of inodes is    *)
(* skipped over a wide range of oids, and its failure does not matter.       *)
DirListed(t) ==
  LET dir == Head(th[t].stack)
      names == NamesIn(cat, th[t].answer)
      ofKind(isDir) == {n \in DOMAIN names : IsDir(cat, names[n]) = isDir}
      files == {names[n] : n \in ofKind(FALSE)}
      paths == {ChildPath(dir.path, n) : n \in ofKind(FALSE)}
      subdirs == {[path |-> ChildPath(dir.path, n), oid |-> names[n]] : n \in ofKind(TRUE)}
  IN
  /\ At(t, "dirListed") /\ Answered(t)
  /\ oids' = Over(Listing(dir.path, th[t].answer), oids)
  /\ \E batched \in BOOLEAN :
       inodes' = IF batched /\ files # {} THEN Over(InodesInRange(files), inodes) ELSE inodes
  /\ items' = items \o SetToSeq(paths)
  /\ th' = [th EXCEPT ![t] = [@ EXCEPT !.pc = "dir", !.stack = Descend(subdirs, th[t].stack)]]
  /\ UNCHANGED <<vars, cat, roots, extents, batch, blocks, faults>>

(* try_for_each gives the walk's error to the run.                           *)
WalkFails(t) ==
  /\ At(t, "dirListed") /\ ~ Answered(t)
  /\ phase' = "error"
  /\ UNCHANGED <<entry, tasks, slots, run, next, rest, shipped, catalogVars>>

-----------------------------------------------------------------------------
(* Phase 1 of bulk_read_window.  The splitter hands chunks to the readers    *)
(* once the walk has ended; this reader's is the first NumFiles items, as    *)
(* one window.                                                               *)

WindowLen == Smaller(NumFiles, Len(items))

(* `stack` holds what is resolved so far: an oid per item, 0 for a lost one. *)
StartWindow ==
  /\ At(Reader, "idle")
  /\ \A t \in Walkers : th[t].pc = "done"
  /\ Goto(Reader, "item")
  /\ UNCHANGED <<vars, cat, roots, caches, blocks, items, faults>>

Position == Len(th[Reader].stack) + 1

ResolveItem ==
  /\ At(Reader, "item")
  /\ Position <= WindowLen
  /\ th' = [th EXCEPT ![Reader] = Resolving(@, items[Position])]
  /\ UNCHANGED <<vars, cat, roots, caches, blocks, items, faults>>

ItemResolved ==
  /\ At(Reader, "resolved")
  /\ th' = [th EXCEPT ![Reader] = [@ EXCEPT !.pc = "item", !.stack = Append(th[Reader].stack, th[Reader].oid)]]
  /\ UNCHANGED <<vars, cat, roots, caches, blocks, items, faults>>

ResolvedOids == {o \in ToSet(th[Reader].stack) : o # 0}

(* 1b: a batch again, which does not replace what is in the cache.           *)
BatchInodes ==
  /\ At(Reader, "item")
  /\ Position > WindowLen
  /\ \E batched \in BOOLEAN :
       inodes' = IF batched /\ ResolvedOids # {} THEN Over(inodes, InodesInRange(ResolvedOids))
                 ELSE inodes
  /\ th' = [th EXCEPT ![Reader] = [@ EXCEPT !.pc = "inode", !.want = 1]]
  /\ UNCHANGED <<vars, cat, roots, oids, extents, batch, blocks, items, faults>>

(* 1c: an item whose inode is in no cache is looked up, and is lost if that  *)
(* fails.                                                                    *)
Missing == {i \in 1..WindowLen : th[Reader].stack[i] \notin DOMAIN inodes \cup {0}}

LookUpInode ==
  /\ At(Reader, "inode")
  /\ Missing # {}
  /\ th' = [th EXCEPT ![Reader] =
              Asking([@ EXCEPT !.oid = Min(Missing)], @.stack[Min(Missing)], "inodeRead")]
  /\ UNCHANGED <<vars, cat, roots, caches, blocks, items, faults>>

InodeRead ==
  /\ At(Reader, "inodeRead")
  /\ IF Answered(Reader)
       THEN /\ inodes' = Entered(th[Reader].stack[th[Reader].oid], InodeIn(cat, th[Reader].answer), inodes)
            /\ Goto(Reader, "inode")
       ELSE /\ th' = [th EXCEPT ![Reader] = [@ EXCEPT !.pc = "inode", !.stack[th[Reader].oid] = 0]]
            /\ UNCHANGED inodes
  /\ UNCHANGED <<vars, cat, roots, oids, extents, batch, blocks, items, faults>>

(* The batch of extents, of the private ids from the least to the greatest,  *)
(* has no list for a file without any.                                       *)
ResolvedPids == {inodes[o].pid : o \in ResolvedOids}

BatchExtents ==
  /\ At(Reader, "inode")
  /\ Missing = {}
  /\ \E batched \in BOOLEAN :
       batch' = [p \in IF batched /\ ResolvedOids # {}
                         THEN {x \in Streams(cat) : Min(ResolvedPids) <= x /\ x <= Max(ResolvedPids)}
                         ELSE {} |-> Stream(cat, p)]
  /\ th' = [th EXCEPT ![Reader] = [@ EXCEPT !.pc = "slot", !.oid = 1]]
  /\ UNCHANGED <<vars, cat, roots, oids, inodes, extents, blocks, items, faults>>

(* 1d: the slot of the next item, stamped with the time of its inode.  (Its  *)
(* size too, at which nobody looks from here on.)                            *)
Slot(f, e) == /\ entry' = [entry EXCEPT ![f] = e]
              /\ UNCHANGED <<tasks, slots, run, next, rest, shipped, phase>>

SlotOid == th[Reader].stack[th[Reader].oid]
SlotPid == inodes[SlotOid].pid
SlotTime == inodes[SlotOid].mtime

AtSlot == At(Reader, "slot") /\ th[Reader].oid <= WindowLen

NextSlot == th' = [th EXCEPT ![Reader] = [@ EXCEPT !.pc = "slot", !.oid = th[Reader].oid + 1]]

(* A directory taken for a file is not told from a file without bytes.       *)
EmptyEntry(kind, mtime) ==
  [kind |-> IF kind = "special" THEN "special" ELSE "regular", size |-> 0, extents |-> {},
   mtime |-> mtime]

SlotWithoutExtents ==
  /\ AtSlot
  /\ \/ SlotOid = 0 /\ Slot(th[Reader].oid, Lost)
     \/ /\ SlotOid # 0
        /\ inodes[SlotOid].kind = "special" \/ inodes[SlotOid].size = 0
        /\ Slot(th[Reader].oid, EmptyEntry(inodes[SlotOid].kind, SlotTime))
  /\ NextSlot
  /\ UNCHANGED <<cat, roots, caches, blocks, items, faults>>

NeedsExtents == AtSlot /\ SlotOid # 0 /\ inodes[SlotOid].kind = "regular" /\ inodes[SlotOid].size > 0

WithList(es) ==
  Slot(th[Reader].oid,
       [kind |-> "regular", size |-> inodes[SlotOid].size, extents |-> es, mtime |-> SlotTime])

SlotFromCache ==
  /\ NeedsExtents /\ SlotPid \in DOMAIN extents
  /\ WithList(extents[SlotPid])
  /\ NextSlot
  /\ UNCHANGED <<cat, roots, caches, blocks, items, faults>>

(* A list is taken out of the batch: a second link to the file, or a clone of*)
(* it, looks it up.                                                          *)
AfterTaking(p) == [x \in DOMAIN batch \ {p} |-> batch[x]]

SlotFromBatch ==
  /\ NeedsExtents /\ SlotPid \notin DOMAIN extents /\ SlotPid \in DOMAIN batch
  /\ WithList(batch[SlotPid])
  /\ batch' = AfterTaking(SlotPid)
  /\ NextSlot
  /\ UNCHANGED <<cat, roots, oids, inodes, extents, blocks, items, faults>>

LookUpExtents ==
  /\ NeedsExtents /\ SlotPid \notin DOMAIN extents \cup DOMAIN batch
  /\ th' = [th EXCEPT ![Reader] = Asking(@, SlotPid, "extentsRead")]
  /\ UNCHANGED <<vars, cat, roots, caches, blocks, items, faults>>

(* A file whose extents cannot be looked up is read whole in phase 3.        *)
ExtentsRead ==
  /\ At(Reader, "extentsRead")
  /\ IF Answered(Reader)
       THEN WithList(Stream(cat, th[Reader].answer))
       ELSE Slot(th[Reader].oid, EmptyEntry("special", SlotTime))
  /\ NextSlot
  /\ UNCHANGED <<cat, roots, caches, blocks, items, faults>>

WindowIsFound ==
  /\ At(Reader, "slot") /\ th[Reader].oid > WindowLen
  /\ phase' = "prepare"
  /\ Goto(Reader, "done")
  /\ UNCHANGED <<entry, tasks, slots, run, next, rest, shipped, cat, roots, caches, blocks, items, faults>>


-----------------------------------------------------------------------------
(* A window as the catalog gives it, or any window at all.                   *)
AnyWindow ==
  /\ entry \in [Files -> {e \in Entries : e.mtime = Epoch}]
  /\ Init
  /\ cat = <<[kind |-> "dir", names |-> <<>>, pid |-> RootOid, mtime |-> Epoch]>>
  /\ roots = [t \in Walkers |-> <<>>]
  /\ th = [t \in Threads |-> [Idle EXCEPT !.pc = "done"]]
  /\ oids = <<>> /\ inodes = <<>> /\ extents = <<>> /\ batch = <<>>
  /\ blocks = <<>> /\ items = <<>> /\ faults = 0

RawInit == CatalogInit \/ AnyWindow

Resolve(t) == DirectHit(t) \/ ParentHit(t) \/ ParentOpened(t) \/ ParentListed(t) \/ LookedUp(t)
ReadBlock(t) == CacheGet(t) \/ DeviceRead(t) \/ DeviceFails(t) \/ CachePut(t)
Walk(t) == OpenRoot(t) \/ RootOpened(t) \/ RootIsFile(t) \/ ListDir(t) \/ DirListed(t) \/ WalkFails(t)
FindWindow ==
  \/ StartWindow \/ ResolveItem \/ ItemResolved \/ BatchInodes \/ LookUpInode \/ InodeRead
  \/ BatchExtents \/ SlotWithoutExtents \/ SlotFromCache \/ SlotFromBatch \/ LookUpExtents
  \/ ExtentsRead \/ WindowIsFound

RawNext ==
  \/ \E t \in Threads : Resolve(t) \/ ReadBlock(t) \/ Walk(t)
  \/ FindWindow
  \/ Next /\ UNCHANGED catalogVars

RawSpec == RawInit /\ [][RawNext]_allVars

-----------------------------------------------------------------------------
(* Properties.                                                               *)

(* The map of a shard and its queue hold the same offsets, once each and     *)
(* never more than its capacity, whatever order the readers' puts arrive in. *)
ShardsAgree ==
  \A s \in DOMAIN blocks :
    /\ ToSet(blocks[s].order) = DOMAIN blocks[s].map
    /\ Cardinality(DOMAIN blocks[s].map) = Len(blocks[s].order)
    /\ Len(blocks[s].order) <= Capacity

(* A path in the oid cache leads to its oid, although two walks and a reader *)
(* fill it from listings they read through a shared cache, and let go of its *)
(* lock between the look and the entry.                                      *)
OidsAnswerTheirPaths == \A p \in DOMAIN oids : oids[p] = OidAt(p)

(* A walk without a failed read lists every file under its root once, and    *)
(* nothing else: under two roots, once for each.                             *)
Names == UNION {DOMAIN cat[o].names : o \in {x \in DOMAIN cat : IsDir(cat, x)}}
WalkListsRoots ==
  th[Reader].pc \notin {"idle", "done"} /\ faults = 0 =>
    \A p \in SeqOf(Names, 2) :
      Cardinality({i \in DOMAIN items : items[i] = p}) =
        IF IsFile(cat, OidAt(p)) THEN Cardinality({t \in Walkers : IsPrefix(roots[t], p)}) ELSE 0

(* The window has each item as the catalog does: kind, size, extents and the *)
(* time of its own inode, no matter which cache, batch or lookup they came   *)
(* from, under which numbers, and with how many others the file shares its   *)
(* inode or its data.  A failed read may only lose the file or leave it to   *)
(* the point read.                                                           *)
Expected(o) ==
  IF cat[o].kind = "regular" /\ cat[o].size > 0
    THEN [kind |-> "regular", size |-> cat[o].size, extents |-> cat[o].extents,
          mtime |-> cat[o].mtime]
    ELSE EmptyEntry(cat[o].kind, cat[o].mtime)

WindowIsFaithful ==
  phase # "catalog" =>
    \A f \in 1..WindowLen :
      \/ entry[f] = Expected(OidAt(items[f]))
      \/ faults > 0 /\ entry[f].kind \in {"lost", "special"}

===============================================================================
