---------------------------- MODULE MCRawCatalog ----------------------------
(* Windows of two files of up to two blocks of two cells on a device of five *)
(* blocks: runs hold three blocks and reach over one, so there are extents   *)
(* to coalesce, to share, to skip over and to leave for the next run.        *)
(*                                                                           *)
(* Catalogs of a file in the root and a directory with one more, each a      *)
(* plain file, a hole or a special one, whose data streams have each other's *)
(* numbers, or one number if they are clones; or of two directories with a   *)
(* link to one file in each.  Each file has a time of its own.  Shards of    *)
(* one block and reads of two, so blocks are evicted.                        *)
EXTENDS RawCatalog, TLC

Extent(log, phys) == [log |-> log, phys |-> phys, len |-> 1]

MCInodes(pid, mtime) ==
  {[kind |-> "regular", size |-> 3, extents |-> {Extent(0, 3), Extent(1, 1)},
    pid |-> pid, mtime |-> mtime],
   [kind |-> "regular", size |-> 2, extents |-> {}, pid |-> pid, mtime |-> mtime],
   [kind |-> "special", size |-> 0, extents |-> {}, pid |-> pid, mtime |-> mtime]}

Dir(names, pid) == [kind |-> "dir", names |-> names, pid |-> pid, mtime |-> 0]
MCTree(x, y) == <<Dir("a" :> 3 @@ "d" :> 2, 1), Dir("b" :> 4, 2), x, y>>
MCTwoFiles == {MCTree(x, y) : x \in MCInodes(4, 1), y \in MCInodes(3, 2)}
MCClones ==
  {MCTree(x, [x EXCEPT !.mtime = 2]) : x \in {y \in MCInodes(3, 1) : y.extents # {}}}
MCTwoLinks ==
  {<<Dir("d" :> 2 @@ "e" :> 4, 1), Dir("b" :> 3, 2), x, Dir("b" :> 3, 4)>> : x \in MCInodes(3, 1)}
MCLayouts == MCTwoFiles \cup MCClones \cup MCTwoLinks
MCRootPaths == {<<>>, <<"a">>, <<"d">>, <<"d", "b">>}
=============================================================================
