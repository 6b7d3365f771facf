------------------------------- MODULE MCEncode -------------------------------
(* A small instance of Encode for TLC.  With Max32 = 36 and one-byte names   *)
(* a stored body of 5 bytes puts the next header at Max32; files of 36 are   *)
(* mapped, have sizes at Max32, and are packed in three chunks when alone.   *)
EXTENDS Encode

(* All that is left, what the buffer has room for, or half of that.          *)
MCReadLens(rest, room) == {rest, room, room \div 2}

(* Next to nothing, or as much as the codec was given room for.              *)
MCDeflateLens(bound) == {2, bound}
MCOtherLens(n) == {1, n + 9}
MCPartLens(n) == {2, FirstRoom(n), FirstRoom(n) + 1}
===============================================================================
