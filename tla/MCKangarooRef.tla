--------------------------- MODULE MCKangarooRef ---------------------------
(***************************************************************************)
(* Both references on intervals of 4, 16 and 31 keys, for keys inside and  *)
(* outside; the first interval makes the strides of the start points 1 and *)
(* the first offset 0.  Tables of two to four small jumps give many short  *)
(* cycles.                                                                 *)
(***************************************************************************)
EXTENDS KangarooRef

SmallJumps == {<<1, 2, 3>>, <<2, 3>>, <<3, 1, 4, 2>>, <<4, 3>>, <<1, 4>>}

=============================================================================
