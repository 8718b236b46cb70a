--------------------------- MODULE MCMp4Payloads ----------------------------
(***************************************************************************)
(* The indexes the runs of the payload buffers are given: sizes that grow, *)
(* sizes of no whole words that a buffer of the words cannot hold, one     *)
(* past the end of the file, none at all, and one whose room does not fit  *)
(* the width of sizes.                                                     *)
(***************************************************************************)
EXTENDS Mp4Payloads

At(off, size) == [off |-> off, size |-> size]

MCIndexes ==
  [growing |-> <<At(0, 4), At(4, 8), At(12, 16)>>,
   ragged  |-> <<At(16, 4), At(4, 11), At(0, 3)>>,
   cut     |-> <<At(0, 12), At(28, 8), At(12, 0)>>,
   vast    |-> <<At(4, 20), At(0, 4)>>]
=============================================================================
