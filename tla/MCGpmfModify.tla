---------------------------- MODULE MCGpmfModify ----------------------------
(***************************************************************************)
(* The payload the runs of GPMF_Modify are given, and what is written into *)
(* it: entries of one and of two words of every size of element, of a type *)
(* that has none, of a type the parser does not know, and a new key for a  *)
(* nest.  The old data says 9, which no word of the new data does.         *)
(***************************************************************************)
EXTENDS GpmfModify, MCPayloads

Long(key) == Klv(key, "J", 8, 1, 9)

Stream2 == Nest("STRM", <<Blob, Tsmp, Long("ACCL"), Accl, Nest("FACE", <<Long("ACCL"), Tsmp>>), Accl>>)

MCPayloadsToEdit ==
  [edit |-> Payload(<<Nest("DEVC", <<Stream2, Tsmp>>),
                      Nest("DEVC", <<Nest("STRM", <<Tsmp>>)>>)>>)]

New(key, type, ssize, rpt) == [key |-> key, type |-> type, ssize |-> ssize, rpt |-> rpt]

MCNews ==
  {New("ACCL", "s", 2, 1), New("TSMP", "L", 4, 1),
   New("ACCL", "J", 8, 1), New("ACCL", COMPLEX, 8, 1), New("TSMP", STRANGE, 1, 4),
   New("TYPE", NEST, 1, 28)}
=============================================================================
