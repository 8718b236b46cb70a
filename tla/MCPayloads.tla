----------------------------- MODULE MCPayloads -----------------------------
(***************************************************************************)
(* Small payloads for TLC, put together the way a writer nests entries.    *)
(* A fragment is a sequence of words and the entries in it; the functions  *)
(* below join fragments, wrap them in a nest, and number the result.       *)
(***************************************************************************)
EXTENDS GpmfFormat, Sequences, SequencesExt

MCFourCC == {"DEVC", "DVID", "DVNM", "STRM", "TSMP", "ACCL", "FACE", "TYPE"}

MCModulus == 65536

Datum(n) == [key |-> JUNK, type |-> "c", ssize |-> 1, rpt |-> n]

Head2(key, type, ssize, rpt) ==
  <<[key |-> key, type |-> "c", ssize |-> 1, rpt |-> 1],
    [key |-> JUNK, type |-> type, ssize |-> ssize, rpt |-> rpt]>>

Outermost == 0 - 1

(* An entry whose data words all say n.                                     *)
Klv(key, type, ssize, rpt, n) ==
  [longs |-> Head2(key, type, ssize, rpt)
               \o [j \in 1..((ssize * rpt + 3) \div 4) |-> Datum(n)],
   items |-> {[at |-> 0, up |-> Outermost, depth |-> 0]}]

Join(f, g) ==
  LET by == Len(f.longs)
  IN [longs |-> f.longs \o g.longs,
      items |-> f.items \union
        {[at |-> i.at + by, depth |-> i.depth,
          up |-> IF i.up = Outermost THEN Outermost ELSE i.up + by] : i \in g.items}]

Forest(frags) == FoldLeft(Join, [longs |-> << >>, items |-> {}], frags)

Nest(key, frags) ==
  LET body == Forest(frags)
  IN [longs |-> Head2(key, NEST, 1, 4 * Len(body.longs)) \o body.longs,
      items |-> {[at |-> 0, up |-> Outermost, depth |-> 0]} \union
        {[at |-> i.at + 2, depth |-> i.depth + 1,
          up |-> IF i.up = Outermost THEN 0 ELSE i.up + 2] : i \in body.items}]

Padding == [longs |-> <<ZeroWord>>, items |-> {}]

(* f @@ << >> is f, written out as a table when TLC evaluates the constant. *)
Table(f) == f @@ << >>

Payload(frags) ==
  LET all  == Forest(frags)
      at(j) == CHOOSE i \in all.items : i.at = j
      starts == {i.at : i \in all.items}
  IN [longs |-> Len(all.longs),
      words |-> Table([j \in 0..(Len(all.longs) - 1) |-> all.longs[j + 1]]),
      items |-> starts,
      up  |-> Table([j \in starts |-> IF at(j).up = Outermost THEN j ELSE at(j).up]),
      lev |-> Table([j \in starts |-> IF at(j).depth = 0 THEN 0 ELSE at(j).depth - 1])]

-----------------------------------------------------------------------------
Dvid(n) == Klv("DVID", "L", 4, 1, n)
Dvnm(n) == Klv("DVNM", "c", 1, 3, n)
Tsmp    == Klv("TSMP", "L", 4, 1, 9)
Accl    == Klv("ACCL", "s", 2, 2, 9)
Blob    == Klv("ACCL", STRANGE, 1, 1, 9)
Empty   == Klv("FACE", "?", 4, 0, 9)          \* no face detected

(* One device: streams whose samples are the last entry, a nest of their    *)
(* own, or repeated entries, and one with a type the parser does not know.  *)
OneDevice ==
  Payload(<<Nest("DEVC",
    <<Dvid(1), Nest("STRM", <<Tsmp, Blob, Accl>>), Dvnm(1),
      Nest("STRM", <<Tsmp, Nest("FACE", <<Nest("STRM", <<Accl>>), Empty, Tsmp>>)>>),
      Nest("STRM", <<Accl, Accl>>)>>)>>)

(* Two devices, the second no larger than what stepping over the first      *)
(* leaves room for, and an empty one at the end.                            *)
TwoDevices ==
  Payload(<<Nest("DEVC", <<Dvid(1), Nest("STRM", <<Tsmp, Accl>>), Dvnm(1)>>),
            Nest("DEVC", <<Dvid(2), Nest("STRM", <<Blob>>), Dvnm(2)>>),
            Nest("DEVC", << >>)>>)

(* A first device too small to leave room for the second.                   *)
GrowingDevices ==
  Payload(<<Nest("DEVC", <<Dvid(1)>>), Nest("DEVC", <<Dvid(2), Nest("STRM", <<Accl>>)>>)>>)

(* Nests in nests: with NestLimit = 2 the FACE in the stream is at the last *)
(* level there is, and the nest in it is one too many.                      *)
DeepDevice ==
  Payload(<<Nest("DEVC",
    <<Nest("STRM", <<Tsmp, Nest("FACE", <<Accl, Nest("STRM", <<Accl>>), Accl>>)>>)>>)>>)

-----------------------------------------------------------------------------
(* Damage: one word of a small payload of two devices is overwritten.       *)
Undamaged ==
  Payload(<<Nest("DEVC", <<Nest("STRM", <<Tsmp, Accl>>), Dvid(1)>>),
            Nest("DEVC", <<Dvnm(2)>>)>>)

Hits == {"zero", "key", "devc", "nest", "type", "more", "less", "much", "bare"}

Hit(w, how) ==
  CASE how = "zero" -> ZeroWord
    [] how = "key"  -> [w EXCEPT !.key = JUNK]
    [] how = "devc" -> [w EXCEPT !.key = DEVC]
    [] how = "nest" -> [w EXCEPT !.type = NEST]
    [] how = "type" -> [w EXCEPT !.type = STRANGE]
    [] how = "more" -> [w EXCEPT !.ssize = @ + 1]
    [] how = "less" -> [w EXCEPT !.rpt = @ - 1]
    [] how = "much" -> [w EXCEPT !.rpt = 60000]
    [] how = "bare" -> [w EXCEPT !.ssize = 0]

DamagedIn(p, hits) == [d \in hits |-> [p EXCEPT !.words[d[1]] = Hit(@, d[2])]] @@ << >>

Damaged == DamagedIn(Undamaged, (0..(Undamaged.longs - 1)) \X Hits)
=============================================================================
