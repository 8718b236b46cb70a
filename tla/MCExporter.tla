----------------------------- MODULE MCExporter -----------------------------
(***************************************************************************)
(* The files the exporter is run on: two to four payloads of 24 units, one   *)
(* of no length, with streams of named and unnamed keys and elements, of     *)
(* structures with FourCCs whose TYPE is told in three ways, keys that       *)
(* return in a second stream, and payloads that cannot be loaded.  The       *)
(* fractions of thirds come out as the others, or late.                      *)
(***************************************************************************)
EXTENDS Exporter

Stream(key, rpt, fields, typed, units) ==
  LET size == [f |-> 4, F |-> 4, L |-> 4, B |-> 1]
      at[e \in 0 .. Len(fields)] == IF e = 0 THEN 0 ELSE at[e - 1] + size[fields[e]]
      fourcc == {e \in DOMAIN fields : fields[e] = "F"}
      places == {<<s, e>> \in (1 .. rpt) \X fourcc : TRUE}
      place(p) == (p[1] - 1) * at[Len(fields)] + at[p[2] - 1]
  IN [key |-> key, rpt |-> rpt, elements |-> Len(fields), fields |-> fields, typed |-> typed,
      units |-> units, seeks |-> TRUE, scales |-> TRUE,
      looks |-> [pos \in {place(p) : p \in places} |->
                   CASE pos % 3 = 0 -> "printable" [] pos % 3 = 1 -> "number" [] OTHER -> "unprintable"]]

Floats(n) == [i \in 1 .. n |-> "f"]

Acc   == Stream("ACCL", 4, Floats(3), << >>, <<"m/s2">>)
Acc3  == Stream("ACCL", 3, Floats(3), << >>, <<"m/s2", "g">>)
Acc1  == Stream("ACCL", 1, Floats(4), << >>, <<"">>)
Scene == Stream("SCEN", 3, <<"F", "f">>, <<"F", "f">>, <<"", "prob">>)
Faces == Stream("SCEN", 2, <<"B", "F", "f">>, <<"B", "F", "f">>, <<"">>)
Short == Stream("SCEN", 2, <<"F", "f">>, <<"F">>, <<"">>)
Runs  == Stream("SCEN", 2, <<"f", "f", "F">>, <<"f", "[", "2", "]", "F">>, <<"">>)
Named == Stream("ZNAM", 2, Floats(2), << >>, <<"a", "b">>)
Empty == Stream("ISOG", 0, Floats(1), << >>, <<"">>)
Gain  == Stream("ISOG", 6, Floats(1), << >>, <<"">>)
Sole  == [Stream("ISOG", 1, Floats(1), << >>, <<"">>) EXCEPT !.seeks = FALSE]
Words == [Stream("ACCL", 2, Floats(3), << >>, <<"">>) EXCEPT !.scales = FALSE]

StreamLists == {<< >>, <<Acc, Scene, Gain>>, <<Acc, Acc3, Sole>>, <<Faces, Empty, Acc1>>,
                <<Words, Named, Short>>, <<Scene, Acc3, Runs>>, <<Gain, Gain, Acc>>}

Payload(n, length, loads, streams) ==
  [in |-> 420 * n, out |-> 420 * n + length, loads |-> loads, streams |-> streams]

Length(n) == IF n = 3 THEN 0 ELSE 420

MCFiles ==
  {[n \in 1 .. 4 |-> Payload(n, Length(n), TRUE, l[((n - 1) % 3) + 1])] :
       l \in {l \in [1 .. 3 -> StreamLists] : l[1] # l[2]}}
    \union {[n \in 1 .. 3 |-> Payload(n, 420, n # bad, <<Acc, Scene>>)] : bad \in 0 .. 3}
    \union {<<Payload(0, 420, TRUE, <<Acc>>)>>, << >>}
MCRoundings == {{}, {f \in (1 .. 12) \X (1 .. 12) : f[1] % 3 = 0}}
MCKeys    == <<"ACCL", "ISOG", "SCEN", "ZNAM">>
MCMapping == [ACCL |-> <<"y", "x_neg", "z">>, ISOG |-> <<"gain">>, SCEN |-> <<"type", "prob">>]
MCSizeOf  == [c \in {"f", "F", "L", "B", "[", "]", "2", "nul"} |->
                CASE c \in {"f", "F", "L"} -> 4 [] c = "B" -> 1 [] OTHER -> 0]
=============================================================================
