------------------------------ MODULE Exporter ------------------------------
(***************************************************************************)
(* The exporter (exporter/main.cpp): it reads a file payload by payload,     *)
(* collects the scaled samples of all streams of a payload by key, and has   *)
(* two writers tell of them, one in XML and one in CSV, where the samples    *)
(* of all keys that fall on one time share a row.                           *)
(*                                                                         *)
(* What the library answers is given: a payload is the sequence of its       *)
(* streams, a stream the record of what the finders and getters say of it    *)
(* and whether GPMF_ScaledData has samples for it.  Times count a unit small *)
(* enough for every sample of the file; the code's are doubles, and of two   *)
(* equal fractions one may come out a little later.  Texts are told by how   *)
(* they look; none holds the delimiter or a quote.                           *)
(***************************************************************************)
EXTENDS Integers, Sequences

LOCAL INSTANCE SequencesExt
LOCAL INSTANCE FiniteSets

CONSTANTS
  Files,    (* the files an exporter may be given: sequences of payloads      *)
  Keys,     (* the keys of streams, in the order of a map of strings          *)
  Mapping,  (* the names of the elements of some keys                         *)
  SizeOf,   (* the bytes of an element of a type, 0 of any other character    *)
  ValueName,(* the name of an element that has no name of its own             *)
  Roundings (* sets of fractions <<idx, count>> that may come out late        *)

ASSUME RoundingsAssumption == \A late \in Roundings : \A f \in late : f[1] > 0

ASSUME MappingAssumption ==
  /\ DOMAIN Mapping \subseteq {Keys[i] : i \in DOMAIN Keys}
  /\ \A k \in DOMAIN Mapping : \A i, j \in DOMAIN Mapping[k] :
       Mapping[k][i] = Mapping[k][j] => i = j
  /\ \A k \in DOMAIN Mapping : \A i \in DOMAIN Mapping[k] : Mapping[k][i] # ValueName

SHOW_INDEX == 1

VARIABLES
  file,      (* the payloads of the file                                      *)
  showAll,   (* option -a: all payloads, not just the one of SHOW_INDEX       *)
  late,      (* the fractions that come out late in the doubles of this build *)
  index,     (* the payload                                                   *)
  pc,        (* what is done with it                                          *)
  stream,    (* the streams of it that were looked at                         *)
  meta,      (* the entries of the payload by key (entriesPerType)            *)
  todo,      (* the keys the writer still has to write, the current one first *)
  idx,       (* the entries of the current key that are written, or NotBegun  *)
  xml, csv,  (* the two files                                                 *)
  combined   (* the rows of the CSV file that are being made (combinedData)   *)

vars == <<file, showAll, late, index, pc, stream, meta, todo, idx, xml, csv, combined>>

payload == file[index + 1]

NotBegun == -1

-----------------------------------------------------------------------------
(* CMetadata: the entries of a payload.  A value is told by the stream and   *)
(* the element it comes from, or, for a FourCC, by the place its characters   *)
(* were read at, and by how its text looks: as a number, printable, or not.   *)

Value(s, kind, at, look, unit) ==
  [stream |-> s, kind |-> kind, at |-> at, look |-> look, unit |-> unit]

(* The characters of TYPE as they are; behind them are zeros.                *)
TypeAt(s, j) == IF j =< Len(s.typed) THEN s.typed[j] ELSE "nul"

TextAt(n, s, pos) ==
  Value(n, "text", pos, IF pos \in DOMAIN s.looks THEN s.looks[pos] ELSE "unprintable", "")

(* Mutant: the place is not carried from one sample to the next.             *)
PosAtSample(s, sample, j) ==
  LET sum[n \in 0 .. s.elements] == IF n = 0 THEN 0 ELSE sum[n - 1] + SizeOf[TypeAt(s, n)]
  IN sum[j - 1]

(* `pos' is where the next FourCC is looked for: behind the elements before   *)
(* it, through all samples.                                                 *)
PosAt(s, sample, j) ==
  LET sum[n \in 0 .. s.elements] == IF n = 0 THEN 0 ELSE sum[n - 1] + SizeOf[TypeAt(s, n)]
  IN (sample - 1) * sum[s.elements] + sum[j - 1]

ExportedValue(n, s, sample, j) ==
  IF s.typed # << >> /\ TypeAt(s, j) = "F" THEN TextAt(n, s, PosAt(s, sample, j))
  ELSE Value(n, "number", <<sample, j>>, "number", s.units[((j - 1) % Len(s.units)) + 1])

EntriesOfStream(n, s) ==
  IF ~s.seeks \/ ~s.scales THEN << >>
  ELSE [sample \in 1 .. s.rpt |-> [j \in 1 .. s.elements |-> ExportedValue(n, s, sample, j)]]

(* CMetadata::addEntry, once for each sample.                                *)
EntriesOf(m, key) == IF key \in DOMAIN m THEN m[key] ELSE << >>

Added(m, key, entries) ==
  IF entries = << >> THEN m
  ELSE [k \in DOMAIN m \union {key} |-> IF k = key THEN EntriesOf(m, k) \o entries ELSE m[k]]

InMapOrder(m) == SelectSeq(Keys, LAMBDA k : k \in DOMAIN m)

(* The time of an entry, of the `count' its key has in the payload, and       *)
(* whether it is the late one of the doubles next to one another there.      *)
TimeOf(n, count) ==
  <<payload.in + (n * (payload.out - payload.in)) \div count,
    IF payload.in # payload.out /\ <<n, count>> \in late THEN 1 ELSE 0>>

Before(t, u) == t[1] < u[1] \/ (t[1] = u[1] /\ t[2] < u[2])

ElementName(key, pos) ==
  IF key \in DOMAIN Mapping /\ pos =< Len(Mapping[key]) THEN Mapping[key][pos] ELSE ValueName

-----------------------------------------------------------------------------
(* The files.  What is written to a file that is not open is lost.           *)

Closed == [open |-> FALSE, lines |-> << >>]

Put(f, lines) == IF f.open THEN [f EXCEPT !.lines = @ \o lines] ELSE f

(* CExporterXml.  A line opens or closes an element, or is a whole one.      *)
Opens(tag, of)  == [tag |-> tag, does |-> "opens", of |-> of]
Closes(tag)     == [tag |-> tag, does |-> "closes", of |-> << >>]
Leaf(key, pos, value) == [tag |-> ElementName(key, pos), does |-> "both", of |-> value]

XmlCreated == [open |-> TRUE, lines |-> <<Opens("video_meta", << >>)>>]

XmlEntry(key, n, count, entry) ==
  <<Opens("values", <<n, TimeOf(n, count)>>)>>
    \o [pos \in DOMAIN entry |-> Leaf(key, pos, entry[pos])] \o <<Closes("values")>>

(* CExporterCsv.  Its columns are the named elements of all keys.            *)
Columns == FlattenSeq([i \in DOMAIN Keys |->
             IF Keys[i] \in DOMAIN Mapping
             THEN [pos \in DOMAIN Mapping[Keys[i]] |-> <<Keys[i], Mapping[Keys[i]][pos]>>] ELSE << >>])

EmptyCells == [c \in DOMAIN Columns |-> << >>]

(* Mutant: a row is made when its first cell is.                             *)
CellsNoRow(time) == IF time \in DOMAIN combined THEN combined[time] ELSE << >>

CellsOf(time) == IF time \in DOMAIN combined THEN combined[time] ELSE EmptyCells

(* A second value of a cell is put behind the first; one that has no column   *)
(* is dropped.                                                              *)
Filled(cells, key, entry) ==
  [c \in DOMAIN cells |->
     LET found == {pos \in DOMAIN entry : <<key, ElementName(key, pos)>> = Columns[c]}
     IN IF found = {} THEN cells[c] ELSE Append(cells[c], entry[CHOOSE pos \in found : TRUE])]

CsvEntry(key, n, count, entry) ==
  LET time == TimeOf(n, count)
  IN [t \in DOMAIN combined \union {time} |->
        IF t = time THEN Filled(CellsOf(time), key, entry) ELSE combined[t]]

(* The fields of the row that a cell makes, each what a reader of the file    *)
(* finds between two delimiters: none of the values, or some, in quotes or   *)
(* bare.  The values of a cell are joined by the delimiter, so a cell that   *)
(* is taken for a number, as the first of its values tells (strtod takes a   *)
(* prefix), makes a field of each; text in quotes stays one field, and what  *)
(* cannot be printed is question marks.                                      *)
Blank == [as |-> "blank", of |-> << >>]

Written(cell) ==
  IF cell = << >> THEN <<Blank>>
  ELSE IF cell[1].look = "number" THEN [i \in DOMAIN cell |-> [as |-> "bare", of |-> <<cell[i]>>]]
  ELSE IF \A i \in DOMAIN cell : cell[i].look # "unprintable" THEN <<[as |-> "quoted", of |-> cell]>>
  ELSE <<[as |-> "unknown", of |-> << >>]>>

CsvHeader ==
  [time |-> <<-1, 0>>, frame |-> -1,
   fields |-> [c \in DOMAIN Columns |-> [as |-> "quoted", of |-> Columns[c]]]]
CsvCreated == [open |-> TRUE, lines |-> <<CsvHeader>>]

CsvRows ==
  LET times == [r \in 1 .. Cardinality(DOMAIN combined) |->
                  CHOOSE t \in DOMAIN combined :
                    Cardinality({u \in DOMAIN combined : Before(u, t)}) = r - 1]
  IN [r \in DOMAIN times |->
        [time |-> times[r], frame |-> index,
         fields |-> FlattenSeq([c \in DOMAIN combined[times[r]] |-> Written(combined[times[r]][c])])]]

-----------------------------------------------------------------------------
(* The steps of readMP4File.                                                 *)

(* GetPayload, GetPayloadTime and GPMF_Init; a failure ends the export.       *)
LoadPayload ==
  /\ pc = "load"
  /\ index < Len(file)
  /\ IF ~payload.loads THEN pc' = "cleanup" /\ UNCHANGED index
     ELSE IF showAll \/ index = SHOW_INDEX THEN pc' = "start" /\ UNCHANGED index
     ELSE index' = index + 1 /\ UNCHANGED pc
  /\ UNCHANGED <<file, showAll, late, stream, meta, todo, idx, xml, csv, combined>>

(* Mutant: the files are created for every payload.                          *)
CreatedAlways(f, new) == new

(* exporter->create: the file is opened, and cut, at the payload SHOW_INDEX.  *)
Created(f, new) == IF index = SHOW_INDEX THEN new ELSE f

(* Mutant: the rows of the payload before are kept.                          *)
ClearedNot == combined

(* combinedData.clear()                                                      *)
Cleared == << >>

StartMetadata ==
  /\ pc = "start"
  /\ xml' = Put(Created(xml, XmlCreated), <<Opens("index", index)>>)
  /\ csv' = Created(csv, CsvCreated)
  /\ combined' = Cleared
  /\ meta' = << >> /\ stream' = 0
  /\ pc' = "collect"
  /\ UNCHANGED <<file, showAll, late, index, todo, idx>>

(* The next STRM: its samples are found, scaled to doubles and kept.          *)
CollectStream ==
  /\ pc = "collect"
  /\ stream < Len(payload.streams)
  /\ LET s == payload.streams[stream + 1]
     IN meta' = Added(meta, s.key, EntriesOfStream(stream + 1, s))
  /\ stream' = stream + 1
  /\ UNCHANGED <<file, showAll, late, index, pc, todo, idx, xml, csv, combined>>

CollectEnd ==
  /\ pc = "collect"
  /\ stream = Len(payload.streams)
  /\ pc' = "xml" /\ todo' = InMapOrder(meta) /\ idx' = NotBegun
  /\ UNCHANGED <<file, showAll, late, index, stream, meta, xml, csv, combined>>

Writing == pc \in {"xml", "csv"}

WriteXml(lines) == xml' = IF pc = "xml" THEN Put(xml, lines) ELSE xml

TypeStart ==
  /\ Writing /\ todo # << >> /\ idx = NotBegun
  /\ WriteXml(<<Opens("entry", Head(todo))>>)
  /\ idx' = 0
  /\ UNCHANGED <<file, showAll, late, index, pc, stream, meta, todo, csv, combined>>

Write ==
  /\ Writing /\ todo # << >>
  /\ LET key == Head(todo)
         count == Len(meta[key])
     IN /\ idx \in 0 .. count - 1
        /\ WriteXml(XmlEntry(key, idx, count, meta[key][idx + 1]))
        /\ combined' = IF pc = "csv" THEN CsvEntry(key, idx, count, meta[key][idx + 1]) ELSE combined
  /\ idx' = idx + 1
  /\ UNCHANGED <<file, showAll, late, index, pc, stream, meta, todo, csv>>

TypeStop ==
  /\ Writing /\ todo # << >> /\ idx = Len(meta[Head(todo)])
  /\ WriteXml(<<Closes("entry")>>)
  /\ todo' = Tail(todo) /\ idx' = NotBegun
  /\ UNCHANGED <<file, showAll, late, index, pc, stream, meta, csv, combined>>

(* The XML writer has told all of the payload, then the CSV writer.          *)
MetadataStopXml ==
  /\ pc = "xml" /\ todo = << >>
  /\ WriteXml(<<Closes("index")>>)
  /\ pc' = "csv" /\ todo' = InMapOrder(meta)
  /\ UNCHANGED <<file, showAll, late, index, stream, meta, idx, csv, combined>>

MetadataStopCsv ==
  /\ pc = "csv" /\ todo = << >>
  /\ csv' = Put(csv, CsvRows)
  /\ index' = index + 1 /\ pc' = "load"
  /\ UNCHANGED <<file, showAll, late, stream, meta, todo, idx, xml, combined>>

(* cleanup: the writers close their files.                                  *)
Cleanup ==
  /\ pc = "cleanup" \/ (pc = "load" /\ index = Len(file))
  /\ xml' = [Put(xml, <<Closes("video_meta")>>) EXCEPT !.open = FALSE]
  /\ csv' = [csv EXCEPT !.open = FALSE]
  /\ pc' = "done"
  /\ UNCHANGED <<file, showAll, late, index, stream, meta, todo, idx, combined>>

Init ==
  /\ file \in Files
  /\ showAll \in BOOLEAN
  /\ late \in Roundings
  /\ index = 0 /\ pc = "load" /\ stream = 0
  /\ meta = << >> /\ todo = << >> /\ idx = NotBegun
  /\ xml = Closed /\ csv = Closed /\ combined = << >>

Next ==
  \/ LoadPayload
  \/ StartMetadata
  \/ CollectStream \/ CollectEnd
  \/ TypeStart \/ Write \/ TypeStop
  \/ MetadataStopXml \/ MetadataStopCsv
  \/ Cleanup

Spec == Init /\ [][Next]_vars

-----------------------------------------------------------------------------
(* What the properties compare with: the samples of the file.                *)

(* The payloads that are exported into an open file: those before the first   *)
(* that cannot be loaded, from SHOW_INDEX on.                                *)
Exported ==
  {n \in SHOW_INDEX .. Len(file) - 1 :
     /\ showAll \/ n = SHOW_INDEX
     /\ \A m \in 0 .. n : file[m + 1].loads}

Told(n) == {i \in DOMAIN file[n + 1].streams :
              file[n + 1].streams[i].seeks /\ file[n + 1].streams[i].scales}

(* The samples of a payload: those of the streams of one key follow one      *)
(* another in time.                                                         *)
SampleSet(n) ==
  UNION {{<<i, s>> : s \in 1 .. file[n + 1].streams[i].rpt} : i \in Told(n)}

KeyOf(n, p) == file[n + 1].streams[p[1]].key

OfKey(n, key) == {p \in SampleSet(n) : KeyOf(n, p) = key}

Rank(n, p) ==
  Cardinality({q \in OfKey(n, KeyOf(n, p)) : q[1] < p[1] \/ (q[1] = p[1] /\ q[2] < p[2])})

TimeOfSample(n, p) ==
  LET f == file[n + 1]
  IN f.in + (Rank(n, p) * (f.out - f.in)) \div Cardinality(OfKey(n, KeyOf(n, p)))

(* The place of an element of a sample in the bytes of the stream.           *)
PlaceIn(s, sample, e) ==
  LET sum[n \in 0 .. Len(s.fields)] == IF n = 0 THEN 0 ELSE sum[n - 1] + SizeOf[s.fields[n]]
  IN (sample - 1) * sum[Len(s.fields)] + sum[e - 1]

(* The value is the element of the sample: a FourCC its text, if TYPE is      *)
(* written out, element by element.                                         *)
Tells(value, n, p, e) ==
  LET s == file[n + 1].streams[p[1]]
  IN /\ value.stream = p[1]
     /\ IF s.fields[e] = "F"
        THEN s.typed = s.fields =>
               value.kind = "text" /\ value.at = PlaceIn(s, p[2], e)
        ELSE value.kind = "number" /\ value.at = <<p[2], e>>

-----------------------------------------------------------------------------
(* What the variables hold.  The entries of the payload are counted and the   *)
(* rows that are made are as wide as the header, those written at least.     *)
TypeOK ==
  /\ index \in 0 .. Len(file)
  /\ pc \in {"load", "start", "collect", "xml", "csv", "cleanup", "done"}
  /\ pc \in {"collect", "xml", "csv"} => stream \in 0 .. Len(payload.streams)
  /\ todo # << >> => idx \in NotBegun .. Len(meta[Head(todo)])
  /\ \A k \in DOMAIN meta : meta[k] # << >>
  /\ pc = "csv" => \A t \in DOMAIN combined : DOMAIN combined[t] = DOMAIN Columns
  /\ \A r \in DOMAIN csv.lines : Len(csv.lines[r].fields) >= Len(Columns)

Nested(lines) ==
  LET after[n \in 0 .. Len(lines)] ==
        IF n = 0 THEN << >>
        ELSE LET line == lines[n] stack == after[n - 1]
             IN CASE line.does = "opens"  -> Append(stack, line.tag)
                  [] line.does = "closes" ->
                       IF stack # << >> /\ stack[Len(stack)] = line.tag
                       THEN SubSeq(stack, 1, Len(stack) - 1) ELSE <<"broken">>
                  [] OTHER -> stack
  IN after[Len(lines)] = << >>
       /\ \A n \in 1 .. Len(lines) - 1 : after[n] # << >>

(* The element of a name that is open at line n of the XML file.              *)
Within(n, tag) ==
  LET open == {m \in 1 .. n : xml.lines[m].does = "opens" /\ xml.lines[m].tag = tag}
  IN xml.lines[CHOOSE m \in open : \A k \in open : k =< m].of

XmlSamples ==
  {<<Within(n, "index"), Within(n, "values")[2][1]>> :
     n \in {n \in DOMAIN xml.lines : xml.lines[n].does = "opens" /\ xml.lines[n].tag = "values"}}

CsvSamples == {<<csv.lines[r].frame, csv.lines[r].time[1]>> : r \in 2 .. Len(csv.lines)}

(* The XML file, if there is one, is well formed when the program ends,       *)
(* however it ends (main.cpp:116-126, 476-485), and it and the CSV file tell  *)
(* of the same samples at the same times: those of the exported payloads.    *)
FilesAgree ==
  pc = "done" =>
    /\ Nested(xml.lines)
    /\ XmlSamples = CsvSamples
    /\ CsvSamples = UNION {{<<n, TimeOfSample(n, p)>> : p \in SampleSet(n)} : n \in Exported}
    /\ Exported # {} => xml.lines # << >> /\ csv.lines # << >>

(* Each value of the XML file stands under its key, in the place of its       *)
(* sample, with the name and the unit of its element (main.cpp:337-414,       *)
(* CExporterXml.cpp:79-111).                                                 *)
ValueLines == {n \in DOMAIN xml.lines : xml.lines[n].does = "both"}

XmlRight ==
  pc = "done" =>
    /\ \A n \in ValueLines :
         LET frame == Within(n, "index")
             key == Within(n, "entry")
             sample == {p \in OfKey(frame, key) : Rank(frame, p) = Within(n, "values")[1]}
             e == Cardinality({m \in ValueLines : m =< n /\ \A k \in m .. n : k \in ValueLines})
             named == key \in DOMAIN Mapping /\ e \in DOMAIN Mapping[key]
         IN /\ \E p \in sample :
                 LET s == file[frame + 1].streams[p[1]]
                 IN /\ Tells(xml.lines[n].of, frame, p, e)
                    /\ xml.lines[n].of.kind = "number" =>
                         xml.lines[n].of.unit = s.units[((e - 1) % Len(s.units)) + 1]
            /\ xml.lines[n].tag = IF named THEN Mapping[key][e] ELSE ValueName
    /\ LET elements(n, p) == file[n + 1].streams[p[1]].elements
           values == UNION {UNION {{<<n, p, e>> : e \in 1 .. elements(n, p)} : p \in SampleSet(n)} :
                              n \in Exported}
       IN Cardinality(ValueLines) = Cardinality(values)

(* The elements of the samples of a payload that a column is named for, each  *)
(* due in that column at the time of its sample.                             *)
Due(n) ==
  UNION {LET key == KeyOf(n, p)
             time == TimeOfSample(n, p)
             elements == file[n + 1].streams[p[1]].elements
         IN {[time |-> time, column |-> d[1], sample |-> p, element |-> d[2]] :
               d \in {c \in (DOMAIN Columns) \X (1 .. elements) :
                       Columns[c[1]] = <<key, ElementName(key, c[2])>>}} :
           p \in SampleSet(n)}

RowsAt(n, time) ==
  {r \in 2 .. Len(csv.lines) : csv.lines[r].frame = n /\ csv.lines[r].time[1] = time}

RowTimes(n) ==
  {csv.lines[r].time[1] : r \in {q \in 2 .. Len(csv.lines) : csv.lines[q].frame = n}}

(* The field tells of the element, or says of its cell, which has a FourCC,    *)
(* that it cannot be printed.                                               *)
TellsOf(field, n, d, due) ==
  \/ /\ field.as = "unknown"
     /\ \E o \in due : file[n + 1].streams[o.sample[1]].fields[o.element] = "F"
  \/ \E i \in DOMAIN field.of : Tells(field.of[i], n, d.sample, d.element)

(* A column has its place in a row as long as no column before it has to hold  *)
(* two elements.  There a field is blank or holds the element its column is  *)
(* named for, of a sample at the time of the row; every element due there is *)
(* in exactly one, beside the others of its sample; a row without such an    *)
(* overfull column is as wide as the header; and rows are in the order of    *)
(* time (CExporterCsv.cpp:55-141).  Samples of one key share a time only in a *)
(* payload of no length: there the fields behind the first overfull column   *)
(* stand further to the right.                                              *)
RowsRight(n, time, all) ==
  LET rows == RowsAt(n, time)
      due(c) == {d \in all : d.time = time /\ d.column = c}
      overfull == {c \in DOMAIN Columns : Cardinality(due(c)) > 1}
      inPlace == {c \in DOMAIN Columns : \A b \in overfull : c =< b}
      field(r, c) == csv.lines[r].fields[c]
      holding(c) == {r \in rows : field(r, c) # Blank}
  IN /\ overfull # {} => file[n + 1].in = file[n + 1].out
     /\ \A c \in inPlace :
          /\ Cardinality(holding(c)) = IF due(c) = {} THEN 0 ELSE 1
          /\ \A r \in holding(c) : \E d \in due(c) : TellsOf(field(r, c), n, d, due(c))
          /\ \A b \in inPlace :
               Columns[b][1] = Columns[c][1] /\ due(b) # {} /\ due(c) # {}
                 => holding(b) = holding(c)
     /\ \A r \in rows : overfull = {} => Len(csv.lines[r].fields) = Len(Columns)
     /\ \A c \in DOMAIN Columns : \A d \in due(c) :
          \E r \in rows : \E f \in DOMAIN csv.lines[r].fields :
            TellsOf(field(r, f), n, d, due(c))

CsvRight ==
  pc = "done" =>
    /\ \A n \in Exported :
         LET all == Due(n)
         IN \A time \in {TimeOfSample(n, p) : p \in SampleSet(n)} \union RowTimes(n) :
              RowsRight(n, time, all)
    /\ \A r, q \in 2 .. Len(csv.lines) : r < q =>
         \/ csv.lines[r].frame < csv.lines[q].frame
         \/ csv.lines[r].frame = csv.lines[q].frame /\ Before(csv.lines[r].time, csv.lines[q].time)
=============================================================================
