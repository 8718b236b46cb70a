---------------------------- MODULE MCTypedData ----------------------------
(***************************************************************************)
(* The entries the runs of typed data are given, each with the samples it   *)
(* was written from.  The bytes of a plain entry are their places, so that   *)
(* no two are alike.  Compressed entries are made by an encoder that writes   *)
(* what the code book says: differences divided by a quantum, equal samples  *)
(* as runs and zeros, differences beyond the book behind an escape code, and *)
(* the end code in place of the samples that repeat the last one.           *)
(***************************************************************************)
EXTENDS TypedData, TLC

SE == INSTANCE SequencesExt
FE == INSTANCE FiniteSetsExt

Alone == [TYPE |-> {}, SCAL |-> {}, MTRX |-> {}, ORIN |-> {}, ORIO |-> {}]
NoFar == [TYPE |-> {}]

(* A sequence, evaluated once and for all.                                   *)
Listed(s) == s \o << >>

Copies(n, x) == Listed([i \in 1 .. n |-> x])

SumSize(fields) == SE!FoldLeft(LAMBDA n, t : n + SizeofType(t), 0, fields)

(* Samples of the given fields, whose bytes are 0, 1, 2, ...                 *)
Numbered(fields, rpt) ==
  LET ssize == SumSize(fields)
      At(e) == SumSize(SubSeq(fields, 1, e - 1))
  IN Listed([s \in 1 .. rpt |-> Listed([e \in DOMAIN fields |->
        Listed([b \in 1 .. SizeofType(fields[e]) |-> (s - 1) * ssize + At(e) + b - 1])])])

Ahead(rpt) == {ask \in (0 .. rpt) \X (0 .. rpt + 1) : ask[1] + ask[2] =< rpt + 1}

NoHeader == [type |-> NEST, ssize |-> 0, rpt |-> 0]

Entry(type, fields, rpt, near, far) ==
  [type |-> type, ssize |-> SumSize(fields), rpt |-> rpt, was |-> NoHeader,
   bytes |-> Listed([i \in 1 .. SumSize(fields) * rpt |-> i - 1]),
   near |-> near, far |-> far, asks |-> Ahead(rpt), fields |-> fields,
   samples |-> Numbered(fields, rpt), marks |-> << >>]

Plain(type, elements, rpt, near) == Entry(type, Copies(elements, type), rpt, near, NoFar)

-----------------------------------------------------------------------------
(* Scales, matrices and orientations.                                        *)

Scal(type, rpt)    == [Alone EXCEPT !.SCAL = {[type |-> type, rpt |-> rpt]}]
Mtrx(type, values) == [Alone EXCEPT !.MTRX = {[type |-> type, values |-> values]}]

Axis(axis, neg) == [axis |-> axis, neg |-> neg]
Orient(near, from, to) == [near EXCEPT !.ORIN = {from}, !.ORIO = {to}]

YxZ == <<Axis("y", FALSE), Axis("x", TRUE), Axis("z", FALSE)>>
XYZ == <<Axis("x", FALSE), Axis("y", FALSE), Axis("z", FALSE)>>

Axes2 == Orient(Alone, <<Axis("x", FALSE), Axis("y", TRUE)>>, <<Axis("y", FALSE), Axis("x", FALSE)>>)

Turns  == <<"zero", "one", "zero", "negone", "zero", "zero", "zero", "zero", "one">>
Gains  == <<"a", "zero", "negone", "b", "c", "one", "zero", "d", "e">>

PlainEntries ==
  {Plain(t, 1, 2, Alone) : t \in {"c", "b", "F", "q", "Q", "d", "j", "U", STRANGE}}
    \union {Plain(t, 2, 2, Scal("s", 2)) : t \in {"B", "s", "S", "f", "l"}}
    \union {Plain("s", 3, 2, near) : near \in {
              Scal("l", 3), Scal("L", 1), Scal("s", 2), Scal("d", 1),
              Orient(Scal("l", 3), YxZ, XYZ), Orient(Mtrx("s", Turns), YxZ, XYZ),
              Orient(Mtrx("f", Gains), YxZ, XYZ), Mtrx("d", Gains), Mtrx("s", Turns),
              Mtrx("j", Gains), Orient(Alone, YxZ, SubSeq(XYZ, 1, 2))}}
    \union {Plain("L", 2, 3, Axes2), Plain("S", 3, 0, Alone)}
    \union {[Plain("B", 1, 4, Alone) EXCEPT !.type = NEST]}

(* Complex structures, with TYPE beside them or further out.                 *)
Typed(src, near) == [near EXCEPT !.TYPE = {src}]
Complex(fields, rpt, src, near) == Entry(COMPLEX, fields, rpt, Typed(src, near), NoFar)

Face == <<"L", "f", "B", "B", "S">>

ComplexEntries ==
  {Complex(Face, 2, Face, Alone), Complex(Face, 2, Face, Scal("L", 5)),
   Complex(<<"F", "f">>, 3, <<"F", "f">>, Alone),
   Complex(<<"f", "f", "f", "F">>, 2, <<"f", "[", "3", "]", "F">>, Scal("s", 4)),
   Complex(<<"d", "c", "c">>, 2, <<"d", "c", "[", "2", "]", NUL, NUL>>, Alone),
   Complex(<<"U", "s">>, 2, <<"U", "s">>, Alone),
   Complex(<<"l", "l">>, 2, <<"l", "[", "0", "2", "]">>, Axes2),
   Complex(<<"f">>, 2, <<"f", "[", "1", "]">>, Mtrx("f", <<"a">>)),
   [Complex(<<"L", "f", "B", "B">>, 2, <<"L", "f", "B", "B">>, Alone) EXCEPT !.ssize = 12, !.rpt = 1],
   Complex(<<"L", STRANGE>>, 2, <<"L", STRANGE>>, Alone),
   Complex(Copies(10, "B"), 1, <<"B", "[", "1", "0", "]">>, Alone),
   Complex(Copies(8, "B"), 2, Copies(8, "B"), Alone),
   Complex(Copies(7, "B"), 2, <<"B", "[", "6", "]", "B">>, Alone),
   Entry(COMPLEX, Face, 2, Alone, [TYPE |-> {Face}]),
   Entry(COMPLEX, Face, 1, Alone, NoFar)}

-----------------------------------------------------------------------------
(* The encoder.  A code is its bits, and the samples it stands for.          *)

Digits(value, size) == Listed([n \in 1 .. size |-> (value \div 2^(size - n)) % 2])

Code(c, advance) == [bits |-> Digits(c[2], c[1]), advance |-> advance]

ValueCode(v, unit) ==
  IF v \in -38 .. 38
  THEN LET c == ValueCodes[IF v > 0 THEN v ELSE -v]
       IN Code(<<c[1] + 1, 2 * c[2] + (IF v > 0 THEN 0 ELSE 1)>>, 1)
  ELSE [Code(EscCode, 1) EXCEPT !.bits = @ \o Digits(v % 256^unit, 8 * unit)]

ChannelCodes(deltas, unit) ==
  LET n == Len(deltas)
      Values(i) == {j \in i .. n : deltas[j] # 0}
      Zeros(i) == IF Values(i) = {} THEN n - i + 1 ELSE FE!Min(Values(i)) - i
      From[i \in 1 .. n + 1] ==
        IF Zeros(i) = n - i + 1 THEN <<Code(EndCode, 0)>>
        ELSE IF Zeros(i) >= 16
        THEN LET z == FE!Max({r \in DOMAIN RunLength : RunLength[r] =< Zeros(i)})
             IN <<Code(RunCodes[z], RunLength[z])>> \o From[i + RunLength[z]]
        ELSE IF deltas[i] = 0 THEN <<Code(ZeroCode, 1)>> \o From[i + 1]
        ELSE <<ValueCode(deltas[i], unit)>> \o From[i + 1]
  IN From[1]

Padded(bits, size) == bits \o Copies((size - (Len(bits) % size)) % size, 0)

Octets(bits) ==
  Listed([i \in 1 .. Len(bits) \div 8 |->
     SE!FoldLeft(LAMBDA n, b : 2 * n + b, 0, SubSeq(bits, 8 * i - 7, 8 * i))])

BigEndian(v, unit) == Octets(Digits(v, 8 * unit))

(* Where the codes of a channel begin, the first of them at bit `base'.      *)
MarksOf(codes, chn, base) ==
  LET BitAt(n) == base + SE!FoldLeft(LAMBDA b, c : b + Len(c.bits), 0, SubSeq(codes, 1, n - 1))
      Count(n)  == 1 + SE!FoldLeft(LAMBDA b, c : b + c.advance, 0, SubSeq(codes, 1, n - 1))
  IN {<<BitAt(n), <<chn, Count(n)>> >> : n \in DOMAIN codes}

(* A channel put behind what there is: quantum, codes, padding.              *)
WithChannel(s, channel, chn, unit) ==
  LET quant == s.bytes \o BigEndian(channel.quant, unit)
      head  == IF Len(quant) % 2 = 0 THEN quant ELSE Append(quant, 0)
      codes == ChannelCodes(channel.deltas, unit)
      bits  == SE!FlattenSeq([n \in DOMAIN codes |-> codes[n].bits])
  IN [bytes |-> head \o Octets(Padded(bits, 16)),
      marks |-> s.marks \union MarksOf(codes, chn, 8 * Len(head))]

(* The samples of a channel, the first and the sums of the differences.      *)
ChannelValues(channel, unit) ==
  SE!FoldLeft(LAMBDA v, d : Append(v, (v[Len(v)] + channel.quant * d) % 256^unit),
              <<channel.first>>, channel.deltas)

AsFunction(pairs) == [b \in {p[1] : p \in pairs} |-> (CHOOSE p \in pairs : p[1] = b)[2]] @@ << >>

(* `channels' are as the decoder has them: two for an element of four bytes. *)
Compressed(type, osize, channels, near, asks) ==
  LET size  == SizeofType(type)
      unit  == IF size = 4 THEN 2 ELSE size
      rpt   == Len(channels[1].deltas) + 1
      n     == Len(channels)
      value == Listed([c \in 1 .. n |-> ChannelValues(channels[c], unit)])
      UnitBytes(s) == Listed([c \in 1 .. n |-> BigEndian(value[c][s], unit)])
      elements == (n * unit) \div size
      From[c \in 0 .. n] ==
        IF c = 0 THEN [bytes |-> SE!FlattenSeq(UnitBytes(1)), marks |-> {}]
        ELSE WithChannel(From[c - 1], channels[c], c - 1, unit)
      data == From[n]
  IN [type |-> COMPRESSED, ssize |-> osize, rpt |-> (Len(data.bytes) + 4) \div osize,
      was |-> [type |-> type, ssize |-> n * unit, rpt |-> rpt],
      bytes |-> data.bytes, near |-> near, far |-> NoFar, asks |-> asks,
      fields |-> Copies(elements, type),
      samples |-> Listed([s \in 1 .. rpt |->
         LET units == UnitBytes(s)
         IN Listed([e \in 1 .. elements |->
              SE!FlattenSeq(SubSeq(units, (e - 1) * (size \div unit) + 1, e * (size \div unit)))])]),
      marks |-> AsFunction(data.marks)]

Channel(first, quant, deltas) == [first |-> first, quant |-> quant, deltas |-> deltas]

(* Differences of every length of code, at every place in a window; equal    *)
(* samples before a value in one window and across two, in runs, and to the  *)
(* end of the channel; escapes.                                              *)
Still(n)  == Copies(n, 0)
Climb(n)  == Listed([i \in 1 .. n |-> i])
Saw(n)    == Listed([i \in 1 .. n |-> IF i % 2 = 0 THEN i ELSE -i])
Mixed16   == <<0, 0, 3, 1, -1, 38, 100, -2, 0, 1, 26>> \o Still(14) \o <<1>> \o Still(13)
               \o <<-4>> \o Still(6)
Escapes   == <<39, 0, -39, 127, -128>> \o Still(12) \o <<60, 1>> \o Still(30)
Runs      == Still(20) \o <<5>> \o Still(150) \o <<2>> \o Still(64 + 32 + 16) \o <<-100>> \o Still(5)

Whole(deltas) == LET n == Len(deltas) + 1 IN {<<0, n>>, <<0, 1>>, <<n \div 2, 3>>}

Packed(type, osize, near, channels) ==
  Compressed(type, osize, channels, near, Whole(channels[1].deltas))

CompressedEntries ==
  {Packed("b", 1, Alone, <<Channel(250, 1, Mixed16)>>),
   Packed("B", 1, Scal("s", 1), <<Channel(5, 3, Mixed16)>>),
   Packed("B", 1, Alone, <<Channel(1, 1, Runs)>>),
   Packed("s", 2, Alone, <<Channel(65530, 1, Climb(40)), Channel(300, 2, Saw(40))>>),
   Packed("S", 1, Axes2, <<Channel(7, 1, Escapes), Channel(65000, 100, Still(47) \o <<1, 0>>)>>),
   Packed("b", 1, Scal("l", 3),
          <<Channel(1, 1, Still(40) \o Escapes), Channel(2, 1, Saw(89)), Channel(3, 2, Still(89))>>),
   Packed("l", 4, Alone, <<Channel(0, 1, Still(46)), Channel(65535, 1, Mixed16)>>)}
   
-----------------------------------------------------------------------------
MCFourCC  == {"DEVC", "DVID", "DVNM"}
MCModulus == 65536
MCBeyond  == {0, 65535}
MCOutTypes == {"d", "f", "S", "b", "j"}
EntryList ==
  FE!FoldSet(LAMBDA e, s : Append(s, e), << >>, PlainEntries \union ComplexEntries \union CompressedEntries)
PackedList == <<Packed("B", 1, Alone, <<Channel(1, 1, <<0, 0, 3>> \o Still(60))>>)>>
MCEntries  == EntryList
JustPacked == PackedList
=============================================================================
