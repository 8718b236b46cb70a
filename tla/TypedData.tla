----------------------------- MODULE TypedData -----------------------------
(***************************************************************************)
(* The samples of an entry as numbers: GPMF_FormattedData turns them to the *)
(* byte order of the machine, GPMF_ScaledData divides them by the scale of   *)
(* their stream and stores them in a type the caller chooses.  Both          *)
(* decompress a compressed entry first (Decompress), and take the layout of  *)
(* a complex structure from the TYPE beside it.                             *)
(*                                                                         *)
(* A byte of data is a number, an element the sequence of its bytes, and an  *)
(* arithmetic result the formal sum it is: which elements, divided by which  *)
(* place of SCAL, with which entry of the matrix.                           *)
(*                                                                         *)
(* An entry is the record of its header, its bytes, and what the finders     *)
(* answer from it: `near' in its nest, `far' in an enclosing one, of which   *)
(* the search at all levels may find TYPE or miss it (KlvCursor says when).  *)
(* Each is a set of at most one.                                            *)
(***************************************************************************)
EXTENDS Decompress

LOCAL INSTANCE SequencesExt
LOCAL INSTANCE FiniteSetsExt
LOCAL INSTANCE FiniteSets
LOCAL INSTANCE TLC

CONSTANTS
  Entries,    (* the entries a stream may stand on, one after the other        *)
  TypeRoom,   (* the 64 bytes a TYPE is expanded into                         *)
  OutTypes    (* the types a caller asks scaled data in                       *)

(* The room for a matrix is fixed: the sum of a sample is put together in     *)
(* tmpbuf[8], and the matrix is kept in the 64 words of mtrx_buffer, read     *)
(* from MTRX or made of the orientations in the type of the result.  The     *)
(* code does not hold elements and matrix against it; what it does with an   *)
(* entry that needs more is not said here.                                   *)
SumRoom    == 8
MatrixRoom == 256

ASSUME MatrixAssumption ==
  \A i \in DOMAIN Entries :
    LET k == Entries[i] n == Len(k.fields)
    IN /\ k.near.MTRX # {} \/ (k.near.ORIN # {} /\ k.near.ORIO # {}) => n =< SumRoom
       /\ \A m \in k.near.MTRX : SizeofType(m.type) * Len(m.values) =< MatrixRoom
       /\ \A p \in k.near.ORIN \X k.near.ORIO : Len(p[1]) = n /\ Len(p[2]) = n =>
            \A t \in OutTypes : SizeofType(t) * n * n =< MatrixRoom

VARIABLES
  entry,      (* the entry the stream stands on                               *)
  book,       (* whether the stream has a code book (cbhandle)                 *)
  call,       (* the call that runs, or ran last, with its locals             *)
  dec,        (* the decoder, and the buffer GPMF_FormattedData writes        *)
  out         (* the elements GPMF_ScaledData has written                     *)

vars == <<entry, book, call, dec, out>>

-----------------------------------------------------------------------------
(* The getters.  Of a compressed entry they tell what it was before.         *)

Header(k)    == IF k.type = COMPRESSED THEN k.was ELSE k
Type(k)      == Header(k).type
StructSize(k) == Header(k).ssize
Repeat(k)    == Header(k).rpt
FormattedDataSize(k) == PackedSize(Header(k))

(* The characters of a TYPE.                                                 *)
NUL == "nul"
DigitOf == [c \in {"0", "1", "2", "3", "4", "5", "6", "7", "8", "9"} |->
              CHOOSE n \in 0..9 : ToString(n) = c]

CharAt(src, i) == IF i =< Len(src) THEN src[i] ELSE NUL

(* The first place from i on that is no digit, and the number up to it.       *)
AfterDigits(src, i) ==
  CHOOSE n \in i .. Len(src) + 1 :
    CharAt(src, n) \notin DOMAIN DigitOf /\ \A m \in i .. n - 1 : src[m] \in DOMAIN DigitOf

(* Mutant: a number has one digit.                                           *)
NumberAtOneDigit(src, i) == DigitOf[src[i]]

NumberAt(src, i) ==
  FoldLeft(LAMBDA count, c : 10 * count + DigitOf[c], 0, SubSeq(src, i, AfterDigits(src, i) - 1))

(* GPMF_ExpandComplexTYPE: "f[3]" is "fff".  The expansion, if it has room.   *)
ExpandComplexTYPE(src) ==
  LET From[i \in 1 .. Len(src) + 2] ==
        LET past  == AfterDigits(src, i + 1)
            after == IF CharAt(src, past) = "]" THEN past + 1 ELSE past
        IN IF CharAt(src, i) = NUL THEN << >>
           ELSE IF src[i] = "[" /\ i > 1
           THEN [n \in 1 .. NumberAt(src, i + 1) - 1 |-> src[i - 1]] \o From[after]
           ELSE <<src[i]>> \o From[i + 1]
  IN IF Len(From[1]) < TypeRoom THEN {From[1]} ELSE {}

(* GPMF_SizeOfComplexTYPE of an expanded TYPE: 0 if it has a strange type.    *)
SizeOfComplexTYPE(types) ==
  IF \E i \in DOMAIN types : SizeofType(types[i]) = 0 THEN 0
  ELSE FoldLeft(LAMBDA size, t : size + SizeofType(t), 0, types)

Expanded(found) == UNION {ExpandComplexTYPE(src) : src \in found}

PerStruct(h) == IF SizeofType(h.type) = 0 THEN 0 ELSE h.ssize \div SizeofType(h.type)

(* The search for TYPE here does not leave the nest of the entry.            *)
ElementsInStruct(k) ==
  IF k.type = COMPLEX
  THEN IF Expanded(k.near.TYPE) = {} THEN 0 ELSE Len(CHOOSE t \in Expanded(k.near.TYPE) : TRUE)
  ELSE PerStruct(Header(k))

ScaledDataSize(k, otype) == SizeofType(otype) * ElementsInStruct(k) * Repeat(k)

(* What the search for TYPE at all levels may answer.                        *)
TypeFound(k) == IF k.near.TYPE # {} THEN {k.near.TYPE} ELSE {{}, k.far.TYPE}

-----------------------------------------------------------------------------
(* A call: pc is where it is, offset and count the samples it was asked for,  *)
(* room the bytes of the caller's buffer, types the types of its elements,    *)
(* i and j the sample and the element of the loop, from and to the pointers   *)
(* into the data and the buffer, scal the place in the scales.               *)
NoCall == [pc |-> "idle", op |-> "none", offset |-> 0, count |-> 0, room |-> 0,
           otype |-> "d", granted |-> TRUE, ret |-> "none", types |-> << >>, elements |-> 0,
           i |-> 0, j |-> 0, from |-> 0, to |-> 0, scal |-> 0, scales |-> 0,
           matrix |-> << >>]

Asked(op, offset, count, room, otype) ==
  [NoCall EXCEPT !.op = op, !.offset = offset, !.count = count, !.room = room,
                 !.otype = otype]

Returned(c, code) == [c EXCEPT !.pc = "idle", !.ret = code]

Running == call.pc # "idle"

(* The decoder at rest, with the caller's buffer.                            *)
NoBuffer(room) ==
  [pc |-> "done", buf |-> [i \in 0 .. room - 1 |-> 0], chn |-> 0, pos |-> 0, last |-> 0,
   quant |-> 0, offset |-> 0, currWord |-> 0, nextWord |-> 0, nextBits |-> WordBits, at |-> 0]

(* The verdict of the first check of a sequence that refuses.                *)
FirstRefusal(checks) ==
  LET refusing == {i \in DOMAIN checks : checks[i][1]}
  IN IF refusing = {} THEN "OK" ELSE checks[Min(refusing)][2]

(* What an unsigned difference is.                                           *)
Less(a, b) == IF a >= b THEN a - b ELSE a - b + Modulus

(* The bytes GPMF_FormattedData and GPMF_ScaledData read: of the entry, or    *)
(* those it was decompressed to.                                             *)
DataAt(i) == IF entry.type = COMPRESSED THEN dec.buf[i] ELSE ByteAt(entry, i)

BytesFrom(i, size) == [n \in 1 .. size |-> DataAt(i + n - 1)]

(* Mutant: a FourCC is swapped as other elements of four bytes are.          *)
SwappedAll(type) == SizeofType(type) \in {2, 4, 8}

Swapped(type) == SizeofType(type) \in {2, 4, 8} /\ type # "F"

(* The element of a type at place i, in the order of the machine.            *)
Native(type, bytes) == IF Swapped(type) THEN Reverse(bytes) ELSE bytes

-----------------------------------------------------------------------------
(* GPMF_FormattedData.  In a call for scaled data it runs for all samples of  *)
(* a compressed entry, with the buffer that takes them.                      *)

NestedIn(c)  == c.op = "scaled"
FormatFrom(c)  == IF NestedIn(c) THEN 0 ELSE c.offset
FormatCount(c) == IF NestedIn(c) THEN Repeat(entry) ELSE c.count
FormatRoom(c)  == IF NestedIn(c) THEN FormattedDataSize(entry) ELSE c.room

(* It returns: to the caller, or to GPMF_ScaledData.                         *)
FormatReturns(c, code) ==
  IF NestedIn(c) THEN [c EXCEPT !.pc = "input", !.ret = code] ELSE Returned(c, code)

(* The code book is allocated once for a stream, if memory is granted.       *)
Decompressed(c, granted) ==
  IF book \/ granted
  THEN /\ book' = TRUE
       /\ dec' = Started(entry, FormatRoom(c))
       /\ call' = [c EXCEPT !.pc = "decompress"]
  ELSE /\ call' = FormatReturns([c EXCEPT !.granted = FALSE], "MEMORY")
       /\ UNCHANGED <<book, dec>>

StartFormatted(offset, count, room) ==
  LET c == Asked("formatted", offset, count, room, "d")
  IN /\ call = NoCall
     /\ UNCHANGED <<entry, out>>
     /\ IF entry.type = NEST
        THEN call' = Returned(c, "BAD_STRUCTURE") /\ UNCHANGED <<book, dec>>
        ELSE IF entry.type = COMPRESSED
        THEN \E granted \in BOOLEAN : Decompressed(c, granted)
        ELSE /\ call' = [c EXCEPT !.pc = "layout"]
             /\ dec' = NoBuffer(room)
             /\ UNCHANGED book

DecompressTurn ==
  /\ call.pc = "decompress"
  /\ dec.pc \in {"channel", "code"}
  /\ dec' \in GPMF_Decompress(entry, dec, FormatRoom(call))
  /\ UNCHANGED <<entry, book, call, out>>

DecompressEnd ==
  /\ call.pc = "decompress"
  /\ dec.pc \in {"done", "failed"}
  /\ call' = IF dec.pc = "failed" THEN FormatReturns(call, "MEMORY")
             ELSE [call EXCEPT !.pc = "layout"]
  /\ UNCHANGED <<entry, book, dec, out>>

(* Mutant: the room is not checked.                                          *)
SampleChecksNoRoom(h, offset, count, room) ==
  << <<Less(PackedSize(h), offset * h.ssize) < h.ssize * count, "MEMORY">> >>

(* The samples asked for are there, and there is room for them.              *)
SampleChecks(h, offset, count, room) ==
  << <<h.ssize * count > room, "MEMORY">>,
     <<Less(PackedSize(h), offset * h.ssize) < h.ssize * count, "MEMORY">> >>

LayoutChecks(type, ssize, types) ==
  IF type = COMPLEX
  THEN << <<types = {} \/ \E t \in types : SizeOfComplexTYPE(t) # ssize, "TYPE_NOT_SUPPORTED">> >>
  ELSE << <<SizeofType(type) = 0, "MEMORY">> >>

(* FourCCs are copied byte by byte.                                          *)
PlainLayout(h) ==
  LET t == IF h.type = "F" THEN "c" ELSE h.type
  IN [i \in 1 .. PerStruct([h EXCEPT !.type = t]) |-> t]

(* The size checks, and what the elements of a structure are.                *)
Layout ==
  /\ call.pc = "layout"
  /\ \E found \in TypeFound(entry) :
       LET h     == Header(entry)
           types == IF h.type = COMPLEX THEN Expanded(found) ELSE {PlainLayout(h)}
           code  == FirstRefusal(SampleChecks(h, FormatFrom(call), FormatCount(call), FormatRoom(call))
                                   \o LayoutChecks(h.type, h.ssize, types))
       IN call' = IF code # "OK" THEN FormatReturns(call, code)
                  ELSE [call EXCEPT !.pc = "format", !.types = CHOOSE t \in types : TRUE,
                                    !.from = FormatFrom(call) * h.ssize]
  /\ UNCHANGED <<entry, book, dec, out>>

(* The loops over the samples and over their elements.                       *)
LastOf(n) == call.j + 1 = n

NextElement(c, n) ==
  IF LastOf(n) THEN [c EXCEPT !.i = @ + 1, !.j = 0] ELSE [c EXCEPT !.j = @ + 1]

FormatElement ==
  /\ call.pc = "format"
  /\ call.i < FormatCount(call)
  /\ call.types # << >>
  /\ LET type == call.types[call.j + 1]
         size == SizeofType(type)
         element == Native(type, BytesFrom(call.from, size))
     IN /\ dec' = [dec EXCEPT !.buf = Over([n \in call.to .. call.to + size - 1 |->
                                              element[n - call.to + 1]], @)]
        /\ call' = NextElement([call EXCEPT !.from = @ + size, !.to = @ + size], Len(call.types))
  /\ UNCHANGED <<entry, book, out>>

FormatEnd ==
  /\ call.pc = "format"
  /\ call.i = FormatCount(call) \/ call.types = << >>
  /\ call' = FormatReturns(call, "OK")
  /\ UNCHANGED <<entry, book, dec, out>>

-----------------------------------------------------------------------------
(* GPMF_ScaledData.                                                          *)

StartScaled(offset, count, room, otype) ==
  LET c == Asked("scaled", offset, count, room, otype)
  IN /\ call = NoCall
     /\ UNCHANGED <<entry, out>>
     /\ IF entry.type = NEST
        THEN call' = Returned(c, "MEMORY") /\ UNCHANGED <<book, dec>>
        ELSE IF entry.type = COMPRESSED
        THEN \/ \E granted \in BOOLEAN : Decompressed(c, granted)
             \/ (* no memory for the uncompressed samples                    *)
                /\ call' = [c EXCEPT !.pc = "input", !.ret = "MEMORY", !.granted = FALSE]
                /\ UNCHANGED <<book, dec>>
        ELSE /\ call' = [c EXCEPT !.pc = "input"]
             /\ UNCHANGED <<book, dec>>

(* The input of the loop: the types of the elements (complextype, of which    *)
(* there are inputtypeelements), how many there are, how many samples, where  *)
(* they begin, and the verdict of the checks.  What could not be decompressed *)
(* leaves no types behind; what could is taken whole, whatever was asked.     *)
Input(types, elements, count, code) ==
  [types |-> types, elements |-> elements, count |-> count, code |-> code]

Remains(h, offset, ssize, count) ==
  <<Less(PackedSize(h), offset * ssize) < ssize * count, "MEMORY">>

CompressedInput(c) ==
  LET h == Header(entry)
  IN IF c.ret # "OK" THEN Input(<< >>, 1, c.count, "OK")
     ELSE Input(<<h.type>>, ElementsInStruct(entry), h.rpt,
                FirstRefusal(<< <<SizeofType(h.type) = 0, "MEMORY">>,
                                Remains(h, c.offset, entry.ssize, h.rpt) >>))

ComplexInput(c, types) ==
  LET code == FirstRefusal(<<Remains(entry, c.offset, entry.ssize, c.count)>>
                             \o LayoutChecks(COMPLEX, entry.ssize, types))
      t    == IF types = {} THEN << >> ELSE CHOOSE t \in types : TRUE
  IN Input(t, Len(t), c.count, code)

PlainInput(c) ==
  Input(<<entry.type>>, PerStruct(entry), c.count,
        FirstRefusal(<<Remains(entry, c.offset, entry.ssize, c.count)>>
                       \o LayoutChecks(entry.type, entry.ssize, {})))

InputOf(c, found) ==
  CASE entry.type = COMPRESSED -> CompressedInput(c)
    [] entry.type = COMPLEX    -> ComplexInput(c, Expanded(found))
    [] OTHER                   -> PlainInput(c)

OutputTypes == {"b", "B", "s", "S", "f", "l", "L", "d"}
ScaleTypes  == OutputTypes \ {"d"}

(* SCAL: one divisor, or one for each element; none is a divisor of 1.        *)
ScaleCount(k) == IF k.near.SCAL = {} THEN 1 ELSE (CHOOSE s \in k.near.SCAL : TRUE).rpt % 256

ScaleChecks(k, elements) ==
  << <<\E s \in k.near.SCAL : s.type \notin ScaleTypes, "SCALE_NOT_SUPPORTED">>,
     <<ScaleCount(k) > 1 /\ ScaleCount(k) # elements, "SCALE_COUNT">> >>

MatrixChecks(k, elements) ==
  << <<\E m \in k.near.MTRX : m.type \notin OutputTypes, "SCALE_NOT_SUPPORTED">>,
     <<\E m \in k.near.MTRX : Len(m.values) # elements * elements, "SCALE_COUNT">> >>

(* A matrix of nothing but 1, -1 and 0 turns axes and calibrates nothing: it  *)
(* is made anew of ORIN and ORIO.                                            *)
Calibrates(m) == \E i \in DOMAIN m.values : m.values[i] \notin {"one", "negone", "zero"}

Turned(from, to) ==
  IF from = to THEN "one" ELSE IF from.axis = to.axis THEN "negone" ELSE "zero"

(* Mutant: rows and columns are taken for one another.                       *)
OrientationMatrixTurned(k, elements) ==
  {[i \in 1 .. elements * elements |->
      Turned(in[((i - 1) \div elements) + 1], io[((i - 1) % elements) + 1])] :
     <<in, io>> \in {p \in k.near.ORIN \X k.near.ORIO :
                       Len(p[1]) = Len(p[2]) /\ Len(p[1]) > 1 /\ Len(p[2]) = elements}}

OrientationMatrix(k, elements) ==
  {[i \in 1 .. elements * elements |->
      Turned(in[((i - 1) % elements) + 1], io[((i - 1) \div elements) + 1])] :
     <<in, io>> \in {p \in k.near.ORIN \X k.near.ORIO :
                       Len(p[1]) = Len(p[2]) /\ Len(p[1]) > 1 /\ Len(p[2]) = elements}}

MatrixOf(k, elements) ==
  LET own == {m.values : m \in {m \in k.near.MTRX : Calibrates(m)}}
      all == IF own # {} THEN own ELSE OrientationMatrix(k, elements)
  IN IF all = {} THEN << >> ELSE CHOOSE m \in all : TRUE

PrepareScaling ==
  /\ call.pc = "input"
  /\ \E found \in TypeFound(entry) :
       LET in   == InputOf(call, found)
           e    == in.elements
           code == IF in.code # "OK" THEN in.code
                   ELSE FirstRefusal(
                     << <<SizeofType(call.otype) * e * in.count > call.room, "MEMORY">>,
                        <<in.count * entry.ssize > PackedSize(Header(entry)), "MEMORY">>,
                        <<call.otype \notin OutputTypes, "SCALE_NOT_SUPPORTED">> >>
                     \o ScaleChecks(entry, e) \o MatrixChecks(entry, e))
       IN call' = IF code # "OK" THEN Returned(call, code)
                  ELSE [call EXCEPT !.pc = "scale", !.count = in.count, !.types = in.types,
                                    !.elements = e, !.i = 0, !.j = 0, !.scal = 0,
                                    !.from = call.offset * entry.ssize,
                                    !.scales = ScaleCount(entry), !.matrix = MatrixOf(entry, e)]
  /\ UNCHANGED <<entry, book, dec, out>>

(* The types that can be scaled; a FourCC is stored as it is, if it fits.     *)
Scalable(otype) ==
  {"f", "b", "B", "s", "S", "l", "L", "j", "J"}
    \union (IF entry.type # COMPRESSED /\ SizeofType(otype) >= 4 THEN {"F"} ELSE {})

(* What is stored of an element: the place it was read from, its bytes, the   *)
(* place of its divisor, and whether a negative number is stored as 0.  It    *)
(* counts once, until a matrix is applied.                                  *)
Clamped(type, otype) == type \in {"f", "b", "s", "l", "j"} /\ otype \in {"B", "S", "L"}

Divisor(k, place) == IF k.near.SCAL = {} THEN << >> ELSE <<place>>

Term(type, bytes) ==
  LET stored == type = "F"
  IN [at |-> call.from, bytes |-> bytes, by |-> IF stored THEN << >> ELSE Divisor(entry, call.scal),
      clamped |-> ~stored /\ Clamped(type, call.otype), coef |-> "one"]

(* The sample at the end of cells, multiplied by the matrix.                 *)
Calibrated(cells, elements, matrix) ==
  LET base == Len(cells) - elements
  IN [c \in 1 .. Len(cells) |->
        IF c =< base THEN cells[c]
        ELSE UNION {{[t EXCEPT !.coef = matrix[(c - base - 1) * elements + x]] : t \in cells[base + x]} :
                      x \in 1 .. elements}]

ScaleElement ==
  /\ call.pc = "scale"
  /\ call.i < call.count
  /\ call.j < call.elements
  /\ LET n    == Len(call.types)
         type == call.types[(call.j % n) + 1]
         size == SizeofType(type)
         bytes == BytesFrom(call.from, size)
         cells == Append(out, {Term(type, IF entry.type = COMPRESSED THEN bytes ELSE Native(type, bytes))})
         next == NextElement([call EXCEPT !.from = @ + size], call.elements)
     IN IF n = 0
        THEN call' = Returned(call, "MEMORY") /\ UNCHANGED out
        ELSE IF type \notin Scalable(call.otype)
        THEN call' = Returned(call, "SCALE_NOT_SUPPORTED") /\ UNCHANGED out
        ELSE /\ call' = [next EXCEPT !.scal = IF LastOf(call.elements) THEN 0
                                              ELSE IF call.scales > 1 THEN @ + 1 ELSE @]
             /\ out' = IF LastOf(call.elements) /\ n = 1 /\ call.matrix # << >>
                       THEN Calibrated(cells, call.elements, call.matrix) ELSE cells
  /\ UNCHANGED <<entry, book, dec>>

ScaleEnd ==
  /\ call.pc = "scale"
  /\ call.i = call.count \/ call.elements = 0
  /\ call' = Returned(call, "OK")
  /\ UNCHANGED <<entry, book, dec, out>>
-----------------------------------------------------------------------------
(* The program: one call after the other on the entry, with a buffer of the   *)
(* size the library tells, one a little larger, or, for what need not be      *)
(* decompressed, one that is too small.  An entry says in `asks' which        *)
(* samples a caller asks for: offset and count.  Scaled data of a compressed  *)
(* entry is asked from its first sample on, as the demo and the exporter do.  *)

Rooms(size) == {size, size + 4} \union
               (IF entry.type = COMPRESSED \/ size = 0 THEN {} ELSE {size - 1})

(* The caller has used what it got.                                          *)
Done ==
  /\ ~Running /\ call # NoCall
  /\ call' = NoCall /\ dec' = NoBuffer(0) /\ out' = << >>
  /\ UNCHANGED <<entry, book>>

Start ==
  \E ask \in entry.asks :
    \/ \E room \in Rooms(FormattedDataSize(entry)) : StartFormatted(ask[1], ask[2], room)
    \/ \E otype \in OutTypes : \E room \in Rooms(ScaledDataSize(entry, otype)) :
         /\ entry.type = COMPRESSED => ask[1] = 0
         /\ StartScaled(ask[1], ask[2], room, otype)

Step ==
  \/ DecompressTurn
  \/ DecompressEnd
  \/ Layout
  \/ FormatElement
  \/ FormatEnd
  \/ PrepareScaling
  \/ ScaleElement
  \/ ScaleEnd

Init ==
  /\ \E n \in DOMAIN Entries : entry = Entries[n]
  /\ book = FALSE
  /\ call = NoCall
  /\ dec = NoBuffer(0)
  /\ out = << >>

Next == Start \/ Step \/ Done

Spec == Init /\ [][Next]_vars

-----------------------------------------------------------------------------
(* What the properties compare with: how the entry was written.  `fields' are *)
(* the types of the elements of a structure, `samples' the elements of each   *)
(* sample, as sequences of bytes, high byte first.                           *)

Answered(op) == ~Running /\ call.op = op /\ call.ret = "OK"

(* The samples of a channel of a compressed entry.                           *)
UnitOf(k, s, chn) ==
  LET halves == SizeofType(k.was.type) \div Unit(k)
      half   == (chn % halves) * Unit(k)
  IN SubSeq(k.samples[s][chn \div halves + 1], half + 1, half + Unit(k))

(* The value of the next sample that differs, if there is one.               *)
NextChange(k, s, chn) ==
  LET changes == {t \in s + 1 .. Len(k.samples) :
                    UnitOf(k, t - 1, chn) = UnitOf(k, s, chn) /\ UnitOf(k, t, chn) # UnitOf(k, s, chn)}
  IN {UnitOf(k, t, chn) : t \in {t \in changes : \A r \in changes : t =< r}}

(* What a sample may be read as.  One that repeats the sample before it is    *)
(* stored after the next difference was added, if they are in one window.     *)
UnitsRead(k, s, chn) ==
  {UnitOf(k, s, chn)} \union
  (IF s > 1 /\ UnitOf(k, s, chn) = UnitOf(k, s - 1, chn) THEN NextChange(k, s, chn) ELSE {})

ReadAs(k, s, e) ==
  IF k.type # COMPRESSED THEN {k.samples[s][e]}
  ELSE IF SizeofType(k.was.type) # 4 THEN UnitsRead(k, s, e - 1)
  ELSE {a \o b : a \in UnitsRead(k, s, 2 * e - 2), b \in UnitsRead(k, s, 2 * e - 1)}

(* The bytes before an element of a structure.                               *)
Before(k, e) == FoldLeft(LAMBDA n, t : n + SizeofType(t), 0, SubSeq(k.fields, 1, e - 1))

Places(k, count) == (1 .. count) \X DOMAIN k.fields

(* The bytes of an element on a machine of the other byte order.             *)
Machine(type, bytes) ==
  IF type \in {"c", "b", "B", "F", "G", "U"} THEN bytes ELSE Reverse(bytes)

MachineReads(s, e) == {Machine(entry.fields[e], bytes) : bytes \in ReadAs(entry, s, e)}

FormattedAt(s, e) ==
  LET start == (s - 1) * StructSize(entry) + Before(entry, e)
  IN [n \in 1 .. SizeofType(entry.fields[e]) |-> dec.buf[start + n - 1]]

-----------------------------------------------------------------------------
(* What every variable holds.  That the domain of the buffer is the room the  *)
(* call was given says that no byte is written outside it, and so for `out'.  *)
TypeOK ==
  /\ book \in BOOLEAN
  /\ call.pc \in {"idle", "decompress", "layout", "format", "input", "scale"}
  /\ call.ret \in {"none", "OK", "MEMORY", "BAD_STRUCTURE", "TYPE_NOT_SUPPORTED",
                   "SCALE_NOT_SUPPORTED", "SCALE_COUNT"}
  /\ call.pc \in {"decompress", "layout", "format"} =>
       DOMAIN dec.buf = 0 .. FormatRoom(call) - 1
  /\ dec.pc \in {"channel", "code", "done", "failed"}
  /\ \A i \in DOMAIN dec.buf : dec.buf[i] \in Byte
  /\ dec.currWord \in Window /\ dec.nextWord \in Window /\ dec.nextBits \in 1 .. WordBits
  /\ call.op = "scaled" => SizeofType(call.otype) * Len(out) =< call.room

(* The reader of the code words is in step with the stream (the two words of  *)
(* GPMF_parser.c:1999-2161): whatever codes a window held and whatever was     *)
(* behind the entry, the window begins with a code, the samples before that   *)
(* code are the ones that are stored, the running sum is the last of them,    *)
(* and the bits of both words are those of the stream.  `marks' says of the   *)
(* bits a code begins at which channel it is of and how many samples of the   *)
(* channel are before it.                                                    *)
BitOf(word, n) == (word \div 2^(WordBits - 1 - n)) % 2
StreamBit(n)   == (entry.bytes[n \div 8 + 1] \div 2^(7 - (n % 8))) % 2

InStep ==
  call.pc = "decompress" /\ dec.pc = "code" =>
    LET head == 8 * dec.at - dec.nextBits - WordBits
        unit == UnitOf(entry, dec.pos, dec.chn)
    IN /\ head \in DOMAIN entry.marks
       /\ entry.marks[head] = <<dec.chn, dec.pos>>
       /\ dec.last = IF Unit(entry) = 1 THEN unit[1] ELSE 256 * unit[1] + unit[2]
       /\ \A n \in 0 .. WordBits + dec.nextBits - 1 :
            head + n < 8 * Len(entry.bytes) =>
              StreamBit(head + n) = IF n < WordBits THEN BitOf(dec.currWord, n)
                                    ELSE BitOf(dec.nextWord, n - WordBits)

(* GPMF_FormattedData reads every element of the samples asked for from its   *)
(* place, whatever mixture of sizes the structure is, compressed or not, and  *)
(* puts it where the next one would begin (GPMF_parser.c:1238-1306).          *)
FormattedRight ==
  Answered("formatted") =>
    \A p \in Places(entry, call.count) :
      FormattedAt(p[1], p[2]) \in MachineReads(call.offset + p[1], p[2])

(* Compression is lossless when the quantum is 1 (GPMF_bitstream.h:9).        *)
Lossless ==
  Answered("formatted") /\ entry.type = COMPRESSED =>
    \A p \in Places(entry, call.count) :
      FormattedAt(p[1], p[2])
        = Machine(entry.fields[p[2]], entry.samples[call.offset + p[1]][p[2]])

(* With which sign, if at all, element x goes into element y of the result.   *)
Mixed(k) == k.type = COMPLEX /\ Len(k.fields) > 1

Into(k, x, y) ==
  LET n == Len(k.fields)
      own == {m \in k.near.MTRX : Calibrates(m)}
      axes == {p \in k.near.ORIN \X k.near.ORIO : Len(p[1]) = n /\ Len(p[2]) = n /\ n > 1}
  IN IF Mixed(k) \/ (own = {} /\ axes = {}) THEN IF x = y THEN {"one"} ELSE {}
     ELSE IF own # {} THEN {m.values[n * (y - 1) + x] : m \in own}
     ELSE {CASE p[1][x] = p[2][y] -> "one"
             [] p[1][x].axis = p[2][y].axis /\ p[1][x].neg # p[2][y].neg -> "negone"
             [] OTHER -> "zero" : p \in axes}

(* The divisor of element x: its own, if SCAL has as many as the structure.   *)
Scale(k, x) ==
  IF k.near.SCAL = {} \/ k.fields[x] = "F" THEN << >>
  ELSE IF \E s \in k.near.SCAL : s.rpt = 1 THEN <<0>> ELSE <<x - 1>>

(* GPMF_ScaledData: each element of the result is the sum of the elements of  *)
(* its own sample that the matrix, or the two orientations, put into it, each *)
(* read from its place and divided by its own scale.                         *)
ScaledRight ==
  Answered("scaled") =>
    /\ Len(out) = call.count * Len(entry.fields)
    /\ \A p \in Places(entry, call.count) :
         LET cell  == out[(p[1] - 1) * Len(entry.fields) + p[2]]
             s     == call.offset + p[1]
             place == (s - 1) * StructSize(entry)
             from  == {x \in DOMAIN entry.fields : Into(entry, x, p[2]) # {}}
         IN /\ Cardinality(cell) = Cardinality(from)
            /\ \A x \in from : \E t \in cell :
                 /\ t.at = place + Before(entry, x)
                 /\ t.bytes \in MachineReads(s, x)
                 /\ t.by = Scale(entry, x)
                 /\ t.coef \in Into(entry, x, p[2])
                 /\ t.clamped <=> entry.fields[x] \in {"f", "b", "s", "l", "j"}
                                     /\ call.otype \in {"B", "S", "L"}

(* A buffer of the size GPMF_FormattedDataSize or GPMF_ScaledDataSize tells   *)
(* is enough for all samples of an entry whose layout is known and whose      *)
(* scales and matrix fit it, and the call says so unless memory is refused.   *)
LayoutKnown(k) ==
  /\ k.type # NEST
  /\ k.type = COMPLEX => k.near.TYPE # {}
  /\ Len(k.fields) \in 1 .. TypeRoom - 1
  /\ \A e \in DOMAIN k.fields : SizeofType(k.fields[e]) # 0
  /\ Before(k, Len(k.fields) + 1) = StructSize(k)

ScalesFit(k, otype) ==
  LET n == Len(k.fields)
  IN /\ \A e \in DOMAIN k.fields :
          k.fields[e] \in {"f", "b", "B", "s", "S", "l", "L", "j", "J"}
            \union (IF otype \in {"f", "l", "L", "d"} /\ k.type # COMPRESSED THEN {"F"} ELSE {})
     /\ otype \in OutputTypes
     /\ \A s \in k.near.SCAL : s.type \in ScaleTypes /\ s.rpt \in {1, n}
     /\ \A m \in k.near.MTRX : m.type \in OutputTypes /\ Len(m.values) = n * n

SizesSuffice ==
  /\ ~Running /\ call.offset = 0 /\ call.count = Repeat(entry) /\ call.granted
  /\ LayoutKnown(entry)
  => /\ call.op = "formatted" /\ call.room >= FormattedDataSize(entry) => call.ret = "OK"
     /\ call.op = "scaled" /\ ScalesFit(entry, call.otype)
         /\ call.room >= ScaledDataSize(entry, call.otype) => call.ret = "OK"
=============================================================================
