----------------------------- MODULE Decompress -----------------------------
(***************************************************************************)
(* GPMF_Decompress, as operators on the state of the decoder.  A compressed *)
(* entry holds the type, size and repeat it had, its first sample as it is, *)
(* and for each channel (an element of the structure, or a half of one of    *)
(* four bytes) a quantum and the codes of the differences between one       *)
(* sample and the next.                                                     *)
(*                                                                         *)
(* The decoder reads 16-bit words ahead: currWord is the window the code     *)
(* book is asked for, nextWord the word behind it with nextBits bits left,   *)
(* and compressed_data the place of the word after that.                     *)
(*                                                                         *)
(* An operator that reads words yields a set: a word behind the entry can be *)
(* any of Beyond.                                                           *)
(***************************************************************************)
EXTENDS GpmfFormat, Codebook

CONSTANT Beyond   (* what a 16-bit word that is not of the entry can be      *)

ASSUME BeyondAssumption == Beyond \subseteq Window /\ Beyond # {}

(* A compressed entry: its header, the one it had before, and the bytes     *)
(* that follow these.                                                       *)
PackedSize(h)       == h.ssize * h.rpt
CompressedSize(e)   == PackedSize(e)
UncompressedSize(e) == PackedSize(e.was)

(* A four-byte element is handled as two channels of two bytes.              *)
Unit(e)     == IF SizeofType(e.was.type) = 4 THEN 2 ELSE SizeofType(e.was.type)
Channels(e) == e.was.ssize \div Unit(e)
UnitModulus(e) == 256 ^ Unit(e)

ByteAt(e, o) == e.bytes[o + 1]

WordAt(e, o) ==
  IF o + 2 =< Len(e.bytes) THEN {256 * ByteAt(e, o) + ByteAt(e, o + 1)} ELSE Beyond

-----------------------------------------------------------------------------
(* The state: the output buffer by bytes, the channel, the samples of it    *)
(* that are stored, the value of the last of them, and the reader's place.  *)

Byte == 0 .. 255

(* Bytes written over others; one outside the buffer would show in the       *)
(* domain.                                                                  *)
Over(new, old) ==
  [i \in DOMAIN new \union DOMAIN old |-> IF i \in DOMAIN new THEN new[i] ELSE old[i]]

Failed(d) == {[d EXCEPT !.pc = "failed"]}

(* The first sample is copied into the cleared buffer of the caller.         *)
Started(e, room) ==
  LET d == [pc |-> "channel", buf |-> [i \in 0 .. room - 1 |-> 0],
            chn |-> 0, pos |-> 1, last |-> 0, quant |-> 0, offset |-> e.was.ssize,
            currWord |-> 0, nextWord |-> 0, nextBits |-> WordBits, at |-> 0]
  IN IF SizeofType(e.was.type) = 0 \/ e.was.ssize > CompressedSize(e)
     THEN [d EXCEPT !.pc = "failed"]
     ELSE [d EXCEPT !.buf = Over([i \in 0 .. e.was.ssize - 1 |-> ByteAt(e, i)], @)]

(* Values are kept modulo the size they are stored in, high byte first.      *)
BytesOf(e, v) ==
  IF Unit(e) = 1 THEN [i \in 0..0 |-> v] ELSE [i \in 0..1 |-> IF i = 0 THEN v \div 256 ELSE v % 256]

Unsigned(e, v) == v % UnitModulus(e)

PlaceOf(e, d, n) == Unit(e) * (Channels(e) * n + d.chn)

ValueIn(e, d, n) ==
  IF Unit(e) = 1 THEN d.buf[PlaceOf(e, d, n)]
  ELSE 256 * d.buf[PlaceOf(e, d, n)] + d.buf[PlaceOf(e, d, n) + 1]

(* The samples `places' of the channel become v.                             *)
Stored(e, d, places, v) ==
  Over([i \in UNION {PlaceOf(e, d, n) .. PlaceOf(e, d, n) + Unit(e) - 1 : n \in places} |->
          BytesOf(e, v)[i % Unit(e)]], d.buf)

(* The place of the quantum of a channel, and of its codes: words are        *)
(* aligned to two bytes.                                                     *)
Aligned(o) == ((o + 1) \div 2) * 2

QuantAt(e, o) == IF Unit(e) = 1 THEN {ByteAt(e, o)} ELSE WordAt(e, o)

OpenChannel(e, d, room) ==
  LET codes == Aligned(d.offset + Unit(e))
  IN IF d.offset >= room THEN Failed(d)
     ELSE IF codes >= CompressedSize(e) THEN Failed(d)
     ELSE {[d EXCEPT !.pc = "code", !.pos = 1, !.last = ValueIn(e, d, 0), !.quant = q,
                     !.currWord = w, !.nextWord = v, !.nextBits = WordBits,
                     !.offset = codes, !.at = codes + 4] :
             q \in QuantAt(e, d.offset), w \in WordAt(e, codes), v \in WordAt(e, codes + 2)}

-----------------------------------------------------------------------------
(* "Get more bits": one turn of the loop that fills up a window of which     *)
(* `bits' bits are left.                                                     *)

Pull(e, d, bits) ==
  LET needed == WordBits - bits
      joined == [d EXCEPT !.currWord = @ + d.nextWord \div 2^bits,
                          !.nextWord = Shifted(@, needed),
                          !.nextBits = @ - needed]
  IN IF d.nextBits > needed THEN {[d |-> joined, bits |-> WordBits]}
     ELSE IF d.at >= CompressedSize(e) THEN {[d |-> [joined EXCEPT !.pc = "failed"], bits |-> WordBits]}
     ELSE {[d |-> [joined EXCEPT !.nextWord = w, !.nextBits = WordBits, !.at = @ + 2],
            bits |-> bits + d.nextBits] : w \in WordAt(e, d.at)}

(* A window lacks at most 16 bits, and the second turn has a whole word.     *)
Refill(e, d, bits) ==
  UNION {IF r.bits >= WordBits THEN {r.d}
         ELSE {q.d : q \in Pull(e, r.d, r.bits)} : r \in Pull(e, d, bits)}

(* The window less its first n bits, filled up again.                        *)
Consume(e, d, n) ==
  IF n = 0 THEN {d}
  ELSE Refill(e, [d EXCEPT !.currWord = Shifted(@, n)], WordBits - n)

(* Command 0: the zeros of a line of the table and the value behind them.    *)
(* The difference is added before the zeros are stored.                      *)
StoreCode(e, d, room, line) ==
  LET last  == Unsigned(e, d.last + line.stored * line.value * d.quant)
      until == d.pos + line.zeros
  IN IF Channels(e) * until * Unit(e) > room THEN Failed(d)
     ELSE Consume(e, [d EXCEPT !.last = last, !.pos = until + line.stored,
                               !.buf = Stored(e, d, d.pos .. until, last)], line.used)

(* Mutant: the next channel begins in the word that was read last.           *)
EndChannelAtWord(e, d, room) ==
  LET count == UncompressedSize(e) \div (Channels(e) * Unit(e))
  IN IF Channels(e) * count * Unit(e) > room THEN Failed(d)
     ELSE {[d EXCEPT !.buf = Stored(e, d, d.pos .. count - 1, d.last),
                     !.pos = count, !.chn = @ + 1, !.offset = d.at - 2,
                     !.pc = IF d.chn + 1 < Channels(e) THEN "channel" ELSE "done"]}

(* Command 1: the channel ends, its last samples are all as the last one.    *)
(* The next channel begins in the word behind the code.  If the codes have   *)
(* stored more samples than the entry has, the loop that counts the missing  *)
(* ones down to zero begins below zero, and is not followed further.         *)
EndChannel(e, d, room) ==
  LET count == UncompressedSize(e) \div (Channels(e) * Unit(e))
  IN IF Channels(e) * count * Unit(e) > room THEN Failed(d)
     ELSE IF d.pos > count THEN {[d EXCEPT !.pc = "overrun"]}
     ELSE {[d EXCEPT !.buf = Stored(e, d, d.pos .. count - 1, d.last),
                     !.pos = count, !.chn = @ + 1,
                     !.offset = IF d.nextBits = WordBits THEN d.at - 2 ELSE d.at,
                     !.pc = IF d.chn + 1 < Channels(e) THEN "channel" ELSE "done"]}

(* Command 2: the bits behind the code are the difference itself.            *)
StoreRaw(e, d, room) ==
  LET delta == IF Unit(e) = 1 THEN d.currWord \div 256 ELSE d.currWord
      last  == Unsigned(e, d.last + delta * d.quant)
  IN IF Channels(e) * d.pos * Unit(e) >= room THEN Failed(d)
     ELSE Consume(e, [d EXCEPT !.last = last, !.pos = @ + 1,
                               !.buf = Stored(e, d, {d.pos}, last)], 8 * Unit(e))

EscapedCode(e, d, room) ==
  UNION {IF r.pc = "failed" THEN {r} ELSE StoreRaw(e, r, room) : r \in Consume(e, d, WordBits)}

(* One turn of the loop over the codes of a channel.                         *)
Turn(e, d, room) ==
  LET line == LineOf(d.currWord)
  IN CASE line.command = "store"   -> StoreCode(e, d, room, line)
       [] line.command = "end"     -> EndChannel(e, d, room)
       [] line.command = "esc"     -> EscapedCode(e, d, room)
       [] line.command = "invalid" -> Failed(d)

GPMF_Decompress(e, d, room) ==
  IF d.pc = "channel" THEN OpenChannel(e, d, room) ELSE Turn(e, d, room)
=============================================================================
