------------------------------ MODULE Codebook ------------------------------
(***************************************************************************)
(* The code book of compressed entries (GPMF_bitstream.h): a prefix code    *)
(* for the differences between samples, for runs of equal samples, and two  *)
(* control codes.  GPMF_AllocCodebook turns it into a table over all 16-bit *)
(* windows, so that the decoder takes as many codes from a window at once   *)
(* as one line of the table can say: zeros and the value behind them.       *)
(*                                                                         *)
(* Everything is a function of the constants of the code: there is no state. *)
(***************************************************************************)
EXTENDS Integers, Sequences

WordBits == 16
Window   == 0 .. 65535

(* enchuftable: the code of the difference v, of either sign, at place v.    *)
(* A code is the number of its bits and the bits.  The sign bit follows it.  *)
ValueCodes == <<
  <<2, \b10>>, <<4, \b1100>>, <<5, \b11011>>, <<5, \b11101>>,
  <<6, \b110100>>, <<6, \b110101>>, <<6, \b111110>>, <<7, \b1110000>>,
  <<7, \b1110011>>, <<7, \b1111000>>, <<7, \b1111001>>, <<7, \b1111011>>,
  <<8, \b11100100>>, <<8, \b11100101>>, <<8, \b11110100>>,
  <<9, \b111000101>>, <<9, \b111000110>>, <<9, \b111101010>>,
  <<10, \b1110001000>>, <<10, \b1110001110>>, <<10, \b1111010110>>,
  <<10, \b1111111100>>, <<11, \b11100010010>>, <<11, \b11100011111>>,
  <<11, \b11110101110>>, <<12, \b111000100111>>, <<12, \b111000111101>>,
  <<12, \b111101011111>>, <<13, \b1110001001101>>, <<13, \b1110001111001>>,
  <<13, \b1111010111101>>, <<14, \b11100010011000>>, <<14, \b11100011110000>>,
  <<14, \b11110101111000>>, <<14, \b11110101111001>>,
  <<15, \b111000100110010>>, <<15, \b111000100110011>>,
  <<15, \b111000111100011>> >>

(* enczerorunstable: the codes of 16, 32, 64 and 128 equal samples.          *)
RunCodes == << <<7, \b1111110>>, <<8, \b11111110>>, <<9, \b111111111>>,
               <<10, \b1111111101>> >>
RunLength == <<16, 32, 64, 128>>

(* The one-bit code of the difference 0, and enccontrolcodestable.           *)
ZeroCode == <<1, 0>>
EscCode  == <<16, \b1110001111000100>>
EndCode  == <<16, \b1110001111000101>>

Codes == {ValueCodes[v] : v \in DOMAIN ValueCodes}
           \union {RunCodes[z] : z \in DOMAIN RunCodes}
           \union {ZeroCode, EscCode, EndCode}

(* The code at the head of a window is c.                                    *)
Begins(code, c) == code \div 2^(WordBits - c[1]) = c[2]

(* The sizes of the codes are those of their bits, and no code begins        *)
(* another: a window is read in one way.                                     *)
ASSUME PrefixFree ==
  \A c, d \in Codes :
     /\ c[2] \in 0 .. 2^c[1] - 1
     /\ c # d /\ c[1] =< d[1] => d[2] \div 2^(d[1] - c[1]) # c[2]

-----------------------------------------------------------------------------
(* GPMF_AllocCodebook: what the decoder does with a window.  A value is 0    *)
(* where the table has none: the code multiplies it by bytes_stored.         *)

Line == [command: {"store", "end", "esc", "invalid"}, zeros: Nat, value: Int,
         stored: 0..1, used: 0..WordBits]

(* The rest of a window of which n bits are used up (code <<= used).          *)
Shifted(code, n) == (code % 2^(WordBits - n)) * 2^n

(* The single zeros at the head of a window of which `left' bits are left.   *)
LeadingZeros(code, left) ==
  CHOOSE n \in 0 .. left :
    /\ code < 2^(WordBits - n)
    /\ n = left \/ code >= 2^(WordBits - n - 1)

NoValue == [value |-> 0, stored |-> 0, used |-> 0]

(* The value at the head of a window, if the window holds its sign too.       *)
ValueAt(code, left) ==
  LET fits == {v \in DOMAIN ValueCodes :
                 ValueCodes[v][1] + 1 =< left /\ Begins(code, ValueCodes[v])}
  IN IF fits = {} THEN NoValue
     ELSE LET v    == CHOOSE v \in fits : TRUE
              size == ValueCodes[v][1] + 1
              sign == 1 - 2 * ((code \div 2^(WordBits - size)) % 2)
          IN [value |-> sign * v, stored |-> 1, used |-> size]

(* A run of zeros is taken only at the head of a window.                     *)
RunAt(code) ==
  LET runs == {z \in DOMAIN RunCodes : Begins(code, RunCodes[z])}
  IN IF runs = {} THEN [zeros |-> 0, used |-> 0]
     ELSE LET z == CHOOSE z \in runs : TRUE
          IN [zeros |-> RunLength[z], used |-> RunCodes[z][1]]

(* The line of the table for a window that begins with no control code.      *)
StoreLine(code) ==
  LET run    == RunAt(code)
      single == LeadingZeros(Shifted(code, run.used), WordBits - run.used)
      before == run.used + single
      v      == ValueAt(Shifted(code, before), WordBits - before)
      used   == before + v.used
  IN [command |-> IF used = 0 THEN "invalid" ELSE "store",
      zeros   |-> run.zeros + single,
      value   |-> v.value, stored |-> v.stored,
      used    |-> IF used = 0 THEN WordBits ELSE used]

Control(command, stored) ==
  [command |-> command, zeros |-> 0, value |-> 0, stored |-> stored, used |-> WordBits]

LineOf(code) ==
  IF Begins(code, EscCode) THEN Control("esc", 1)
  ELSE IF Begins(code, EndCode) THEN Control("end", 0)
  ELSE StoreLine(code)
=============================================================================
