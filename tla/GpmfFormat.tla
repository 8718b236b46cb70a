----------------------------- MODULE GpmfFormat -----------------------------
(***************************************************************************)
(* The data the parser reads: a GPMF payload, an array of 32-bit words     *)
(* that holds a forest of KLV entries.  An entry is a FourCC key, a word   *)
(* that packs type, structure size and repeat, and the data, padded to a   *)
(* whole number of words.  The data of an entry of type NEST is a list of  *)
(* entries again.                                                          *)
(*                                                                         *)
(* A word is read in two ways, as a key and as a type-size-repeat triple,  *)
(* so the model gives every word both readings.  What tells two keys or    *)
(* two types apart is only their identity: they are strings.               *)
(***************************************************************************)
EXTENDS Integers

CONSTANTS
  FourCC,     (* the keys: the words that GPMF_VALID_FOURCC accepts           *)
  NestLimit,  (* GPMF_NEST_LIMIT, the entries of the per-level arrays         *)
  Modulus     (* 2^32, the range of uint32_t (any bound above the payload's   *)
              (* length tells the same outcomes apart)                        *)

DEVC == "DEVC"
DVID == "DVID"
DVNM == "DVNM"

END  == "END"    \* GPMF_KEY_END, the zero word used as padding
JUNK == "junk"   \* a word that is neither zero nor a valid FourCC

ASSUME KeyAssumption ==
  /\ {DEVC, DVID, DVNM} \subseteq FourCC
  /\ END \notin FourCC
  /\ JUNK \notin FourCC

ASSUME LimitAssumption == NestLimit \in Nat \ {0} /\ Modulus \in Nat \ {0}

-----------------------------------------------------------------------------
(* Types: the type byte is the C character, NEST standing for the byte 0.   *)

NEST       == "nest"
COMPLEX    == "?"
COMPRESSED == "#"

SizeofType(type) ==
  CASE type \in {"c", "b", "B"}           -> 1
    [] type \in {"s", "S"}                -> 2
    [] type \in {"f", "F", "l", "L", "q"} -> 4
    [] type \in {"Q", "d", "j", "J"}      -> 8
    [] type \in {"G", "U"}                -> 16
    [] OTHER                              -> 0

(* The types GPMF_Next walks over without complaint.                        *)
KnownType(type) == type \in {NEST, COMPLEX, COMPRESSED} \/ SizeofType(type) # 0

(* GPMF_SampleType of the header, less the codes marked internal.           *)
DocumentedTypes ==
  {"c", "b", "B", "s", "S", "f", "F", "l", "L", "q", "Q", "j", "J", "d",
   "u", "U", "G", COMPLEX, COMPRESSED, NEST}

STRANGE == "x"   \* a type the header does not list

(* The keys GPMF_Reserved answers GPMF_ERROR_RESERVED for: entries that     *)
(* describe the samples of a stream and are never samples themselves.       *)
Reserved ==
  {"DEVC", "DVID", "DVNM", "STRM", "STNM", "SIUN", "UNIT", "SCAL", "TYPE",
   "TSMP", "TICK", "TOCK", "EMPT", "RMRK", "MTRX", "ORIN", "ORIO", "STMP",
   "STPS", "PFRM", "TMPC", "FREE"}

-----------------------------------------------------------------------------
(* Words.                                                                   *)

MaxRepeat == 65535   \* 16 bits; the structure size has 8

Word == [key: FourCC \union {END, JUNK}, type: DocumentedTypes \union {STRANGE},
         ssize: 0..255, rpt: 0..MaxRepeat]

ZeroWord == [key |-> END, type |-> NEST, ssize |-> 0, rpt |-> 0]

(* GPMF_DATA_SIZE(w) >> 2: the words of data that follow, padding included. *)
DataLongs(w) == (w.ssize * w.rpt + 3) \div 4

-----------------------------------------------------------------------------
(***************************************************************************)
(* A payload is the buffer (longs words) and the outline it was written    *)
(* from: where its entries start, and for each entry the nest that holds   *)
(* it and its nest level.  The code never sees the outline; the properties *)
(* compare what the code does with it.  The level is the parser's: a DEVC  *)
(* and what it directly holds are both at level 0.                         *)
(***************************************************************************)
SizeAt(words, i) == DataLongs(words[i + 1])

EndOf(p, i) == i + 2 + SizeAt(p.words, i)

KeyOf(p, i)   == p.words[i].key
TypeOf(p, i)  == p.words[i + 1].type
IsNest(p, i)  == TypeOf(p, i) = NEST
Known(p, i)   == KnownType(TypeOf(p, i))
IsDevice(p, i) == p.up[i] = i

(* The DEVCs in the first n words are whole: nests in a row up to word n,   *)
(* none of them hidden in another.  Nothing is said of what they hold.      *)
WholeDevices(words, n) ==
  \A k \in 0..(n - 2) : words[k].key = DEVC =>
    LET next == k + 2 + SizeAt(words, k)
    IN /\ words[k + 1].type = NEST /\ words[k + 1].ssize # 0
       /\ next = n \/ (next + 1 < n /\ words[next].key = DEVC)

PayloadShape(p) ==
  /\ DOMAIN p = {"longs", "words", "items", "up", "lev"}
  /\ p.longs \in Nat
  /\ p.words \in [0..(p.longs - 1) -> Word]
  /\ p.items \subseteq 0..(p.longs - 1)
  /\ p.up  \in [p.items -> p.items]
  /\ p.lev \in [p.items -> Nat]

(* Every entry has a valid key and a non-zero structure size, and fits.     *)
WholeEntries(p) ==
  \A i \in p.items :
    /\ i + 2 <= p.longs /\ EndOf(p, i) <= p.longs
    /\ KeyOf(p, i) \in FourCC
    /\ p.words[i + 1].ssize # 0

(* The payload is a chain of DEVC nests from its first word to its last,    *)
(* and DEVC is used nowhere else.                                           *)
DeviceChain(p) ==
  /\ 0 \in p.items
  /\ IsDevice(p, 0)
  /\ \A i \in p.items : IsDevice(p, i) <=> KeyOf(p, i) = DEVC
  /\ \A i \in p.items : IsDevice(p, i) =>
       /\ IsNest(p, i)
       /\ p.lev[i] = 0
       /\ EndOf(p, i) # p.longs =>
            EndOf(p, i) \in p.items /\ IsDevice(p, EndOf(p, i))

(* Every nest is filled by its entries, back to back.                       *)
PackedNests(p) ==
  /\ \A i \in p.items : IsNest(p, i) /\ SizeAt(p.words, i) # 0 =>
       i + 2 \in p.items /\ p.up[i + 2] = i
  /\ \A i \in p.items : ~IsDevice(p, i) =>
       /\ IsNest(p, p.up[i])
       /\ p.up[i] + 2 <= i
       /\ EndOf(p, i) <= EndOf(p, p.up[i])
       /\ EndOf(p, i) # EndOf(p, p.up[i]) =>
            EndOf(p, i) \in p.items /\ p.up[EndOf(p, i)] = p.up[i]

(* An entry that starts inside another is held by it, or by a nest in it.   *)
Laminar(p) ==
  \A i, j \in p.items : i < j /\ j < EndOf(p, i) =>
    IsNest(p, i) /\ p.up[j] \in i..(j - 1)

(* Levels count the nests around an entry and stay below the limit.         *)
LevelsCount(p) ==
  \A i \in p.items :
    /\ p.lev[i] < NestLimit
    /\ IsNest(p, i) /\ ~IsDevice(p, i) => p.lev[i] + 1 < NestLimit
    /\ ~IsDevice(p, i) =>
         p.lev[i] = IF IsDevice(p, p.up[i]) THEN 0 ELSE p.lev[p.up[i]] + 1

(* The payloads a GPMF writer produces.  Types the parser does not know     *)
(* are allowed: only their sizes matter to the structure.                   *)
Sound(p) ==
  /\ p.longs < Modulus
  /\ WholeEntries(p)
  /\ DeviceChain(p)
  /\ PackedNests(p)
  /\ Laminar(p)
  /\ LevelsCount(p)
=============================================================================
