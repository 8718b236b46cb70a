----------------------------- MODULE GpmfModify -----------------------------
(***************************************************************************)
(* GPMF_Modify: an entry of the payload is overwritten in place by one of  *)
(* the same size, while a stream ms is on the payload.  The entry is the   *)
(* one the stream is on, or is looked for on a copy fs of the stream:      *)
(* ahead in the nest, from the start of the nest, from the start of the    *)
(* payload.  A step is a pass of GPMF_Next, or what is done between two.   *)
(*                                                                         *)
(* The new data is what the caller's array holds, word by word and in its  *)
(* order of bytes; a word of it in the payload says which word it was (its *)
(* number) and in units of how many bytes it was reversed (a type of that  *)
(* size).                                                                  *)
(***************************************************************************)
EXTENDS GpmfCursor, FiniteSetsExt

CONSTANTS
  Payloads,   (* the payloads the program may be handed, by name            *)
  News,       (* the entries it writes: key, type, ssize, rpt               *)
  FindKeys,   (* the keys it replaces                                       *)
  MaxEdits    (* a bound on the modifications of one behaviour              *)

ASSUME PayloadAssumption ==
  \A b \in DOMAIN Payloads : PayloadShape(Payloads[b]) /\ Sound(Payloads[b])

ASSUME NewsAssumption ==
  /\ \A new \in News : new \in Word /\ new.key \in FourCC \ {DEVC} /\ new.ssize # 0
  /\ FindKeys \subseteq FourCC \ {DEVC}

(* A nest is replaced by a nest and data by data, or the outline would be   *)
(* that of another payload.                                                 *)
ASSUME KindAssumption ==
  \A b \in DOMAIN Payloads, new \in News : \A i \in Payloads[b].items :
    KeyOf(Payloads[b], i) \in FindKeys /\ SizeAt(Payloads[b].words, i) = DataLongs(new)
      => (IsNest(Payloads[b], i) <=> new.type = NEST)

ASSUME EditsAssumption == MaxEdits \in Nat

VARIABLES
  payload,    (* the payload as it is now, with the outline it had          *)
  ms,         (* the caller's stream                                        *)
  lost,       (* it met an error and is rewound before it is used again     *)
  job,        (* the running modification                                   *)
  edits,      (* how many there were                                        *)
  answer      (* what the last one returned                                 *)

vars == <<payload, ms, lost, job, edits, answer>>

words == payload.words

Job == [phase: {"idle", "ahead", "back", "behind", "tail", "all"}, fs: Stream, mark: Nat,
        orig: FourCC, new: Word]

Idle == [phase |-> "idle", fs |-> Blank, mark |-> 0, orig |-> DEVC, new |-> ZeroWord]

(* The stream is one that GPMF_Init has just opened on the whole payload.   *)
Init ==
  /\ \E b \in DOMAIN Payloads : payload = Payloads[b]
  /\ ms = Opened(payload.longs)
  /\ lost = FALSE
  /\ job = Idle
  /\ edits = 0
  /\ answer = OK

-----------------------------------------------------------------------------
(* GPMFTypeEndianSize: the bytes of an element; 0 stands for -1.            *)
EndianSize(type) ==
  IF type \in {"c", "b", "B", "u", "F", "G", "U"} THEN 1
  ELSE IF type \in {"s", "S"} THEN 2
  ELSE IF type \in {"f", "l", "L", "q"} THEN 4
  ELSE IF type \in {"Q", "d", "j", "J"} THEN 8 ELSE 0

(* The words of elements of 8 bytes are swapped by twos, also an odd one.   *)
ASSUME WholeElementsAssumption ==
  \A new \in News : EndianSize(new.type) = 8 => DataLongs(new) % 2 = 0

(* Word k of the array, reversed in units of so many bytes: the type that   *)
(* stands for them, and k in the digits that a word has room for.           *)
UnitType(bytes) == IF bytes = 1 THEN "c" ELSE IF bytes = 2 THEN "s" ELSE "L"

Stored(k, bytes) ==
  [key |-> JUNK, type |-> UnitType(bytes),
   ssize |-> k \div (MaxRepeat + 1), rpt |-> k % (MaxRepeat + 1)]

(* Mutant: the two words of an element of 8 bytes keep their order.         *)
SwappedInOrder(k, e) == Stored(k, IF e = 8 THEN 4 ELSE e)

(* What word k of the data becomes, its elements being of e bytes.          *)
Swapped(k, e) ==
  IF e = 8 THEN Stored(IF k % 2 = 0 THEN k + 1 ELSE k - 1, 4) ELSE Stored(k, e)

(* Elements of a type that has no size leave what was there.                *)
ByteSwap2Buffer(old, new) ==
  LET e == EndianSize(new.type)
  IN IF e = 0 THEN old ELSE [k \in DOMAIN old |-> Swapped(k, e)]

Overwritten(p, i, new) ==
  LET data == ByteSwap2Buffer([k \in 0..(DataLongs(new) - 1) |-> p.words[i + 2 + k]], new)
  IN [p EXCEPT !.words = [j \in DOMAIN p.words |->
        IF j = i THEN [p.words[j] EXCEPT !.key = new.key]
        ELSE IF j = i + 1 THEN [new EXCEPT !.key = p.words[j].key]
        ELSE IF j - i - 2 \in DOMAIN data THEN data[j - i - 2] ELSE p.words[j]]]

(* Mutant: a shorter entry is written as well.                              *)
WillFitLoosely(i, new) == DataLongs(new) <= SizeAt(words, i)

WillFit(i, new) == DataLongs(new) = SizeAt(words, i)

End(code, p) ==
  /\ payload' = p
  /\ answer' = code
  /\ job' = Idle
  /\ edits' = edits + 1
  /\ UNCHANGED <<ms, lost>>

(* The entry that is found is overwritten, or has another size.             *)
Replace(i, new) ==
  IF WillFit(i, new) THEN End(OK, Overwritten(payload, i, new)) ELSE End(BAD, payload)

-----------------------------------------------------------------------------
Called == job.phase = "idle" /\ ~lost /\ edits < MaxEdits

(* The room for the data is looked for at the stream, wherever it will go.  *)
Room(new) == ms.pos + 1 + DataLongs(new) < ms.bound

OnIt(orig, new) == words[ms.pos].key = orig /\ WillFit(ms.pos, new)

ModifyNoRoom(new) == Called /\ ~Room(new) /\ End(BAD, payload)

ModifyHere(orig, new) ==
  Called /\ Room(new) /\ OnIt(orig, new) /\ End(OK, Overwritten(payload, ms.pos, new))

Search(phase, fs) ==
  /\ job' = [job EXCEPT !.phase = phase, !.fs = fs]
  /\ UNCHANGED <<payload, ms, lost, edits, answer>>

StartSearch(orig, new) ==
  /\ Called /\ Room(new) /\ ~OnIt(orig, new)
  /\ job' = [Idle EXCEPT !.phase = "ahead", !.fs = ms, !.orig = orig, !.new = new]
  /\ UNCHANGED <<payload, ms, lost, edits, answer>>

(* A turn of GPMF_FindNext; when it fails it puts fs back to start.         *)
FindNextTurn(flags, fail) ==
  \E r \in GPMF_Next(words, job.fs, flags) :
    IF r.ret = OK /\ words[r.ms.pos].key = job.orig THEN Replace(r.ms.pos, job.new)
    ELSE IF r.ret \in {OK, AGAIN} THEN Search(job.phase, r.ms)
    ELSE fail

(* Mutant: the search back begins where the search ahead ended.             *)
AheadLost ==
  /\ job.phase = "ahead"
  /\ FindNextTurn({TOLERANT}, Search("back", job.fs))

Ahead ==
  /\ job.phase = "ahead"
  /\ FindNextTurn({TOLERANT}, Search("back", ms))

(* GPMF_FindPrev at the current level: from the first entry of the nest to  *)
(* where the stream is.  It is not tried outside the nests of a device.     *)
FromStart == Search("all", Rewound(ms))

First(fs) == fs.last_level_pos[fs.nest_level - 1] + 2

(* Mutant: what lies behind is taken from the nest, not given back to it.   *)
AtFirstTaken(fs) ==
  [fs EXCEPT !.pos = First(fs), !.nest_size[fs.nest_level] = @ - (fs.pos - First(fs))]

AtFirst(fs) ==
  [fs EXCEPT !.pos = First(fs), !.nest_size[fs.nest_level] = @ + fs.pos - First(fs)]

Back ==
  /\ job.phase = "back"
  /\ IF job.fs.nest_level = 0 THEN FromStart
     ELSE /\ job' = [job EXCEPT !.phase = "behind", !.mark = job.fs.pos, !.fs = AtFirst(@)]
          /\ UNCHANGED <<payload, ms, lost, edits, answer>>

(* The tail call of a tolerant pass is made before the entry is looked at.  *)
Behind ==
  /\ job.phase \in {"behind", "tail"}
  /\ IF job.phase = "behind" /\ job.mark <= job.fs.pos THEN FromStart
     ELSE IF job.phase = "behind" /\ words[job.fs.pos].key = job.orig
          THEN Replace(job.fs.pos, job.new)
     ELSE \E r \in GPMF_Next(words, job.fs, {TOLERANT}) :
            CASE r.ret = OK    -> Search("behind", r.ms)
              [] r.ret = AGAIN -> Search("tail", r.ms)
              [] OTHER         -> FromStart

All ==
  /\ job.phase = "all"
  /\ FindNextTurn({RECURSE, TOLERANT}, End(FIND, payload))

-----------------------------------------------------------------------------
(* Between modifications the program walks on with the stream.              *)
Walk(flags) ==
  /\ job.phase = "idle" /\ ~lost
  /\ \E r \in GPMF_Next(words, ms, flags) :
       /\ ms' = r.ms
       /\ lost' = (r.ret = BAD)
  /\ UNCHANGED <<payload, job, edits, answer>>

ResetState ==
  /\ job.phase = "idle"
  /\ ms' = Rewound(ms)
  /\ lost' = FALSE
  /\ UNCHANGED <<payload, job, edits, answer>>

Next ==
  \/ \E new \in News, orig \in FindKeys :
       ModifyNoRoom(new) \/ ModifyHere(orig, new) \/ StartSearch(orig, new)
  \/ Ahead \/ Back \/ Behind \/ All
  \/ \E flags \in {{RECURSE}, {}} : Walk(flags)
  \/ ResetState

Spec == Init /\ [][Next]_vars

-----------------------------------------------------------------------------
(* What every variable holds.                                               *)
TypeOK ==
  /\ PayloadShape(payload)
  /\ ms \in Stream
  /\ lost \in BOOLEAN
  /\ job \in Job
  /\ edits \in 0..MaxEdits
  /\ answer \in Codes

(* The entries of the nest that entry i is in; devices are in none.         *)
Siblings(i) ==
  {j \in payload.items :
     IF IsDevice(payload, i) THEN IsDevice(payload, j)
     ELSE ~IsDevice(payload, j) /\ payload.up[j] = payload.up[i]}

WithKey(orig) == {j \in payload.items \ {0} : KeyOf(payload, j) = orig}

(* An entry of an unknown type is found only where no pass lands on it: at  *)
(* the start of a nest that is searched back.                               *)
Found(orig) == {j \in WithKey(orig) : Known(payload, j)}

AheadOf(i, orig) == {j \in Siblings(i) \intersect Found(orig) : j > i}

BehindOf(i, orig) ==
  IF payload.lev[i] = 0 THEN {}
  ELSE {j \in Siblings(i) \intersect WithKey(orig) :
          j < i /\ (Known(payload, j) \/ j = payload.up[i] + 2)}

OfSize(i, new) == EndOf(payload, i) = i + 2 + DataLongs(new)

(* The entry GPMF_Modify should find for a stream on an entry (961-1026):  *)
(* that entry if it has the key and the size, else the first of the key     *)
(* ahead in its nest, else the first behind in it, else the first of all,   *)
(* whether it has the size or not.  At most that entry is overwritten.      *)
(* The comment above the function asks for matching lengths only; that it   *)
(* also refuses where the stream has no room for the data, whatever entry   *)
(* is meant (951), is taken over from the code.                             *)
Targets(i, orig, new) ==
  IF KeyOf(payload, i) = orig /\ OfSize(i, new) THEN {i}
  ELSE IF AheadOf(i, orig) # {} THEN {Min(AheadOf(i, orig))}
  ELSE IF BehindOf(i, orig) # {} THEN {Min(BehindOf(i, orig))}
  ELSE IF Found(orig) # {} THEN {Min(Found(orig))}
  ELSE {}

Fulfilled(orig, new) ==
  LET targets == Targets(ms.pos, orig, new)
      fits    == {i \in targets : OfSize(i, new)}
  IN IF ~Room(new) THEN answer' = BAD /\ payload' = payload
     ELSE /\ answer' = CASE fits # {}    -> OK
                        [] targets = {} -> FIND
                        [] OTHER        -> BAD
          /\ payload' = IF fits = {} THEN payload ELSE Overwritten(payload, Min(fits), new)

RightEntry ==
  [][ edits' # edits =>
        IF job.phase # "idle" THEN Fulfilled(job.orig, job.new)
        ELSE \E orig \in FindKeys, new \in News : Fulfilled(orig, new) ]_vars

(* A program that modifies a payload walks on: the stream's books are those *)
(* of the payload as it has become.  A device that is not smaller than the  *)
(* one before it, by a header at least, is refused anyway (GpmfNavClaims).  *)
Descending ==
  \A i, j \in {k \in payload.items : IsDevice(payload, k)} :
    i < j => SizeAt(words, j) + 2 <= SizeAt(words, i)

WalksOn == Descending => ~lost

Body(p, i) == (i + 2)..(EndOf(p, i) - 1)

(* The unit an element of a type is stored in: that of GPMF_SizeofType, but *)
(* characters, keys and identifiers are bytes.  Types of no size have none. *)
Unit(type) == IF type \in {"F", "G", "U", "u"} THEN 1 ELSE SizeofType(type)

Mirrored(b, unit) == unit * (b \div unit) + (unit - 1) - (b % unit)

ByteOf(w, b) ==
  4 * ((MaxRepeat + 1) * w.ssize + w.rpt) + Mirrored(b, SizeofType(w.type))

(* Every element has its most significant byte first, as the parser's       *)
(* macros read it: byte b of the data is the byte of the caller's array     *)
(* that mirrors it in its element.                                          *)
BigEndian(p, i) ==
  LET d == p.words[i + 1]
      u == Unit(d.type)
  IN \A b \in 0..(d.ssize * d.rpt - 1) :
       ByteOf(p.words[i + 2 + b \div 4], b % 4) = Mirrored(b, u)

(* An entry of data that a modification changes any word of holds the new   *)
(* data by its new type, or, where that type has no unit, the old data      *)
(* still under a header that says the new type.  GPMF_parser.c:910 says of  *)
(* those types "All unknown,complex or larger than 8-bytes store as is";    *)
(* the code stores nothing of them (923-940), and that is what is said here.*)
Rewritten(i) ==
  \E j \in {i, i + 1} \union Body(payload, i) : words'[j] # words[j]

Untouched(i) == \A j \in Body(payload, i) : words'[j] = words[j]

StoredByType ==
  [][ \A i \in payload.items : ~IsNest(payload, i) /\ Rewritten(i) =>
        IF Unit(TypeOf(payload', i)) # 0 THEN BigEndian(payload', i)
        ELSE Untouched(i) ]_vars
=============================================================================
