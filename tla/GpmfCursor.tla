----------------------------- MODULE GpmfCursor -----------------------------
(***************************************************************************)
(* GPMF_stream, the cursor every operation of the parser works on, and one *)
(* pass of GPMF_Next over it.  The operators are pure: a pass takes the    *)
(* buffer, the stream and the flags and gives the set of its outcomes, a   *)
(* return code with the stream it leaves (a set, because one read may fall *)
(* past the last word of the buffer, where any value can be).              *)
(*                                                                         *)
(* GPMF_Next calls itself when it meets a type it does not know and the    *)
(* caller asked for tolerance.  The call is in tail position, so the pass  *)
(* answers AGAIN and the caller (GpmfNav) makes another one.               *)
(***************************************************************************)
EXTENDS GpmfFormat, Sequences

(* GPMF_LEVELS: the flags a caller may combine; neither is CURRENT_LEVEL.   *)
RECURSE  == "recurse"
TOLERANT == "tolerant"
Flags == SUBSET {RECURSE, TOLERANT}

OK           == "ok"
BAD          == "bad_structure"
BUFFER_END   == "buffer_end"
FIND         == "find"
LAST         == "last"
UNKNOWN_TYPE == "unknown_type"
AGAIN        == "again"            \* not a code of the header: the tail call

Codes == {OK, BAD, BUFFER_END, FIND, LAST, UNKNOWN_TYPE}

(* The calls that take more than one step.                                  *)
Ops == {"init", "next", "findnext", "findprev", "seek", "count"}

(***************************************************************************)
(* The stream.  Its three per-level arrays have NestLimit slots each and   *)
(* follow one another, and then comes nest_level; yet a stream may be at   *)
(* level NestLimit, for the code's limit test is nest_level >              *)
(* GPMF_NEST_LIMIT.  What it finds beyond the arrays there:                *)
(*   nest_size[NestLimit] is last_seek[0], which is otherwise only zeroed, *)
(*     by GPMF_ResetState, and so a slot like the others;                  *)
(*   last_level_pos[NestLimit] is nest_size[0]: OpenNest writes it;        *)
(*   last_seek[NestLimit] is nest_level: see FindPrevOverrun of GpmfNav.   *)
(* Else last_seek is scratch of one GPMF_FindPrev call and lives in the    *)
(* call record of GpmfNav; device_count belongs to GPMF_Validate.          *)
(***************************************************************************)
Slots == 0..(NestLimit - 1)

Levels == 0..NestLimit

MaxNameLongs == 8   \* device_name holds 31 characters and a zero

Stream ==
  [bound: Nat, pos: Nat, nest_level: 0..(NestLimit + 1),
   last_level_pos: [Slots -> Nat], nest_size: [Levels -> Nat],
   device_id: Word, device_name: Seq(Word)]

(* A zeroed stream, and the one GPMF_Init leaves on a buffer of n words.    *)
Blank ==
  [bound |-> 0, pos |-> 0, nest_level |-> 0,
   last_level_pos |-> [l \in Slots |-> 0], nest_size |-> [l \in Levels |-> 0],
   device_id |-> ZeroWord, device_name |-> << >>]

Opened(n) == [Blank EXCEPT !.bound = n]

(* GPMF_ResetState: the slots of the deeper levels keep what they hold, but *)
(* for the last one, which is zeroed as last_seek[0].                       *)
Rewound(ms) ==
  [ms EXCEPT !.pos = 0, !.nest_level = 0,
             !.nest_size = [@ EXCEPT ![0] = 0, ![NestLimit] = 0],
             !.last_level_pos[0] = 0,
             !.device_id = Blank.device_id, !.device_name = Blank.device_name]

Result(ret, ms) == [ret |-> ret, ms |-> ms]

-----------------------------------------------------------------------------
Remaining(ms) == ms.nest_size[ms.nest_level]

IsValidSize(ms, size) ==
  size + 2 <= IF Remaining(ms) = 0 /\ ms.nest_level = 0
              THEN ms.bound ELSE Remaining(ms)

(* Levels used up are left, the outermost excepted.                         *)
PopEmpty(ms) ==
  LET open == {l \in 0..ms.nest_level : l = 0 \/ ms.nest_size[l] # 0}
  IN [ms EXCEPT !.nest_level = CHOOSE l \in open : \A m \in open : m <= l]

(* Mutant: padding is skipped as far as it goes.                            *)
PaddingBeyond(words, pos, most, limit) ==
  LET pads(k) == \A j \in 0..(k - 1) : pos + j < limit /\ words[pos + j].key = END
  IN CHOOSE k \in 0..limit : pads(k) /\ ~pads(k + 1)

(* How many padding words there are from pos on, most at most.              *)
PaddingAt(words, pos, most, limit) ==
  LET pads(k) == \A j \in 0..(k - 1) : pos + j < limit /\ words[pos + j].key = END
  IN CHOOSE k \in 0..most : pads(k) /\ (k = most \/ ~pads(k + 1))

SkipPadding(words, ms, limit) ==
  LET k == PaddingAt(words, ms.pos, Remaining(ms), limit)
  IN [ms EXCEPT !.pos = @ + k, !.nest_size[ms.nest_level] = @ - k]

(* SkipLevel gives up the current nest.  The size it then checks is read at *)
(* pos + 1, which may lie past the buffer.                                  *)
SkipLevel(words, ms) ==
  LET out == PopEmpty([ms EXCEPT !.pos = @ + Remaining(ms),
                                 !.nest_size[ms.nest_level] = 0])
      rets == IF out.pos + 1 \notin DOMAIN words THEN {OK, BAD}
              ELSE IF IsValidSize(out, SizeAt(words, out.pos)) THEN {OK} ELSE {BAD}
  IN {Result(ret, out) : ret \in rets}

(* Mutant: the tolerant walk forgives the entry without leaving its nest.   *)
CorruptForgiven(words, ms, flags) ==
  {Result(IF {RECURSE, TOLERANT} \subseteq flags THEN OK ELSE BAD, ms)}

(* What every size or key found corrupt leads to.                           *)
Corrupt(words, ms, flags) ==
  IF {RECURSE, TOLERANT} \subseteq flags
  THEN SkipLevel(words, ms)
  ELSE {Result(BAD, ms)}

-----------------------------------------------------------------------------
(* The pass, first half: from the entry at the cursor to where the next one *)
(* should start.                                                            *)

StepOver(ms, size) ==
  [ms EXCEPT !.pos = @ + size + 2, !.nest_size[ms.nest_level] = @ - (size + 2)]

(* Mutant: what the nest takes is not deducted from the one around it.      *)
OpenNestFree(ms, size) ==
  LET outer == [ms EXCEPT !.last_level_pos[ms.nest_level] = ms.pos,
                          !.pos = @ + 2,
                          !.nest_level = @ + 1]
  IN Result(OK, [outer EXCEPT !.nest_size[outer.nest_level] = size])

(* A nest that would be too deep is found out only after the books are      *)
(* written: the place of its nest goes to last_level_pos[NestLimit].        *)
OpenNest(ms, size) ==
  LET level == ms.nest_level
      outer == [ms EXCEPT !.pos = @ + 2,
                          !.nest_size[level] = @ - (size + 2),
                          !.nest_level = level + 1]
  IN IF level + 1 > NestLimit
     THEN Result(BAD, [outer EXCEPT !.nest_size[0] = ms.pos])
     ELSE Result(OK, [outer EXCEPT !.last_level_pos[level] = ms.pos,
                                   !.nest_size[level + 1] = size])

(* A DEVC restarts level 0, whether it is entered or stepped over.          *)
StartDevice(ms, size, flags) ==
  [ms EXCEPT !.last_level_pos[0] = ms.pos,
             !.nest_size[0] = size,
             !.pos = @ + 2 + IF RECURSE \in flags THEN 0 ELSE size]

AtDevice(words, ms) ==
  /\ words[ms.pos + 1].type = NEST
  /\ words[ms.pos].key = DEVC
  /\ ms.nest_level = 0

Advance(words, ms, flags) ==
  LET size == SizeAt(words, ms.pos)
      nest == words[ms.pos + 1].type = NEST
  IN IF AtDevice(words, ms) THEN Result(OK, StartDevice(ms, size, flags))
     ELSE IF size + 2 > Remaining(ms) THEN Result(BAD, ms)
     ELSE IF RECURSE \in flags /\ nest THEN OpenNest(ms, size)
     ELSE IF RECURSE \in flags \/ Remaining(ms) > size + 2
          THEN Result(OK, StepOver(ms, size))
     ELSE Result(LAST, ms)

(* Second half: padding and used-up levels are left behind, and the entry   *)
(* reached is judged by its key, its structure size, its type and its size. *)
Settle(words, ms) ==
  SkipPadding(words, PopEmpty(SkipPadding(words, ms, ms.bound)), ms.bound - 1)

(* The words of the name that fit device_name.                              *)
NameLongs(words, i) ==
  IF SizeAt(words, i) > MaxNameLongs THEN MaxNameLongs ELSE SizeAt(words, i)

NameAt(words, i) ==
  [j \in 1..NameLongs(words, i) |-> words[i + 1 + j]]

NameFits(words, ms) == ms.pos + 1 + NameLongs(words, ms.pos) < ms.bound

NoteDevice(words, ms) ==
  CASE words[ms.pos].key = DVID /\ ms.pos + 2 < ms.bound ->
         [ms EXCEPT !.device_id = words[ms.pos + 2]]
    [] words[ms.pos].key = DVNM ->
         [ms EXCEPT !.device_name = NameAt(words, ms.pos)]
    [] OTHER -> ms

Land(words, ms, flags) ==
  IF ms.pos + 1 >= ms.bound THEN {Result(BUFFER_END, ms)}
  ELSE IF words[ms.pos].key \notin FourCC \/ words[ms.pos + 1].ssize = 0
       THEN Corrupt(words, ms, flags)
  ELSE IF ~KnownType(words[ms.pos + 1].type)
       THEN {Result(IF TOLERANT \in flags THEN AGAIN ELSE UNKNOWN_TYPE, ms)}
  ELSE IF words[ms.pos].key = DVNM /\ ~NameFits(words, ms) THEN {Result(BAD, ms)}
  ELSE LET noted == NoteDevice(words, ms)
       IN IF IsValidSize(noted, SizeAt(words, ms.pos)) THEN {Result(OK, noted)}
          ELSE Corrupt(words, noted, flags)

GPMF_Next(words, ms, flags) ==
  IF ms.pos + 1 >= ms.bound THEN {Result(BUFFER_END, ms)}
  ELSE IF ~IsValidSize(ms, SizeAt(words, ms.pos)) THEN Corrupt(words, ms, flags)
  ELSE LET step == Advance(words, ms, flags)
       IN IF step.ret # OK THEN {step}
          ELSE Land(words, Settle(words, step.ms), flags)
=============================================================================
