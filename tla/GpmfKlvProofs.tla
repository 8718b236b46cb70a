--------------------------- MODULE GpmfKlvProofs ----------------------------
(***************************************************************************)
(* What one pass of GPMF_Next preserves.                                   *)
(*                                                                         *)
(* Whatever the payload holds, the stream stays well formed, nest_size     *)
(* never goes below zero, and only a nest opened beyond the limit leaves   *)
(* nest_level out of the arrays (the first part).                          *)
(*                                                                         *)
(* On a sound payload of any shape and depth, a pass from any entry and    *)
(* with any flags takes a stream from an entry to an entry and keeps its   *)
(* books those of the entry (the second part, NextOnKlv).  The hard part   *)
(* is the end of a nest, where several levels are left at once: nest_size  *)
(* of each of them is used up, and what the levels say of their nests has  *)
(* to agree on the place that is reached (ClimbOut).                       *)
(***************************************************************************)
EXTENDS GpmfOnKlv, TLAPS, WellFoundedInduction, SequenceTheorems

-----------------------------------------------------------------------------
(* The first part: any payload.                                             *)

(* A bounded non-empty set of naturals has a largest member.                *)
LEMMA BoundedMax ==
  ASSUME NEW n \in Nat, NEW S \in SUBSET (0..n), S # {}
  PROVE  \E x \in S : \A y \in S : y <= x
<1> DEFINE T == {k \in Nat : n - k \in S}
           R == OpToRel(<, Nat)
<1>1. PICK x0 \in S : TRUE
  OBVIOUS
<1>2. T \subseteq Nat /\ n - x0 \in T
  OBVIOUS
<1>3. IsWellFoundedOn(R, Nat)
  BY NatLessThanWellFounded
<1> HIDE DEF R
<1>4. PICK t \in T : \A u \in T : <<u, t>> \notin R
  BY <1>2, <1>3, WFMin
<1>5. \A u \in T : ~(u < t)
  BY <1>2, <1>4 DEF R, OpToRel
<1>6. \A y \in S : n - y \in T
  OBVIOUS
<1>7. t \in Nat /\ n - t \in S
  OBVIOUS
<1> HIDE DEF T
<1>8. ASSUME NEW y \in S PROVE y <= n - t
  <2>1. ~(n - y < t) /\ y \in Nat
    BY <1>5, <1>6
  <2> QED
    BY <1>7, <2>1
<1> QED
  BY <1>7, <1>8

-----------------------------------------------------------------------------
(* The streams a call may work on: their level has a slot.                  *)
Usable(ms) == ms \in Stream /\ ms.nest_level \in Levels

LEMMA DataLongsNat == ASSUME NEW w \in Word PROVE DataLongs(w) \in Nat
<1>1. w.ssize \in Nat /\ w.rpt \in Nat
  BY DEF Word
<1>2. w.ssize * w.rpt \in Nat
  BY <1>1
<1> QED
  BY <1>2 DEF DataLongs

LEMMA SizeNat ==
  ASSUME NEW n \in Nat, NEW words \in [0..(n - 1) -> Word], NEW i \in Nat, i + 1 < n
  PROVE  SizeAt(words, i) \in Nat
<1>1. words[i + 1] \in Word
  OBVIOUS
<1> QED
  BY <1>1, DataLongsNat DEF SizeAt

LEMMA BlankUsable == Usable(Blank) /\ Blank.bound = 0
<1>1. ZeroWord \in Word
  BY DEF ZeroWord, Word, END, NEST, MaxRepeat, DocumentedTypes
<1> QED
  BY <1>1, LimitAssumption DEF Blank, Usable, Stream, Levels, Slots

LEMMA UsableFields ==
  ASSUME NEW ms, Usable(ms)
  PROVE  /\ ms.bound \in Nat /\ ms.pos \in Nat
         /\ ms.nest_level \in Nat /\ ms.nest_level \in Levels /\ ms.nest_level <= NestLimit
         /\ ms.last_level_pos \in [Slots -> Nat]
         /\ ms.nest_size \in [Levels -> Nat]
         /\ Remaining(ms) \in Nat
         /\ 0 \in Levels /\ 0 \in Slots
BY LimitAssumption DEF Usable, Stream, Levels, Slots, Remaining

(* A stream with other books, and the updates of the passes as such.        *)
Booked(ms, pos, level, last, sizes) ==
  [ms EXCEPT !.pos = pos, !.nest_level = level, !.last_level_pos = last, !.nest_size = sizes]

LEMMA BookedStream ==
  ASSUME NEW ms \in Stream, NEW pos \in Nat, NEW level \in 0..(NestLimit + 1),
         NEW last \in [Slots -> Nat], NEW sizes \in [Levels -> Nat]
  PROVE  Booked(ms, pos, level, last, sizes) \in Stream
BY Zenon DEF Booked, Stream

LEMMA BookedFields ==
  ASSUME NEW ms \in Stream, NEW pos, NEW level, NEW last, NEW sizes
  PROVE  LET ns == Booked(ms, pos, level, last, sizes)
         IN /\ ns.pos = pos /\ ns.nest_level = level
            /\ ns.last_level_pos = last /\ ns.nest_size = sizes
            /\ ns.bound = ms.bound
            /\ ns.device_id = ms.device_id /\ ns.device_name = ms.device_name
BY DEF Booked, Stream

LEMMA PopEmptyBooked ==
  ASSUME NEW ms, Usable(ms)
  PROVE  \E top \in 0..ms.nest_level :
           /\ PopEmpty(ms) = Booked(ms, ms.pos, top, ms.last_level_pos, ms.nest_size)
           /\ top = 0 \/ ms.nest_size[top] # 0
           /\ \A l \in (top + 1)..ms.nest_level : ms.nest_size[l] = 0
<1> DEFINE open == {l \in 0..ms.nest_level : l = 0 \/ ms.nest_size[l] # 0}
           top  == CHOOSE l \in open : \A m \in open : m <= l
<1>1. ms.nest_level \in Nat /\ ms \in Stream
  BY UsableFields DEF Usable
<1>2. open \in SUBSET (0..ms.nest_level) /\ 0 \in open
  BY <1>1
<1>3. top \in open /\ \A m \in open : m <= top
  BY <1>1, <1>2, BoundedMax
<1>4. PopEmpty(ms) = [ms EXCEPT !.nest_level = top]
  BY DEF PopEmpty
<1>5. ASSUME NEW l \in (top + 1)..ms.nest_level PROVE ms.nest_size[l] = 0
  BY <1>1, <1>2, <1>3
<1>6. top \in 0..ms.nest_level /\ (top = 0 \/ ms.nest_size[top] # 0)
  BY <1>3
<1> HIDE DEF top
<1>7. PopEmpty(ms) = Booked(ms, ms.pos, top, ms.last_level_pos, ms.nest_size)
  BY <1>1, <1>4 DEF Booked, Stream
<1> QED
  BY <1>5, <1>6, <1>7

(* The padding skipped is all there is, up to the limit and the nest's end. *)
LEMMA PaddingRun ==
  ASSUME NEW most \in Nat, NEW pos, NEW words, NEW limit
  PROVE  LET k == PaddingAt(words, pos, most, limit)
             pads(n) == \A j \in 0..(n - 1) : pos + j < limit /\ words[pos + j].key = END
         IN /\ k \in 0..most
            /\ pads(k)
            /\ k = most \/ ~pads(k + 1)
<1> DEFINE pads(n) == \A j \in 0..(n - 1) : pos + j < limit /\ words[pos + j].key = END
           run  == {n \in 0..most : pads(n)}
<1>1. most \in Nat
  OBVIOUS
<1>2. run \in SUBSET (0..most) /\ 0 \in run
  BY <1>1
<1>3. PICK k \in run : \A n \in run : n <= k
  BY <1>1, <1>2, BoundedMax
<1>4. k \in 0..most /\ pads(k) /\ (k = most \/ ~pads(k + 1))
  <2>1. k \in 0..most /\ pads(k)
    OBVIOUS
  <2>2. ASSUME k # most, pads(k + 1) PROVE FALSE
    <3>1. k + 1 \in 0..most
      BY <1>1, <2>1, <2>2
    <3>2. k + 1 \in run
      BY <3>1, <2>2
    <3> QED
      BY <1>3, <2>1, <3>2
  <2> QED
    BY <2>1, <2>2
<1> HIDE DEF pads
<1>5. PaddingAt(words, pos, most, limit) =
        CHOOSE n \in 0..most : pads(n) /\ (n = most \/ ~pads(n + 1))
  BY DEF PaddingAt, pads
<1> QED
  BY <1>4, <1>5 DEF pads

LEMMA SkipPaddingBooked ==
  ASSUME NEW ms, Usable(ms), NEW words, NEW limit
  PROVE  LET k == PaddingAt(words, ms.pos, Remaining(ms), limit)
         IN SkipPadding(words, ms, limit) =
              Booked(ms, ms.pos + k, ms.nest_level, ms.last_level_pos,
                     [ms.nest_size EXCEPT ![ms.nest_level] = @ - k])
BY DEF SkipPadding, Booked, Usable, Stream

LEMMA StepOverBooked ==
  ASSUME NEW ms, Usable(ms), NEW size
  PROVE  StepOver(ms, size) =
           Booked(ms, ms.pos + size + 2, ms.nest_level, ms.last_level_pos,
                  [ms.nest_size EXCEPT ![ms.nest_level] = @ - (size + 2)])
BY DEF StepOver, Booked, Usable, Stream

LEMMA StartDeviceBooked ==
  ASSUME NEW ms, Usable(ms), NEW size, NEW flags
  PROVE  StartDevice(ms, size, flags) =
           Booked(ms, ms.pos + 2 + IF RECURSE \in flags THEN 0 ELSE size, ms.nest_level,
                  [ms.last_level_pos EXCEPT ![0] = ms.pos],
                  [ms.nest_size EXCEPT ![0] = size])
BY DEF StartDevice, Booked, Usable, Stream

LEMMA OpenNestBooked ==
  ASSUME NEW ms, Usable(ms), NEW size
  PROVE  LET last  == [ms.last_level_pos EXCEPT ![ms.nest_level] = ms.pos]
             outer == [ms.nest_size EXCEPT ![ms.nest_level] = @ - (size + 2)]
             inner == [outer EXCEPT ![ms.nest_level + 1] = size]
             over  == [outer EXCEPT ![0] = ms.pos]
         IN OpenNest(ms, size) =
              IF ms.nest_level + 1 > NestLimit
              THEN Result(BAD, Booked(ms, ms.pos + 2, ms.nest_level + 1,
                                      ms.last_level_pos, over))
              ELSE Result(OK, Booked(ms, ms.pos + 2, ms.nest_level + 1, last, inner))
BY UsableFields DEF OpenNest, Booked, Usable, Stream, Result

-----------------------------------------------------------------------------
(* Types: the updates keep a usable stream usable and never change bound.   *)
LEMMA BookedUsable ==
  ASSUME NEW ms, Usable(ms), NEW pos \in Nat, NEW level \in Levels,
         NEW last \in [Slots -> Nat], NEW sizes \in [Levels -> Nat]
  PROVE  /\ Usable(Booked(ms, pos, level, last, sizes))
         /\ Booked(ms, pos, level, last, sizes).bound = ms.bound
<1>1. level \in 0..(NestLimit + 1)
  BY LimitAssumption DEF Levels, Slots
<1> QED
  BY <1>1, BookedStream, BookedFields DEF Usable

LEMMA PopEmptyUsable ==
  ASSUME NEW ms, Usable(ms)
  PROVE  Usable(PopEmpty(ms)) /\ PopEmpty(ms).bound = ms.bound
<1>1. PICK top \in 0..ms.nest_level :
        PopEmpty(ms) = Booked(ms, ms.pos, top, ms.last_level_pos, ms.nest_size)
  BY PopEmptyBooked
<1>2. top \in Levels
  BY UsableFields, LimitAssumption DEF Levels, Slots
<1>3. /\ ms.pos \in Nat
      /\ ms.last_level_pos \in [Slots -> Nat] /\ ms.nest_size \in [Levels -> Nat]
  BY UsableFields
<1> QED
  BY <1>1, <1>2, <1>3, BookedUsable

LEMMA SkipPaddingUsable ==
  ASSUME NEW ms, Usable(ms), NEW words, NEW limit
  PROVE  /\ Usable(SkipPadding(words, ms, limit))
         /\ SkipPadding(words, ms, limit).bound = ms.bound
<1> DEFINE k == PaddingAt(words, ms.pos, Remaining(ms), limit)
           sizes == [ms.nest_size EXCEPT ![ms.nest_level] = @ - k]
<1>0. Remaining(ms) \in Nat
  BY UsableFields
<1>1. k \in 0..Remaining(ms)
  BY <1>0, PaddingRun
<1> HIDE DEF k
<1>2. ms.pos + k \in Nat /\ ms.nest_size[ms.nest_level] - k \in Nat
  BY <1>1, UsableFields DEF Remaining
<1>3. sizes \in [Levels -> Nat]
  BY <1>2, UsableFields
<1>4. SkipPadding(words, ms, limit) =
        Booked(ms, ms.pos + k, ms.nest_level, ms.last_level_pos, sizes)
  BY SkipPaddingBooked DEF k
<1> HIDE DEF sizes
<1>5. ms.nest_level \in Levels /\ ms.last_level_pos \in [Slots -> Nat]
  BY UsableFields
<1> QED
  BY <1>2, <1>3, <1>4, <1>5, BookedUsable

LEMMA SettleUsable ==
  ASSUME NEW ms, Usable(ms), NEW words
  PROVE  Usable(Settle(words, ms)) /\ Settle(words, ms).bound = ms.bound
<1> DEFINE one == SkipPadding(words, ms, ms.bound)
           two == PopEmpty(one)
<1>1. Usable(one) /\ one.bound = ms.bound
  BY SkipPaddingUsable
<1> HIDE DEF one
<1>2. Usable(two) /\ two.bound = ms.bound
  BY <1>1, PopEmptyUsable
<1> HIDE DEF two
<1>3. Settle(words, ms) = SkipPadding(words, two, ms.bound - 1)
  BY DEF Settle, one, two
<1> QED
  BY <1>2, <1>3, SkipPaddingUsable

LEMMA SkipLevelUsable ==
  ASSUME NEW ms, Usable(ms), NEW words, NEW r \in SkipLevel(words, ms)
  PROVE  r.ret \in {OK, BAD} /\ Usable(r.ms) /\ r.ms.bound = ms.bound
<1> DEFINE gone == [ms EXCEPT !.pos = @ + Remaining(ms),
                              !.nest_size[ms.nest_level] = 0]
           sizes == [ms.nest_size EXCEPT ![ms.nest_level] = 0]
<1>1. gone = Booked(ms, ms.pos + Remaining(ms), ms.nest_level, ms.last_level_pos, sizes)
  BY DEF Booked, Usable, Stream
<1>2. sizes \in [Levels -> Nat] /\ ms.pos + Remaining(ms) \in Nat
  BY UsableFields
<1> HIDE DEF sizes
<1>3. Usable(gone) /\ gone.bound = ms.bound
  <2>1. ms.nest_level \in Levels /\ ms.last_level_pos \in [Slots -> Nat]
    BY UsableFields
  <2> QED
    BY <1>1, <1>2, <2>1, BookedUsable
<1>4. r.ret \in {OK, BAD} /\ r.ms = PopEmpty(gone)
  BY DEF SkipLevel, Result
<1> HIDE DEF gone
<1> QED
  BY <1>3, <1>4, PopEmptyUsable

LEMMA CorruptUsable ==
  ASSUME NEW ms, Usable(ms), NEW words, NEW flags, NEW r \in Corrupt(words, ms, flags)
  PROVE  r.ret \in {OK, BAD} /\ Usable(r.ms) /\ r.ms.bound = ms.bound
<1>1. CASE {RECURSE, TOLERANT} \subseteq flags
  BY <1>1, SkipLevelUsable DEF Corrupt
<1>2. CASE ~({RECURSE, TOLERANT} \subseteq flags)
  BY <1>2 DEF Corrupt, Result
<1> QED
  BY <1>1, <1>2

-----------------------------------------------------------------------------
(* The first half.  Advance subtracts from nest_size only what its guard    *)
(* has compared with it.                                                    *)
LEMMA StepOverUsable ==
  ASSUME NEW ms, Usable(ms), NEW size \in Nat, ~(size + 2 > Remaining(ms))
  PROVE  Usable(StepOver(ms, size)) /\ StepOver(ms, size).bound = ms.bound
<1> DEFINE sizes == [ms.nest_size EXCEPT ![ms.nest_level] = @ - (size + 2)]
<1>1. /\ ms.nest_level \in Levels /\ ms.last_level_pos \in [Slots -> Nat]
      /\ ms.pos + size + 2 \in Nat
  BY UsableFields
<1>2. ms.nest_size[ms.nest_level] - (size + 2) \in Nat
  BY UsableFields DEF Remaining
<1>3. sizes \in [Levels -> Nat]
  BY <1>2, UsableFields
<1>4. StepOver(ms, size) =
        Booked(ms, ms.pos + size + 2, ms.nest_level, ms.last_level_pos, sizes)
  BY StepOverBooked
<1> HIDE DEF sizes
<1> QED
  BY <1>1, <1>3, <1>4, BookedUsable, SMTT(30)

LEMMA StartDeviceUsable ==
  ASSUME NEW ms, Usable(ms), NEW size \in Nat, NEW flags
  PROVE  /\ Usable(StartDevice(ms, size, flags))
         /\ StartDevice(ms, size, flags).bound = ms.bound
<1> DEFINE pos   == ms.pos + 2 + IF RECURSE \in flags THEN 0 ELSE size
           last  == [ms.last_level_pos EXCEPT ![0] = ms.pos]
           sizes == [ms.nest_size EXCEPT ![0] = size]
<1>1. ms.nest_level \in Levels
  BY UsableFields
<1>2. pos \in Nat /\ last \in [Slots -> Nat] /\ sizes \in [Levels -> Nat]
  BY UsableFields
<1>3. StartDevice(ms, size, flags) = Booked(ms, pos, ms.nest_level, last, sizes)
  BY StartDeviceBooked
<1> HIDE DEF pos, last, sizes
<1> QED
  BY <1>1, <1>2, <1>3, BookedUsable

LEMMA OpenNestUsable ==
  ASSUME NEW ms, Usable(ms), NEW size \in Nat, ~(size + 2 > Remaining(ms))
  PROVE  LET step == OpenNest(ms, size)
         IN /\ step.ret \in {OK, BAD}
            /\ step.ms \in Stream
            /\ step.ms.bound = ms.bound
            /\ step.ret = OK => Usable(step.ms)
<1> DEFINE last  == [ms.last_level_pos EXCEPT ![ms.nest_level] = ms.pos]
           outer == [ms.nest_size EXCEPT ![ms.nest_level] = @ - (size + 2)]
           inner == [outer EXCEPT ![ms.nest_level + 1] = size]
           over  == [outer EXCEPT ![0] = ms.pos]
           level == ms.nest_level + 1
<1>1. /\ ms.pos + 2 \in Nat /\ level \in 0..(NestLimit + 1)
      /\ ~(level > NestLimit) => level \in Levels
  BY UsableFields, LimitAssumption DEF Levels, Slots
<1>2. ms.nest_size[ms.nest_level] - (size + 2) \in Nat
  BY UsableFields DEF Remaining
<1>3. /\ last \in [Slots -> Nat] /\ ms.last_level_pos \in [Slots -> Nat]
      /\ outer \in [Levels -> Nat]
  BY <1>2, UsableFields
<1>4. inner \in [Levels -> Nat] /\ over \in [Levels -> Nat]
  BY <1>3, UsableFields
<1>5. OpenNest(ms, size) =
        IF level > NestLimit
        THEN Result(BAD, Booked(ms, ms.pos + 2, level, ms.last_level_pos, over))
        ELSE Result(OK, Booked(ms, ms.pos + 2, level, last, inner))
  BY OpenNestBooked
<1> HIDE DEF last, outer, inner, over, level
<1>6. ms \in Stream
  BY DEF Usable
<1>7. CASE level > NestLimit
  <2> DEFINE past == ms.last_level_pos
  <2>1. past \in [Slots -> Nat] /\ over \in [Levels -> Nat]
    BY <1>3, <1>4
  <2> HIDE DEF past
  <2>2. /\ Booked(ms, ms.pos + 2, level, past, over) \in Stream
        /\ Booked(ms, ms.pos + 2, level, past, over).bound = ms.bound
    BY <1>1, <1>6, <2>1, BookedStream, BookedFields
  <2> QED
    BY <1>5, <1>7, <2>2 DEF Result, OK, BAD, past
<1>8. CASE ~(level > NestLimit)
  <2>1. /\ Usable(Booked(ms, ms.pos + 2, level, last, inner))
        /\ Booked(ms, ms.pos + 2, level, last, inner).bound = ms.bound
    BY <1>1, <1>3, <1>4, <1>8, BookedUsable
  <2> QED
    BY <1>5, <1>8, <2>1 DEF Result, OK, BAD, Usable
<1> QED
  BY <1>7, <1>8

LEMMA AdvanceUsable ==
  ASSUME NEW n \in Nat, NEW words \in [0..(n - 1) -> Word], NEW ms, Usable(ms),
         NEW flags, ms.pos + 1 < n
  PROVE  LET step == Advance(words, ms, flags)
         IN /\ step.ret \in {OK, BAD, LAST}
            /\ step.ms \in Stream
            /\ step.ms.bound = ms.bound
            /\ step.ret # BAD \/ RECURSE \notin flags => Usable(step.ms)
<1> DEFINE size == SizeAt(words, ms.pos)
<1>1. size \in Nat
  BY SizeNat, UsableFields
<1>2. Advance(words, ms, flags) =
             IF AtDevice(words, ms) THEN Result(OK, StartDevice(ms, size, flags))
             ELSE IF size + 2 > Remaining(ms) THEN Result(BAD, ms)
             ELSE IF RECURSE \in flags /\ words[ms.pos + 1].type = NEST
                  THEN OpenNest(ms, size)
             ELSE IF RECURSE \in flags \/ Remaining(ms) > size + 2
                  THEN Result(OK, StepOver(ms, size))
             ELSE Result(LAST, ms)
  BY DEF Advance
<1> HIDE DEF size
<1>3. CASE AtDevice(words, ms)
  BY <1>1, <1>2, <1>3, StartDeviceUsable DEF Result, Usable, OK, BAD, LAST
<1>4. CASE ~AtDevice(words, ms) /\ size + 2 > Remaining(ms)
  BY <1>2, <1>4 DEF Result, Usable, OK, BAD, LAST
<1>5. CASE ~AtDevice(words, ms) /\ ~(size + 2 > Remaining(ms))
  <2>1. CASE RECURSE \in flags /\ words[ms.pos + 1].type = NEST
    <3>1. Advance(words, ms, flags) = OpenNest(ms, size)
      BY <1>2, <1>5, <2>1
    <3> QED
      BY <1>1, <1>5, <2>1, <3>1, OpenNestUsable DEF OK, BAD
  <2>2. CASE ~(RECURSE \in flags /\ words[ms.pos + 1].type = NEST)
    <3>1. Usable(StepOver(ms, size)) /\ StepOver(ms, size).bound = ms.bound
      BY <1>1, <1>5, StepOverUsable
    <3>2. Advance(words, ms, flags) \in {Result(OK, StepOver(ms, size)), Result(LAST, ms)}
      BY <1>2, <1>5, <2>2
    <3> QED
      BY <3>1, <3>2 DEF Result, Usable, OK, BAD, LAST
  <2> QED
    BY <2>1, <2>2
<1> QED
  BY <1>3, <1>4, <1>5

-----------------------------------------------------------------------------
(* The second half reads the entry reached, and notes what it says of the   *)
(* device, within the buffer.                                               *)
LEMMA NameAtWords ==
  ASSUME NEW n \in Nat, NEW words \in [0..(n - 1) -> Word], NEW ms, Usable(ms),
         ms.bound <= n, ms.pos + 1 < ms.bound, NameFits(words, ms)
  PROVE  NameAt(words, ms.pos) \in Seq(Word)
<1> DEFINE len == NameLongs(words, ms.pos)
<1>1. ms.pos \in Nat /\ ms.bound \in Nat
  BY UsableFields
<1>2. len \in Nat
  BY <1>1, SizeNat DEF NameLongs, MaxNameLongs
<1>3. ms.pos + 1 + len < ms.bound
  BY DEF NameFits
<1>4. NameAt(words, ms.pos) = [j \in 1..len |-> words[ms.pos + 1 + j]]
  BY DEF NameAt
<1> HIDE DEF len
<1>5. ASSUME NEW j \in 1..len PROVE words[ms.pos + 1 + j] \in Word
  BY <1>1, <1>2, <1>3
<1>6. NameAt(words, ms.pos) \in [1..len -> Word]
  BY <1>4, <1>5
<1> QED
  BY <1>2, <1>6, SeqDef

LEMMA NoteDeviceUsable ==
  ASSUME NEW n \in Nat, NEW words \in [0..(n - 1) -> Word], NEW ms, Usable(ms),
         ms.bound <= n, ms.pos + 1 < ms.bound,
         words[ms.pos].key = DVNM => NameFits(words, ms)
  PROVE  /\ Usable(NoteDevice(words, ms))
         /\ NoteDevice(words, ms).bound = ms.bound
         /\ NoteDevice(words, ms).pos = ms.pos
         /\ NoteDevice(words, ms).nest_level = ms.nest_level
         /\ NoteDevice(words, ms).nest_size = ms.nest_size
         /\ NoteDevice(words, ms).last_level_pos = ms.last_level_pos
<1>1. ms.pos \in Nat /\ ms.bound \in Nat /\ ms \in Stream
  BY UsableFields DEF Usable
<1>2. CASE words[ms.pos].key = DVID /\ ms.pos + 2 < ms.bound
  <2>1. words[ms.pos + 2] \in Word
    BY <1>1, <1>2
  <2>2. NoteDevice(words, ms) = [ms EXCEPT !.device_id = words[ms.pos + 2]]
    BY <1>2 DEF NoteDevice, DVID, DVNM
  <2> QED
    BY <1>1, <2>1, <2>2 DEF Usable, Stream
<1>3. CASE words[ms.pos].key = DVNM
  <2>1. NameAt(words, ms.pos) \in Seq(Word)
    BY <1>3, NameAtWords
  <2>2. NoteDevice(words, ms) = [ms EXCEPT !.device_name = NameAt(words, ms.pos)]
    BY <1>3 DEF NoteDevice, DVID, DVNM
  <2> QED
    BY <1>1, <2>1, <2>2 DEF Usable, Stream
<1>4. CASE ~(words[ms.pos].key = DVID /\ ms.pos + 2 < ms.bound) /\ words[ms.pos].key # DVNM
  BY <1>4 DEF NoteDevice
<1> QED
  BY <1>2, <1>3, <1>4

LEMMA LandUsable ==
  ASSUME NEW n \in Nat, NEW words \in [0..(n - 1) -> Word], NEW ms, Usable(ms),
         ms.bound <= n, NEW flags, NEW r \in Land(words, ms, flags)
  PROVE  /\ r.ret \in Codes \union {AGAIN}
         /\ Usable(r.ms) /\ r.ms.bound = ms.bound
<1> DEFINE noted == NoteDevice(words, ms)
<1>1. CASE ms.pos + 1 >= ms.bound
  BY <1>1 DEF Land, Result, Codes
<1>2. ASSUME ms.pos + 1 < ms.bound, words[ms.pos].key = DVNM => NameFits(words, ms)
      PROVE  Usable(noted) /\ noted.bound = ms.bound
  BY <1>2, NoteDeviceUsable
<1>3. CASE ms.pos + 1 < ms.bound
  <2>1. \/ r \in Corrupt(words, ms, flags)
        \/ r \in {Result(AGAIN, ms), Result(UNKNOWN_TYPE, ms), Result(BAD, ms)}
        \/ /\ words[ms.pos].key = DVNM => NameFits(words, ms)
           /\ r = Result(OK, noted) \/ r \in Corrupt(words, noted, flags)
    <3>1. ~(ms.pos + 1 >= ms.bound)
      BY <1>3, UsableFields
    <3> QED
      BY <3>1 DEF Land
  <2> HIDE DEF noted
  <2> QED
    BY <1>2, <1>3, <2>1, CorruptUsable DEF Result, Codes, OK, BAD
<1> QED
  BY <1>1, <1>3, UsableFields

(* A pass of GPMF_Next on a usable stream.                                  *)
LEMMA NextUsable ==
  ASSUME NEW n \in Nat, NEW words \in [0..(n - 1) -> Word], NEW ms, Usable(ms),
         ms.bound <= n, NEW flags, NEW r \in GPMF_Next(words, ms, flags)
  PROVE  /\ r.ret \in Codes \union {AGAIN}
         /\ r.ms \in Stream
         /\ r.ms.bound = ms.bound
         /\ r.ret # BAD \/ RECURSE \notin flags => Usable(r.ms)
<1> DEFINE step == Advance(words, ms, flags)
<1>1. CASE ms.pos + 1 >= ms.bound
  BY <1>1 DEF GPMF_Next, Result, Codes, Usable
<1>2. CASE ~(ms.pos + 1 >= ms.bound) /\ ~IsValidSize(ms, SizeAt(words, ms.pos))
  BY <1>2, CorruptUsable DEF GPMF_Next, Codes, Usable
<1>3. CASE ~(ms.pos + 1 >= ms.bound) /\ IsValidSize(ms, SizeAt(words, ms.pos))
  <2>1. ms.pos + 1 < n
    BY <1>3, UsableFields
  <2>2. /\ step.ret \in {OK, BAD, LAST} /\ step.ms \in Stream
        /\ step.ms.bound = ms.bound
        /\ step.ret # BAD \/ RECURSE \notin flags => Usable(step.ms)
    BY <2>1, AdvanceUsable
  <2>3. \/ r = step
        \/ step.ret = OK /\ r \in Land(words, Settle(words, step.ms), flags)
    <3>1. GPMF_Next(words, ms, flags) =
            IF step.ret # OK THEN {step} ELSE Land(words, Settle(words, step.ms), flags)
      BY <1>3 DEF GPMF_Next
    <3> HIDE DEF step
    <3> QED
      BY <3>1
  <2> HIDE DEF step
  <2>4. CASE r = step
    BY <2>2, <2>4 DEF Codes
  <2>5. CASE step.ret = OK /\ r \in Land(words, Settle(words, step.ms), flags)
    <3>1. Usable(step.ms)
      BY <2>2, <2>5 DEF OK, BAD
    <3>2. Usable(Settle(words, step.ms)) /\ Settle(words, step.ms).bound = ms.bound
      BY <2>2, <3>1, SettleUsable
    <3> QED
      BY <2>5, <3>2, LandUsable DEF Usable
  <2> QED
    BY <2>3, <2>4, <2>5
<1> QED
  BY <1>1, <1>2, <1>3

-----------------------------------------------------------------------------
(* Streams as they are opened and rewound, and passes without tolerance.    *)
LEMMA OpenedUsable ==
  ASSUME NEW n \in Nat
  PROVE  Usable(Opened(n)) /\ Opened(n).bound = n
BY BlankUsable, Zenon DEF Opened, Usable, Stream

LEMMA RewoundUsable ==
  ASSUME NEW ms \in Stream
  PROVE  Usable(Rewound(ms)) /\ Rewound(ms).bound = ms.bound
<1> DEFINE last  == [ms.last_level_pos EXCEPT ![0] = 0]
           sizes == [ms.nest_size EXCEPT ![0] = 0, ![NestLimit] = 0]
           back  == Booked(ms, 0, 0, last, sizes)
           new   == [back EXCEPT !.device_id = Blank.device_id,
                                 !.device_name = Blank.device_name]
<1>1. last \in [Slots -> Nat] /\ sizes \in [Levels -> Nat]
  BY DEF Stream
<1>2. Rewound(ms) = new
  BY DEF Rewound, Booked, Stream
<1> HIDE DEF last, sizes
<1>3. 0 \in Levels /\ 0 \in 0..(NestLimit + 1)
  BY LimitAssumption DEF Levels, Slots
<1>4. back \in Stream /\ back.nest_level = 0 /\ back.bound = ms.bound
  BY <1>1, <1>3, BookedStream, BookedFields
<1> HIDE DEF back
<1>5. Blank.device_id \in Word /\ Blank.device_name \in Seq(Word)
  BY BlankUsable DEF Usable, Stream
<1>6. new \in Stream /\ new.nest_level = 0 /\ new.bound = ms.bound
  BY <1>4, <1>5, Zenon DEF Stream
<1> QED
  BY <1>2, <1>3, <1>6 DEF Usable

(* Only a tolerant pass makes the tail call.                                *)
LEMMA NeverAgain ==
  ASSUME NEW n \in Nat, NEW words \in [0..(n - 1) -> Word], NEW ms, Usable(ms),
         ms.bound <= n, NEW flags, TOLERANT \notin flags,
         NEW r \in GPMF_Next(words, ms, flags)
  PROVE  r.ret \in Codes
<1>1. r.ret \in Codes \union {AGAIN}
  BY NextUsable
<1>2. ASSUME NEW s, NEW q \in Corrupt(words, s, flags) PROVE q.ret = BAD
  BY <1>2 DEF Corrupt, Result
<1>3. ASSUME NEW s, NEW q \in Land(words, s, flags) PROVE q.ret # AGAIN
  BY <1>2, <1>3 DEF Land, Result, OK, BAD, AGAIN, BUFFER_END, UNKNOWN_TYPE
<1>4. CASE ms.pos + 1 >= ms.bound
  BY <1>1, <1>4 DEF GPMF_Next, Result, Codes
<1>5. CASE ~(ms.pos + 1 >= ms.bound) /\ ~IsValidSize(ms, SizeAt(words, ms.pos))
  BY <1>2, <1>5 DEF GPMF_Next, Codes
<1>6. CASE ~(ms.pos + 1 >= ms.bound) /\ IsValidSize(ms, SizeAt(words, ms.pos))
  <2> DEFINE step == Advance(words, ms, flags)
  <2>1. ms.pos + 1 < n
    BY <1>6, UsableFields
  <2>2. step.ret \in {OK, BAD, LAST}
    BY <2>1, AdvanceUsable
  <2>3. r \in IF step.ret # OK THEN {step} ELSE Land(words, Settle(words, step.ms), flags)
    BY <1>6 DEF GPMF_Next
  <2> HIDE DEF step
  <2> QED
    BY <1>1, <1>3, <2>2, <2>3 DEF OK, BAD, LAST, AGAIN
<1> QED
  BY <1>4, <1>5, <1>6

-----------------------------------------------------------------------------
(***************************************************************************)
(* Where the cursor of a damaged payload can be.  What is left of a nest   *)
(* fits what was left of the nest around it when it was opened, out to the *)
(* bound: there is room for the whole of every level that is open.  ends   *)
(* are the words where the levels end.                                     *)
(***************************************************************************)
RoomBy(ms, ends) ==
  /\ ends \in [Levels -> Int]
  /\ ends[0] <= ms.bound
  /\ ms.pos + Remaining(ms) <= ends[ms.nest_level]
  /\ \A l \in 0..(ms.nest_level - 1) : ends[l + 1] + ms.nest_size[l] <= ends[l]
  /\ \A l, m \in 0..ms.nest_level : l <= m => ends[m] <= ends[l]

HasRoom(ms) == \E ends : RoomBy(ms, ends)

LEMMA RoomFits ==
  ASSUME NEW ms, Usable(ms), HasRoom(ms)
  PROVE  ms.pos <= ms.bound
<1> PICK ends : RoomBy(ms, ends)
  BY DEF HasRoom
<1>1. /\ ms.nest_level \in Nat /\ ms.nest_level \in Levels /\ 0 \in Levels
      /\ ms.pos \in Nat /\ ms.bound \in Nat /\ Remaining(ms) \in Nat
  BY UsableFields
<1>2. /\ ends[0] \in Int /\ ends[ms.nest_level] \in Int /\ ends[ms.nest_level] <= ends[0]
      /\ ends[0] <= ms.bound /\ ms.pos + Remaining(ms) <= ends[ms.nest_level]
  BY <1>1 DEF RoomBy
<1> QED
  BY <1>1, <1>2

(* A stream that moves within its nest, by the books.                       *)
LEMMA RoomWithin ==
  ASSUME NEW ms, Usable(ms), HasRoom(ms), NEW ns, Usable(ns),
         ns.bound = ms.bound, ns.nest_level = ms.nest_level,
         ns.pos + Remaining(ns) <= ms.pos + Remaining(ms),
         \A l \in 0..(ms.nest_level - 1) : ns.nest_size[l] = ms.nest_size[l]
  PROVE  HasRoom(ns)
<1> PICK ends : RoomBy(ms, ends)
  BY DEF HasRoom
<1>1. /\ ns.pos + Remaining(ns) \in Int /\ ms.pos + Remaining(ms) \in Int
      /\ ends[ms.nest_level] \in Int
  BY UsableFields DEF RoomBy
<1>2. ns.pos + Remaining(ns) <= ends[ms.nest_level]
  BY <1>1 DEF RoomBy
<1>3. RoomBy(ns, ends)
  BY <1>2 DEF RoomBy
<1> QED
  BY <1>3 DEF HasRoom

LEMMA RoomPopped ==
  ASSUME NEW ms, Usable(ms), HasRoom(ms)
  PROVE  HasRoom(PopEmpty(ms))
<1> PICK ends : RoomBy(ms, ends)
  BY DEF HasRoom
<1>1. PICK top \in 0..ms.nest_level :
        PopEmpty(ms) = Booked(ms, ms.pos, top, ms.last_level_pos, ms.nest_size)
  BY PopEmptyBooked
<1> DEFINE ns == PopEmpty(ms)
           n  == ms.nest_level
<1>2. /\ n \in Nat /\ n <= NestLimit /\ ms.pos \in Nat /\ ms \in Stream /\ ms.bound \in Nat
      /\ ms.nest_size \in [Levels -> Nat] /\ Remaining(ms) \in Nat
  BY UsableFields DEF Usable
<1>3. /\ ns.pos = ms.pos /\ ns.nest_level = top /\ ns.bound = ms.bound
      /\ ns.nest_size = ms.nest_size
  BY <1>1, <1>2, BookedFields
<1> HIDE DEF ns, n
<1>4. ns.pos + Remaining(ns) <= ends[top]
  <2>1. CASE top = n
    BY <1>3, <2>1 DEF RoomBy, Remaining, n
  <2>2. CASE top # n
    <3>1. /\ top \in 0..(n - 1) /\ top + 1 \in 0..n /\ n \in 0..n /\ top + 1 <= n
          /\ top \in Levels /\ top + 1 \in Levels /\ n \in Levels
      BY <1>1, <1>2, <2>2, LimitAssumption DEF Levels, Slots, n
    <3>2. /\ ends[top + 1] + ms.nest_size[top] <= ends[top]
          /\ ends[n] <= ends[top + 1] /\ ms.pos + Remaining(ms) <= ends[n]
      BY <3>1 DEF RoomBy, n
    <3>3. ends[top] \in Int /\ ends[top + 1] \in Int /\ ends[n] \in Int
          /\ ms.nest_size[top] \in Nat
      BY <1>2, <3>1 DEF RoomBy
    <3> QED
      BY <1>2, <1>3, <3>2, <3>3 DEF Remaining
  <2> QED
    BY <2>1, <2>2
<1>5. RoomBy(ns, ends)
  <2>1. \A l \in 0..top : l \in 0..n
    BY <1>1, <1>2 DEF n
  <2>2. \A l \in 0..(top - 1) : l \in 0..(n - 1)
    BY <1>1, <1>2 DEF n
  <2> QED
    BY <1>3, <1>4, <2>1, <2>2 DEF RoomBy, n
<1> QED
  BY <1>5 DEF HasRoom, ns

(* What a pass does once it has left the entry: it only goes on and out.    *)
Onward(ms, ns) ==
  /\ Usable(ns) /\ ns.bound = ms.bound /\ ms.pos <= ns.pos
  /\ ns.nest_level <= ms.nest_level /\ ns.last_level_pos = ms.last_level_pos
  /\ HasRoom(ms) => HasRoom(ns)

LEMMA OnwardOn ==
  ASSUME NEW a, NEW b, NEW c, Usable(a), Onward(a, b), Onward(b, c)
  PROVE  Onward(a, c)
<1>1. /\ a.pos \in Nat /\ b.pos \in Nat /\ c.pos \in Nat
      /\ a.nest_level \in Nat /\ b.nest_level \in Nat /\ c.nest_level \in Nat
  BY UsableFields DEF Onward
<1> QED
  BY <1>1 DEF Onward

LEMMA OnwardStays == ASSUME NEW ms, Usable(ms) PROVE Onward(ms, ms)
BY UsableFields DEF Onward

LEMMA PopOnward == ASSUME NEW ms, Usable(ms) PROVE Onward(ms, PopEmpty(ms))
<1>1. PICK top \in 0..ms.nest_level :
        PopEmpty(ms) = Booked(ms, ms.pos, top, ms.last_level_pos, ms.nest_size)
  BY PopEmptyBooked
<1>2. ms.nest_level \in Nat /\ ms.pos \in Nat /\ ms \in Stream
  BY UsableFields DEF Usable
<1>3. /\ PopEmpty(ms).pos = ms.pos /\ PopEmpty(ms).nest_level = top
      /\ PopEmpty(ms).last_level_pos = ms.last_level_pos
  BY <1>1, <1>2, BookedFields
<1> QED
  BY <1>1, <1>2, <1>3, PopEmptyUsable, RoomPopped DEF Onward

(* Words taken off the nest and added to the position.                      *)
LEMMA TakenOnward ==
  ASSUME NEW ms, Usable(ms), NEW k \in Nat, k <= Remaining(ms)
  PROVE  Onward(ms, Booked(ms, ms.pos + k, ms.nest_level, ms.last_level_pos,
                           [ms.nest_size EXCEPT ![ms.nest_level] = @ - k]))
<1> DEFINE sizes == [ms.nest_size EXCEPT ![ms.nest_level] = @ - k]
           ns    == Booked(ms, ms.pos + k, ms.nest_level, ms.last_level_pos, sizes)
           n     == ms.nest_level
<1>1. /\ n \in Nat /\ n \in Levels /\ n <= NestLimit /\ ms.pos \in Nat /\ ms \in Stream
      /\ ms.nest_size \in [Levels -> Nat] /\ ms.last_level_pos \in [Slots -> Nat]
      /\ Remaining(ms) \in Nat /\ Remaining(ms) = ms.nest_size[n]
  BY UsableFields DEF Usable, Remaining
<1>2. ms.nest_size[n] - k \in Nat /\ ms.pos + k \in Nat
  BY <1>1
<1>3. /\ sizes \in [Levels -> Nat] /\ sizes[n] = Remaining(ms) - k
      /\ \A l \in Levels : l # n => sizes[l] = ms.nest_size[l]
  BY <1>1, <1>2
<1> HIDE DEF sizes
<1>4. /\ ns.pos = ms.pos + k /\ ns.nest_level = n /\ ns.nest_size = sizes
      /\ ns.last_level_pos = ms.last_level_pos /\ ns.bound = ms.bound
  BY <1>1, BookedFields
<1>5. Usable(ns)
  BY <1>1, <1>2, <1>3, BookedUsable
<1> HIDE DEF ns, n
<1>6. ns.pos + Remaining(ns) <= ms.pos + Remaining(ms)
  BY <1>1, <1>3, <1>4 DEF Remaining
<1>7. \A l \in 0..(n - 1) : ns.nest_size[l] = ms.nest_size[l]
  <2>1. \A l \in 0..(n - 1) : l \in Levels /\ l # n
    BY <1>1, LimitAssumption DEF Levels, Slots
  <2> QED
    BY <1>3, <1>4, <2>1
<1>8. HasRoom(ms) => HasRoom(ns)
  BY <1>4, <1>5, <1>6, <1>7, RoomWithin DEF n
<1>9. ms.pos <= ns.pos /\ ns.nest_level <= ms.nest_level
  BY <1>1, <1>4 DEF n
<1> QED
  BY <1>4, <1>5, <1>8, <1>9 DEF Onward, ns, sizes

LEMMA SettleOnward ==
  ASSUME NEW ms, Usable(ms), NEW words
  PROVE  Onward(ms, Settle(words, ms))
<1> DEFINE one == SkipPadding(words, ms, ms.bound)
           two == PopEmpty(one)
<1>1. ASSUME NEW s, Usable(s), NEW limit PROVE Onward(s, SkipPadding(words, s, limit))
  <2> DEFINE k == PaddingAt(words, s.pos, Remaining(s), limit)
  <2>1. Remaining(s) \in Nat
    BY <1>1, UsableFields
  <2>2. k \in 0..Remaining(s)
    BY <2>1, PaddingRun
  <2> HIDE DEF k
  <2>3. SkipPadding(words, s, limit) =
          Booked(s, s.pos + k, s.nest_level, s.last_level_pos,
                 [s.nest_size EXCEPT ![s.nest_level] = @ - k])
    BY <1>1, SkipPaddingBooked DEF k
  <2>4. k \in Nat /\ k <= Remaining(s)
    BY <2>1, <2>2
  <2> QED
    BY <1>1, <2>3, <2>4, TakenOnward
<1>2. Onward(ms, one)
  BY <1>1
<1> HIDE DEF one
<1>3. Onward(one, two)
  BY <1>2, PopOnward DEF Onward
<1> HIDE DEF two
<1>4. Onward(two, SkipPadding(words, two, ms.bound - 1))
  BY <1>1, <1>3 DEF Onward
<1>5. Settle(words, ms) = SkipPadding(words, two, ms.bound - 1)
  BY DEF Settle, one, two
<1>6. Onward(ms, two)
  BY <1>2, <1>3, OnwardOn
<1> QED
  BY <1>4, <1>5, <1>6, OnwardOn

LEMMA CorruptOnward ==
  ASSUME NEW ms, Usable(ms), NEW words, NEW flags, NEW r \in Corrupt(words, ms, flags)
  PROVE  Onward(ms, r.ms)
<1>1. CASE {RECURSE, TOLERANT} \subseteq flags
  <2> DEFINE gone == [ms EXCEPT !.pos = @ + Remaining(ms),
                                !.nest_size[ms.nest_level] = 0]
             taken == Booked(ms, ms.pos + Remaining(ms), ms.nest_level, ms.last_level_pos,
                             [ms.nest_size EXCEPT ![ms.nest_level] = @ - Remaining(ms)])
  <2>1. r.ms = PopEmpty(gone)
    BY <1>1 DEF Corrupt, SkipLevel, Result
  <2>2. Remaining(ms) \in Nat /\ ms \in Stream /\ ms.nest_level \in Levels
        /\ ms.nest_size \in [Levels -> Nat] /\ Remaining(ms) = ms.nest_size[ms.nest_level]
    BY UsableFields DEF Usable, Remaining
  <2>3. [ms.nest_size EXCEPT ![ms.nest_level] = 0] =
          [ms.nest_size EXCEPT ![ms.nest_level] = @ - Remaining(ms)]
    BY <2>2
  <2>4. gone = taken
    <3>1. gone = Booked(ms, ms.pos + Remaining(ms), ms.nest_level, ms.last_level_pos,
                        [ms.nest_size EXCEPT ![ms.nest_level] = 0])
      BY <2>2 DEF Booked, Stream
    <3> QED
      BY <2>3, <3>1
  <2> HIDE DEF gone
  <2>5. Onward(ms, gone)
    BY <2>2, <2>4, TakenOnward
  <2>6. Onward(gone, PopEmpty(gone))
    BY <2>5, PopOnward DEF Onward
  <2> QED
    BY <2>1, <2>5, <2>6, OnwardOn
<1>2. CASE ~({RECURSE, TOLERANT} \subseteq flags)
  BY <1>2, OnwardStays DEF Corrupt, Result
<1> QED
  BY <1>1, <1>2

LEMMA LandOnward ==
  ASSUME NEW n \in Nat, NEW words \in [0..(n - 1) -> Word], NEW ms, Usable(ms),
         ms.bound <= n, NEW flags, NEW r \in Land(words, ms, flags)
  PROVE  Onward(ms, r.ms)
<1> DEFINE noted == NoteDevice(words, ms)
<1>1. \/ r.ms = ms
      \/ r \in Corrupt(words, ms, flags)
      \/ /\ ms.pos + 1 < ms.bound
         /\ words[ms.pos].key = DVNM => NameFits(words, ms)
         /\ r.ms = noted \/ r \in Corrupt(words, noted, flags)
  <2>1. ~(ms.pos + 1 >= ms.bound) => ms.pos + 1 < ms.bound
    BY UsableFields
  <2> QED
    BY <2>1 DEF Land, Result
<1>2. ASSUME ms.pos + 1 < ms.bound, words[ms.pos].key = DVNM => NameFits(words, ms)
      PROVE  Onward(ms, noted)
  <2>1. /\ Usable(noted) /\ noted.bound = ms.bound /\ noted.pos = ms.pos
        /\ noted.nest_level = ms.nest_level /\ noted.nest_size = ms.nest_size
        /\ noted.last_level_pos = ms.last_level_pos
    BY <1>2, NoteDeviceUsable
  <2> HIDE DEF noted
  <2>2. HasRoom(ms) => HasRoom(noted)
    BY <2>1 DEF HasRoom, RoomBy, Remaining
  <2> QED
    BY <2>1, <2>2, UsableFields DEF Onward
<1> HIDE DEF noted
<1>3. CASE r.ms = ms
  BY <1>3, OnwardStays
<1>4. CASE r \in Corrupt(words, ms, flags)
  BY <1>4, CorruptOnward
<1>5. CASE /\ ms.pos + 1 < ms.bound
           /\ words[ms.pos].key = DVNM => NameFits(words, ms)
           /\ r.ms = noted \/ r \in Corrupt(words, noted, flags)
  <2>1. Onward(ms, noted) /\ Usable(noted)
    BY <1>2, <1>5 DEF Onward
  <2>2. r \in Corrupt(words, noted, flags) => Onward(noted, r.ms)
    BY <2>1, CorruptOnward
  <2> QED
    BY <1>5, <2>1, <2>2, OnwardOn
<1> QED
  BY <1>1, <1>3, <1>4, <1>5

-----------------------------------------------------------------------------
(* Where a walk that began at a row of whole DEVCs is: on one of the row,   *)
(* or inside one, the nests around it opened further back the further out.  *)
OnRow(words, ms) ==
  /\ ms.nest_level = 0
  /\ ms.pos = ms.bound \/ (ms.pos + 1 < ms.bound /\ words[ms.pos].key = DEVC)

OpenedBefore(ms, level) ==
  /\ \A l \in 0..(level - 1) : ms.last_level_pos[l] + 2 <= ms.pos
  /\ \A l, m \in 0..(level - 1) : l <= m => ms.last_level_pos[l] <= ms.last_level_pos[m]

InRoom(words, ms) ==
  OnRow(words, ms) \/ (HasRoom(ms) /\ OpenedBefore(ms, ms.nest_level))

LEMMA InRoomFits ==
  ASSUME NEW words, NEW ms, Usable(ms), InRoom(words, ms)
  PROVE  ms.pos <= ms.bound
BY RoomFits, UsableFields DEF InRoom, OnRow

LEMMA OnwardInRoom ==
  ASSUME NEW words, NEW ms, Usable(ms), NEW ns, Onward(ms, ns)
  PROVE  /\ \A level \in Levels : OpenedBefore(ms, level) => OpenedBefore(ns, level)
         /\ HasRoom(ms) /\ OpenedBefore(ms, ms.nest_level) => InRoom(words, ns)
<1>1. /\ ms.pos \in Nat /\ ns.pos \in Nat /\ ms.nest_level \in Nat /\ ns.nest_level \in Nat
      /\ ns.nest_level <= ms.nest_level /\ ms.pos <= ns.pos
      /\ ns.last_level_pos = ms.last_level_pos
      /\ ms.last_level_pos \in [Slots -> Nat] /\ ms.nest_level <= NestLimit
  BY UsableFields DEF Onward
<1>2. ASSUME NEW level \in Levels, OpenedBefore(ms, level) PROVE OpenedBefore(ns, level)
  <2>1. ASSUME NEW l \in 0..(level - 1) PROVE ns.last_level_pos[l] + 2 <= ns.pos
    <3>1. ms.last_level_pos[l] + 2 <= ms.pos
      BY <1>2 DEF OpenedBefore
    <3>2. l \in Slots
      BY LimitAssumption DEF Levels, Slots
    <3>3. ms.last_level_pos[l] \in Nat
      BY <1>1, <3>2
    <3> QED
      BY <1>1, <3>1, <3>3
  <2> QED
    BY <1>1, <1>2, <2>1 DEF OpenedBefore
<1>3. ASSUME HasRoom(ms), OpenedBefore(ms, ms.nest_level) PROVE InRoom(words, ns)
  <2>1. OpenedBefore(ns, ms.nest_level)
    BY <1>2, <1>3, UsableFields
  <2>2. 0..(ns.nest_level - 1) \subseteq 0..(ms.nest_level - 1)
    BY <1>1
  <2>3. OpenedBefore(ns, ns.nest_level)
    BY <2>1, <2>2 DEF OpenedBefore
  <2> QED
    BY <1>3, <2>3 DEF InRoom, Onward
<1> QED
  BY <1>2, <1>3

(* On the outermost level all there is to the room is the bound.            *)
LEMMA RoomOutermost ==
  ASSUME NEW words, NEW ms, Usable(ms), ms.nest_level = 0,
         ms.pos + Remaining(ms) <= ms.bound
  PROVE  HasRoom(ms) /\ OpenedBefore(ms, ms.nest_level)
<1> DEFINE ends == [l \in Levels |-> ms.bound]
<1>1. ms.bound \in Nat /\ 0 \in Levels
  BY UsableFields
<1>2. ends \in [Levels -> Int] /\ ends[0] = ms.bound
  BY <1>1
<1> HIDE DEF ends
<1>3. RoomBy(ms, ends)
  BY <1>1, <1>2 DEF RoomBy
<1> QED
  BY <1>3 DEF HasRoom, OpenedBefore

(* At a DEVC nothing is taken for padding.                                  *)
LEMMA RowSettled ==
  ASSUME NEW words, NEW ms, Usable(ms), ms.nest_level = 0,
         ms.pos >= ms.bound \/ words[ms.pos].key # END
  PROVE  /\ Settle(words, ms).pos = ms.pos /\ Settle(words, ms).nest_level = 0
         /\ Usable(Settle(words, ms)) /\ Settle(words, ms).bound = ms.bound
<1>1. ASSUME NEW s, Usable(s), s.nest_level = 0, s.bound = ms.bound, s.pos = ms.pos,
             NEW limit \in {ms.bound, ms.bound - 1}
      PROVE  /\ SkipPadding(words, s, limit).pos = s.pos
             /\ SkipPadding(words, s, limit).nest_level = 0
             /\ Usable(SkipPadding(words, s, limit))
             /\ SkipPadding(words, s, limit).bound = ms.bound
  <2> DEFINE k == PaddingAt(words, s.pos, Remaining(s), limit)
  <2>1. Remaining(s) \in Nat /\ s.pos \in Nat /\ ms.bound \in Nat /\ s \in Stream
    BY <1>1, UsableFields DEF Usable
  <2>2. /\ k \in 0..Remaining(s)
        /\ \A j \in 0..(k - 1) : s.pos + j < limit /\ words[s.pos + j].key = END
    BY <2>1, PaddingRun
  <2> HIDE DEF k
  <2>3. ASSUME k # 0 PROVE FALSE
    <3>1. 0 \in 0..(k - 1) /\ s.pos + 0 = s.pos
      BY <2>1, <2>2, <2>3
    <3>2. s.pos < limit /\ words[s.pos].key = END
      BY <2>2, <3>1
    <3> QED
      BY <1>1, <2>1, <3>2
  <2>4. SkipPadding(words, s, limit) =
          Booked(s, s.pos + k, s.nest_level, s.last_level_pos,
                 [s.nest_size EXCEPT ![s.nest_level] = @ - k])
    BY <1>1, SkipPaddingBooked DEF k
  <2>5. /\ SkipPadding(words, s, limit).pos = s.pos + k
        /\ SkipPadding(words, s, limit).nest_level = s.nest_level
    BY <2>1, <2>4, BookedFields
  <2>6. s.pos + k = s.pos
    BY <2>1, <2>2, <2>3
  <2> QED
    BY <1>1, <2>5, <2>6, SkipPaddingUsable
<1> DEFINE one == SkipPadding(words, ms, ms.bound)
           two == PopEmpty(one)
<1>2. Usable(one) /\ one.pos = ms.pos /\ one.nest_level = 0 /\ one.bound = ms.bound
  BY <1>1
<1> HIDE DEF one
<1>3. Usable(two) /\ two.pos = ms.pos /\ two.nest_level = 0 /\ two.bound = ms.bound
  <2>1. PICK top \in 0..one.nest_level :
          PopEmpty(one) = Booked(one, one.pos, top, one.last_level_pos, one.nest_size)
    BY <1>2, PopEmptyBooked
  <2>2. top = 0 /\ one \in Stream
    BY <1>2 DEF Usable
  <2> QED
    BY <1>2, <2>1, <2>2, BookedFields, PopEmptyUsable
<1> HIDE DEF two
<1>4. Settle(words, ms) = SkipPadding(words, two, ms.bound - 1)
  BY DEF Settle, one, two
<1> QED
  BY <1>1, <1>3, <1>4

(* A pass at a DEVC of the row: to the next one, or inside, and what is     *)
(* given up there is measured against no more than the DEVC.                *)
LEMMA DevicePassInRoom ==
  ASSUME NEW n \in Nat, NEW words \in [0..(n - 1) -> Word], NEW ms, Usable(ms),
         ms.bound <= n, WholeDevices(words, ms.bound), ms.nest_level = 0,
         ms.pos + 1 < ms.bound, words[ms.pos].key = DEVC,
         NEW flags, NEW r \in GPMF_Next(words, ms, flags)
  PROVE  InRoom(words, r.ms)
<1> DEFINE size == SizeAt(words, ms.pos)
           next == ms.pos + 2 + size
<1>1. /\ ms.pos \in Nat /\ ms.bound \in Nat /\ size \in Nat /\ Remaining(ms) \in Nat
      /\ ms \in Stream /\ Remaining(ms) = ms.nest_size[0]
      /\ ms.nest_size \in [Levels -> Nat] /\ ms.last_level_pos \in [Slots -> Nat]
      /\ 0 \in Levels
  BY UsableFields, SizeNat DEF Usable, Remaining
<1>2. /\ words[ms.pos + 1].type = NEST
      /\ next = ms.bound \/ (next + 1 < ms.bound /\ words[next].key = DEVC)
  <2>1. ms.pos \in 0..(ms.bound - 2)
    BY <1>1
  <2> QED
    BY <2>1 DEF WholeDevices
<1> HIDE DEF size
<1>3. next <= ms.bound
  BY <1>1, <1>2
<1>4. CASE ~IsValidSize(ms, size)
  <2>1. ms.pos + Remaining(ms) <= ms.bound
    <3>1. ~(size + 2 <= IF Remaining(ms) = 0 THEN ms.bound ELSE Remaining(ms))
      BY <1>4 DEF IsValidSize
    <3> QED
      BY <1>1, <1>3, <3>1
  <2>2. r \in Corrupt(words, ms, flags)
    BY <1>1, <1>4 DEF GPMF_Next, size
  <2> QED
    BY <2>1, <2>2, RoomOutermost, CorruptOnward, OnwardInRoom
<1>5. CASE IsValidSize(ms, size)
  <2> DEFINE ns == StartDevice(ms, size, flags)
  <2>1. r \in Land(words, Settle(words, ns), flags)
    <3>1. Advance(words, ms, flags) = Result(OK, ns)
      BY <1>2 DEF Advance, AtDevice, size
    <3>2. ~(ms.pos + 1 >= ms.bound)
      BY <1>1
    <3> QED
      BY <1>5, <3>1, <3>2 DEF GPMF_Next, Result, size
  <2>2. Usable(ns) /\ ns.bound = ms.bound
    BY <1>1, StartDeviceUsable
  <2>3. /\ ns.pos = ms.pos + 2 + IF RECURSE \in flags THEN 0 ELSE size
        /\ ns.nest_level = 0 /\ Remaining(ns) = size
    <3>1. /\ ns.pos = ms.pos + 2 + IF RECURSE \in flags THEN 0 ELSE size
          /\ ns.nest_level = ms.nest_level
          /\ ns.nest_size = [ms.nest_size EXCEPT ![0] = size]
      <4> DEFINE pos == ms.pos + 2 + IF RECURSE \in flags THEN 0 ELSE size
                 last  == [ms.last_level_pos EXCEPT ![0] = ms.pos]
                 sizes == [ms.nest_size EXCEPT ![0] = size]
      <4>1. ns = Booked(ms, pos, ms.nest_level, last, sizes)
        BY StartDeviceBooked
      <4> HIDE DEF ns, pos, last, sizes
      <4>2. ns.pos = pos /\ ns.nest_level = ms.nest_level /\ ns.nest_size = sizes
        BY <1>1, <4>1, BookedFields
      <4> QED
        BY <4>2 DEF pos, sizes
    <3> QED
      BY <1>1, <3>1 DEF Remaining
  <2> HIDE DEF ns
  <2>4. CASE RECURSE \in flags
    <3>1. HasRoom(ns) /\ OpenedBefore(ns, ns.nest_level)
      BY <1>1, <1>3, <2>2, <2>3, <2>4, RoomOutermost
    <3>2. Onward(ns, Settle(words, ns))
      BY <2>2, SettleOnward
    <3>3. Onward(Settle(words, ns), r.ms)
      <4>1. Usable(Settle(words, ns)) /\ Settle(words, ns).bound <= n
        BY <2>2, <3>2 DEF Onward
      <4> QED
        BY <2>1, <4>1, LandOnward
    <3> QED
      BY <2>2, <3>1, <3>2, <3>3, OnwardOn, OnwardInRoom
  <2>5. CASE RECURSE \notin flags
    <3> DEFINE at == Settle(words, ns)
    <3>1. ns.pos = next
      BY <2>3, <2>5
    <3>2. ns.pos = ms.bound \/ (ns.pos + 1 < ms.bound /\ words[ns.pos].key = DEVC)
      BY <1>2, <3>1
    <3>3. ns.pos >= ns.bound \/ words[ns.pos].key # END
      BY <1>1, <2>2, <3>2, KeyAssumption
    <3>4. at.pos = ns.pos /\ at.nest_level = 0 /\ Usable(at) /\ at.bound = ms.bound
      BY <2>2, <2>3, <3>3, RowSettled
    <3> HIDE DEF at
    <3>5. r.ms.pos = at.pos /\ r.ms.nest_level = 0 /\ r.ms.bound = ms.bound
      <4>1. at.pos + 1 < at.bound => NoteDevice(words, at) = at
        BY <1>1, <3>2, <3>4 DEF NoteDevice, DEVC, DVID, DVNM
      <4>2. Corrupt(words, at, flags) = {Result(BAD, at)}
        BY <2>5 DEF Corrupt
      <4>3. ~(at.pos + 1 >= at.bound) => at.pos + 1 < at.bound
        BY <3>4, UsableFields
      <4>4. r.ms = at
        BY <2>1, <4>1, <4>2, <4>3 DEF Land, Result, at
      <4> QED
        BY <3>4, <4>4
    <3> QED
      BY <3>2, <3>4, <3>5 DEF InRoom, OnRow
  <2> QED
    BY <2>4, <2>5
<1> QED
  BY <1>4, <1>5

LEMMA StepOverOnward ==
  ASSUME NEW ms, Usable(ms), NEW size \in Nat, ~(size + 2 > Remaining(ms))
  PROVE  Onward(ms, StepOver(ms, size))
<1>1. size + 2 \in Nat /\ size + 2 <= Remaining(ms) /\ ms.pos + size + 2 = ms.pos + (size + 2)
  BY UsableFields
<1>2. StepOver(ms, size) =
        Booked(ms, ms.pos + (size + 2), ms.nest_level, ms.last_level_pos,
               [ms.nest_size EXCEPT ![ms.nest_level] = @ - (size + 2)])
  BY <1>1, StepOverBooked
<1> DEFINE k == size + 2
<1>3. k \in Nat /\ k <= Remaining(ms)
  BY <1>1
<1>4. StepOver(ms, size) =
        Booked(ms, ms.pos + k, ms.nest_level, ms.last_level_pos,
               [ms.nest_size EXCEPT ![ms.nest_level] = @ - k])
  BY <1>2
<1> HIDE DEF k
<1> QED
  BY <1>3, <1>4, TakenOnward

(* An entry with a nest in it takes its room from what is left around it.   *)
LEMMA OpenNestRoom ==
  ASSUME NEW ms, Usable(ms), HasRoom(ms), OpenedBefore(ms, ms.nest_level),
         NEW size \in Nat, ~(size + 2 > Remaining(ms)), OpenNest(ms, size).ret = OK
  PROVE  LET ns == OpenNest(ms, size).ms
         IN /\ Usable(ns) /\ ns.bound = ms.bound
            /\ HasRoom(ns) /\ OpenedBefore(ns, ns.nest_level)
<1> DEFINE n     == ms.nest_level
           last  == [ms.last_level_pos EXCEPT ![n] = ms.pos]
           outer == [ms.nest_size EXCEPT ![n] = @ - (size + 2)]
           inner == [outer EXCEPT ![n + 1] = size]
           over  == [outer EXCEPT ![0] = ms.pos]
           ns    == OpenNest(ms, size).ms
<1>1. /\ n \in Nat /\ n \in Levels /\ 0 \in Levels /\ ms.pos \in Nat /\ ms \in Stream
      /\ ms.bound \in Nat /\ ms.nest_size \in [Levels -> Nat]
      /\ ms.last_level_pos \in [Slots -> Nat]
      /\ Remaining(ms) \in Nat /\ Remaining(ms) = ms.nest_size[n]
  BY UsableFields DEF Usable, Remaining
<1>2. ~(n + 1 > NestLimit) /\ ns = Booked(ms, ms.pos + 2, n + 1, last, inner)
  <2>1. OpenNest(ms, size) =
          IF n + 1 > NestLimit
          THEN Result(BAD, Booked(ms, ms.pos + 2, n + 1, ms.last_level_pos, over))
          ELSE Result(OK, Booked(ms, ms.pos + 2, n + 1, last, inner))
    BY OpenNestBooked
  <2> HIDE DEF n, last, outer, inner, over
  <2> QED
    BY <2>1 DEF Result, OK, BAD
<1>3. n + 1 \in Levels /\ n \in Slots
  <2>1. ~(n + 1 > NestLimit)
    BY <1>2
  <2> HIDE DEF n
  <2> QED
    BY <1>1, <2>1, LimitAssumption DEF Levels, Slots
<1>4. Usable(ns) /\ ns.bound = ms.bound
  BY OpenNestUsable
<1>5. ms.nest_size[n] - (size + 2) \in Nat
  BY <1>1
<1>6. /\ inner[n + 1] = size /\ inner[n] = Remaining(ms) - (size + 2)
      /\ \A l \in Levels : l # n /\ l # n + 1 => inner[l] = ms.nest_size[l]
      /\ last[n] = ms.pos /\ \A l \in Slots : l # n => last[l] = ms.last_level_pos[l]
  BY <1>1, <1>3, <1>5
<1> HIDE DEF last, inner
<1>7. /\ ns.pos = ms.pos + 2 /\ ns.nest_level = n + 1 /\ ns.last_level_pos = last
      /\ ns.nest_size = inner
  BY <1>1, <1>2, BookedFields
<1> HIDE DEF ns, n
<1>8. \A l \in 0..(n - 1) : l \in Levels /\ l \in Slots /\ l # n /\ l # n + 1
  BY <1>1, <1>3, LimitAssumption DEF Levels, Slots
<1>9. HasRoom(ns)
  <2> PICK ends : RoomBy(ms, ends)
    BY DEF HasRoom
  <2> DEFINE new == [ends EXCEPT ![n + 1] = ms.pos + 2 + size]
  <2>1. ends \in [Levels -> Int] /\ ends[0] <= ms.bound /\ ms.pos + Remaining(ms) <= ends[n]
    BY DEF RoomBy, n
  <2>2. /\ new \in [Levels -> Int] /\ new[n + 1] = ms.pos + 2 + size
        /\ \A l \in Levels : l # n + 1 => new[l] = ends[l]
    BY <1>1, <1>3, <2>1
  <2> HIDE DEF new
  <2>3. new[0] <= ns.bound
    BY <1>1, <1>4, <2>1, <2>2
  <2>4. ns.pos + Remaining(ns) <= new[n + 1]
    BY <1>1, <1>6, <1>7, <2>2 DEF Remaining
  <2>5. new[n + 1] + ns.nest_size[n] <= new[n]
    <3>1. new[n] = ends[n] /\ ends[n] \in Int
      BY <1>1, <2>1, <2>2
    <3> QED
      BY <1>1, <1>6, <1>7, <2>1, <2>2, <3>1
  <2>6. ASSUME NEW l \in 0..n PROVE new[l + 1] + ns.nest_size[l] <= new[l]
    <3>1. CASE l = n
      BY <2>5, <3>1
    <3>2. CASE l # n
      <4>1. l \in 0..(n - 1) /\ l + 1 \in Levels /\ l + 1 # n + 1
        BY <1>1, <3>2, LimitAssumption DEF Levels, Slots
      <4>2. /\ new[l + 1] = ends[l + 1] /\ new[l] = ends[l]
            /\ ns.nest_size[l] = ms.nest_size[l]
        BY <1>6, <1>7, <1>8, <2>2, <4>1
      <4>3. ends[l + 1] + ms.nest_size[l] <= ends[l]
        BY <4>1 DEF RoomBy, n
      <4> QED
        BY <4>2, <4>3
    <3> QED
      BY <3>1, <3>2
  <2>7. ASSUME NEW l \in 0..(n + 1), NEW m \in 0..(n + 1), l <= m PROVE new[m] <= new[l]
    <3>1. \A k \in 0..n : k \in Levels /\ k # n + 1 /\ new[k] = ends[k] /\ ends[k] \in Int
      <4>1. \A k \in 0..n : k \in Levels /\ k # n + 1
        BY <1>1, <1>3, LimitAssumption DEF Levels, Slots
      <4> QED
        BY <2>1, <2>2, <4>1
    <3>2. \A j, k \in 0..n : j <= k => ends[k] <= ends[j]
      BY DEF RoomBy, n
    <3>3. new[n + 1] \in Int /\ n \in 0..n /\ new[n + 1] <= new[n]
      <4>1. new[n] = ends[n] /\ ends[n] \in Int
        BY <1>1, <3>1
      <4> QED
        BY <1>1, <2>1, <2>2, <4>1
    <3>4. CASE m = n + 1 /\ l = n + 1
      BY <3>3, <3>4
    <3>5. CASE m = n + 1 /\ l # n + 1
      <4>1. l \in 0..n /\ l <= n
        BY <1>1, <3>5
      <4>2. ends[n] <= ends[l] /\ new[n] = ends[n] /\ new[l] = ends[l]
            /\ ends[n] \in Int /\ ends[l] \in Int
        BY <3>1, <3>2, <3>3, <4>1
      <4> QED
        BY <3>3, <3>5, <4>2
    <3>6. CASE m # n + 1
      <4>1. l \in 0..n /\ m \in 0..n
        BY <1>1, <2>7, <3>6
      <4> QED
        BY <2>7, <3>1, <3>2, <4>1
    <3> QED
      BY <3>4, <3>5, <3>6
  <2>8. (n + 1) - 1 = n
    BY <1>1
  <2>9. RoomBy(ns, new)
    BY <1>7, <2>2, <2>3, <2>4, <2>6, <2>7, <2>8 DEF RoomBy
  <2> QED
    BY <2>9 DEF HasRoom
<1>10. OpenedBefore(ns, n + 1)
  <2>1. \A l \in 0..(n - 1) : last[l] = ms.last_level_pos[l] /\ last[l] + 2 <= ms.pos
                               /\ last[l] \in Nat
    <3>1. \A l \in 0..(n - 1) : ms.last_level_pos[l] + 2 <= ms.pos
      BY DEF OpenedBefore, n
    <3> QED
      BY <1>1, <1>6, <1>8, <3>1
  <2>2. \A l \in 0..n : l = n \/ l \in 0..(n - 1)
    BY <1>1
  <2>3. \A l \in 0..n : last[l] + 2 <= ns.pos
    BY <1>1, <1>6, <1>7, <2>1, <2>2
  <2>4. ASSUME NEW l \in 0..n, NEW m \in 0..n, l <= m PROVE last[l] <= last[m]
    <3>1. CASE m = n
      BY <1>1, <1>6, <2>1, <2>2, <3>1
    <3>2. CASE m # n
      <4>1. l \in 0..(n - 1) /\ m \in 0..(n - 1)
        BY <1>1, <2>4, <3>2
      <4>2. ms.last_level_pos[l] <= ms.last_level_pos[m]
        BY <2>4, <4>1 DEF OpenedBefore, n
      <4> QED
        BY <2>1, <4>1, <4>2
    <3> QED
      BY <3>1, <3>2
  <2>5. (n + 1) - 1 = n
    BY <1>1
  <2> QED
    BY <1>7, <2>3, <2>4, <2>5 DEF OpenedBefore
<1> QED
  BY <1>4, <1>7, <1>9, <1>10 DEF ns

(* A pass inside a device that does not open a nest goes on and out.        *)
LEMMA NextOnward ==
  ASSUME NEW n \in Nat, NEW words \in [0..(n - 1) -> Word], NEW ms, Usable(ms),
         ms.bound <= n, NEW flags, NEW r \in GPMF_Next(words, ms, flags),
         ms.nest_level # 0 \/ words[ms.pos].key # DEVC,
         RECURSE \notin flags \/ words[ms.pos + 1].type # NEST
  PROVE  Onward(ms, r.ms)
<1> DEFINE size == SizeAt(words, ms.pos)
           step == Advance(words, ms, flags)
<1>1. CASE ms.pos + 1 >= ms.bound
  BY <1>1, OnwardStays DEF GPMF_Next, Result
<1>2. CASE ~(ms.pos + 1 >= ms.bound) /\ ~IsValidSize(ms, size)
  BY <1>2, CorruptOnward DEF GPMF_Next
<1>3. CASE ~(ms.pos + 1 >= ms.bound) /\ IsValidSize(ms, size)
  <2>1. size \in Nat
    <3>1. ms.pos + 1 < n /\ ms.pos \in Nat
      BY <1>3, UsableFields
    <3> QED
      BY <3>1, SizeNat
  <2>2. \/ step.ms = ms
        \/ ~(size + 2 > Remaining(ms)) /\ step.ms = StepOver(ms, size)
    BY DEF Advance, AtDevice, Result
  <2>3. Onward(ms, step.ms)
    BY <2>1, <2>2, StepOverOnward, OnwardStays
  <2>4. r = step \/ r \in Land(words, Settle(words, step.ms), flags)
    BY <1>3 DEF GPMF_Next
  <2> HIDE DEF step
  <2>5. CASE r = step
    BY <2>3, <2>5
  <2>6. CASE r \in Land(words, Settle(words, step.ms), flags)
    <3> DEFINE at == Settle(words, step.ms)
    <3>1. Onward(step.ms, at)
      BY <2>3, SettleOnward DEF Onward
    <3> HIDE DEF at
    <3>2. Usable(at) /\ at.bound <= n
      BY <2>3, <3>1 DEF Onward
    <3>3. Onward(at, r.ms)
      BY <2>6, <3>2, LandOnward DEF at
    <3> QED
      BY <2>3, <3>1, <3>3, OnwardOn
  <2> QED
    BY <2>4, <2>5, <2>6
<1> QED
  BY <1>1, <1>2, <1>3

(* On the outermost level only a pass that opens nests leaves it.           *)
LEMMA NextOutermost ==
  ASSUME NEW n \in Nat, NEW words \in [0..(n - 1) -> Word], NEW ms, Usable(ms),
         ms.bound <= n, ms.nest_level = 0, NEW flags, RECURSE \notin flags,
         NEW r \in GPMF_Next(words, ms, flags)
  PROVE  r.ms.nest_level = 0
<1>1. CASE words[ms.pos].key # DEVC
  <2>1. Onward(ms, r.ms)
    BY <1>1, NextOnward
  <2>2. r.ms.nest_level \in Nat /\ r.ms.nest_level <= 0
    BY <2>1, UsableFields DEF Onward
  <2> QED
    BY <2>2
<1>2. CASE words[ms.pos].key = DEVC
  <2> DEFINE size == SizeAt(words, ms.pos)
             step == Advance(words, ms, flags)
  <2>1. CASE ms.pos + 1 >= ms.bound
    BY <2>1 DEF GPMF_Next, Result
  <2>2. CASE ~(ms.pos + 1 >= ms.bound) /\ ~IsValidSize(ms, size)
    BY <2>2 DEF GPMF_Next, Corrupt, Result
  <2>3. CASE ~(ms.pos + 1 >= ms.bound) /\ IsValidSize(ms, size)
    <3>1. size \in Nat
      <4>1. ms.pos + 1 < n /\ ms.pos \in Nat
        BY <2>3, UsableFields
      <4> QED
        BY <4>1, SizeNat
    <3>2. \/ step.ms = ms
          \/ ~(size + 2 > Remaining(ms)) /\ step.ms = StepOver(ms, size)
          \/ step.ms = StartDevice(ms, size, flags)
      BY DEF Advance, Result
    <3>3. Usable(step.ms) /\ step.ms.nest_level = 0 /\ step.ms.bound = ms.bound
      <4>1. StartDevice(ms, size, flags).nest_level = ms.nest_level
            /\ StepOver(ms, size).nest_level = ms.nest_level
        BY DEF StartDevice, StepOver, Usable, Stream
      <4> QED
        BY <3>1, <3>2, <4>1, StartDeviceUsable, StepOverUsable
    <3>4. r = step \/ r \in Land(words, Settle(words, step.ms), flags)
      BY <2>3 DEF GPMF_Next
    <3> HIDE DEF step
    <3>5. CASE r = step
      BY <3>3, <3>5
    <3>6. CASE r \in Land(words, Settle(words, step.ms), flags)
      <4> DEFINE at == Settle(words, step.ms)
      <4>1. Onward(step.ms, at)
        BY <3>3, SettleOnward
      <4> HIDE DEF at
      <4>2. Usable(at) /\ at.bound <= n
        BY <3>3, <4>1 DEF Onward
      <4>3. Onward(at, r.ms)
        BY <3>6, <4>2, LandOnward DEF at
      <4>4. /\ r.ms.nest_level \in Nat /\ at.nest_level \in Nat
            /\ r.ms.nest_level <= at.nest_level /\ at.nest_level <= 0
        BY <3>3, <4>1, <4>3, UsableFields DEF Onward
      <4> QED
        BY <4>4
    <3> QED
      BY <3>4, <3>5, <3>6
  <2> QED
    BY <2>1, <2>2, <2>3
<1> QED
  BY <1>1, <1>2

(* Any pass, as long as the DEVCs are whole.                                *)
LEMMA NextInRoom ==
  ASSUME NEW n \in Nat, NEW words \in [0..(n - 1) -> Word], NEW ms, Usable(ms),
         ms.bound <= n, WholeDevices(words, ms.bound), InRoom(words, ms),
         NEW flags, NEW r \in GPMF_Next(words, ms, flags), r.ret # BAD
  PROVE  InRoom(words, r.ms)
<1> DEFINE size == SizeAt(words, ms.pos)
           step == Advance(words, ms, flags)
<1>1. CASE ms.pos + 1 >= ms.bound
  BY <1>1 DEF GPMF_Next, Result
<1>2. CASE /\ ~(ms.pos + 1 >= ms.bound)
           /\ ms.nest_level = 0 /\ words[ms.pos].key = DEVC
  <2>1. ms.pos + 1 < ms.bound
    BY <1>2, UsableFields
  <2> QED
    BY <1>2, <2>1, DevicePassInRoom
<1>3. CASE /\ ~(ms.pos + 1 >= ms.bound)
           /\ ms.nest_level # 0 \/ words[ms.pos].key # DEVC
  <2>1. HasRoom(ms) /\ OpenedBefore(ms, ms.nest_level)
    <3>1. ~OnRow(words, ms)
      BY <1>3, UsableFields DEF OnRow
    <3> QED
      BY <3>1 DEF InRoom
  <2>2. CASE RECURSE \notin flags \/ words[ms.pos + 1].type # NEST
    BY <1>3, <2>1, <2>2, NextOnward, OnwardInRoom
  <2>3. CASE ~IsValidSize(ms, size)
    <3>1. r \in Corrupt(words, ms, flags)
      BY <1>3, <2>3 DEF GPMF_Next
    <3> QED
      BY <2>1, <3>1, CorruptOnward, OnwardInRoom
  <2>4. CASE /\ IsValidSize(ms, size)
             /\ RECURSE \in flags /\ words[ms.pos + 1].type = NEST
    <3>1. size \in Nat
      <4>1. ms.pos + 1 < n /\ ms.pos \in Nat
        BY <1>3, UsableFields
      <4> QED
        BY <4>1, SizeNat
    <3>2. \/ step = Result(BAD, ms)
          \/ ~(size + 2 > Remaining(ms)) /\ step = OpenNest(ms, size)
      BY <1>3, <2>4 DEF Advance, AtDevice
    <3>3. IF step.ret # OK THEN r = step ELSE r \in Land(words, Settle(words, step.ms), flags)
      BY <1>3, <2>4 DEF GPMF_Next
    <3>4. ~(size + 2 > Remaining(ms)) /\ step = OpenNest(ms, size) /\ step.ret = OK
      <4>1. CASE step = Result(BAD, ms)
        BY <3>3, <4>1 DEF Result, OK, BAD
      <4>2. CASE ~(size + 2 > Remaining(ms)) /\ step = OpenNest(ms, size)
        <5>1. OpenNest(ms, size).ret \in {OK, BAD}
          BY <3>1, <4>2, OpenNestUsable
        <5> QED
          BY <3>3, <4>2, <5>1 DEF OK, BAD
      <4> QED
        BY <3>2, <4>1, <4>2
    <3> DEFINE ns == OpenNest(ms, size).ms
               at == Settle(words, ns)
    <3>5. /\ Usable(ns) /\ ns.bound = ms.bound
          /\ HasRoom(ns) /\ OpenedBefore(ns, ns.nest_level)
      BY <2>1, <3>1, <3>4, OpenNestRoom
    <3>6. r \in Land(words, at, flags)
      BY <3>3, <3>4
    <3> HIDE DEF step, ns
    <3>7. Onward(ns, at)
      BY <3>5, SettleOnward
    <3> HIDE DEF at
    <3>8. Usable(at) /\ at.bound <= n
      BY <3>5, <3>7 DEF Onward
    <3>9. Onward(at, r.ms)
      BY <3>6, <3>8, LandOnward
    <3> QED
      BY <3>5, <3>7, <3>9, OnwardOn, OnwardInRoom
  <2> QED
    BY <2>2, <2>3, <2>4
<1> QED
  BY <1>1, <1>2, <1>3

(* GPMF_FindPrev goes back to the first entry of a nest that is open and    *)
(* gives the nest what was taken from it since; in the 32 bits of nest_size *)
(* that may come out less, never more.                                      *)
LEMMA RewindRoom ==
  ASSUME NEW ms, Usable(ms), HasRoom(ms), NEW level \in Levels, level # 0,
         OpenedBefore(ms, level), NEW back, Usable(back),
         back.pos = ms.last_level_pos[level - 1] + 2, back.bound = ms.bound,
         back.nest_level = ms.nest_level, back.last_level_pos = ms.last_level_pos,
         back.nest_size[level] = (ms.nest_size[level] + ms.pos - back.pos) % Modulus,
         \A l \in Levels : l # level => back.nest_size[l] = ms.nest_size[l]
  PROVE  HasRoom(back) /\ OpenedBefore(back, level)
<1> DEFINE n == ms.nest_level
           d == ms.pos - back.pos
<1>1. /\ n \in Nat /\ n \in Levels /\ 0 \in Levels /\ ms.pos \in Nat /\ back.pos \in Nat
      /\ ms.bound \in Nat /\ ms.nest_size \in [Levels -> Nat]
      /\ back.nest_size \in [Levels -> Nat] /\ ms.last_level_pos \in [Slots -> Nat]
      /\ Remaining(ms) \in Nat /\ Remaining(ms) = ms.nest_size[n]
      /\ Remaining(back) = back.nest_size[n]
  BY UsableFields DEF Remaining
<1>2. level \in Nat /\ level - 1 \in 0..(level - 1) /\ level - 1 \in Levels
  BY LimitAssumption DEF Levels, Slots
<1>3. d \in Nat
  <2>1. ms.last_level_pos[level - 1] + 2 <= ms.pos
    BY <1>2 DEF OpenedBefore
  <2> QED
    BY <1>1, <1>2, <2>1
<1>4. back.nest_size[level] <= ms.nest_size[level] + d
  <2> DEFINE x == ms.nest_size[level] + ms.pos - back.pos
  <2>1. x \in Nat /\ x = ms.nest_size[level] + d
    BY <1>1, <1>3
  <2> HIDE DEF x
  <2>2. x % Modulus <= x
    <3>1. CASE x < Modulus
      BY <2>1, <3>1, LimitAssumption
    <3>2. CASE ~(x < Modulus)
      <4>1. x % Modulus \in 0..(Modulus - 1)
        BY <2>1, LimitAssumption
      <4> QED
        BY <2>1, <3>2, <4>1, LimitAssumption
    <3> QED
      BY <3>1, <3>2
  <2>3. back.nest_size[level] = x % Modulus
    BY DEF x
  <2> QED
    BY <2>1, <2>2, <2>3
<1>5. back.pos = ms.pos - d
  BY <1>1
<1> HIDE DEF d
<1>6. HasRoom(back)
  <2> PICK ends : RoomBy(ms, ends)
    BY DEF HasRoom
  <2> DEFINE new == [l \in Levels |-> IF l <= level THEN ends[l] ELSE ends[l] - d]
  <2>1. /\ ends \in [Levels -> Int] /\ ends[0] <= ms.bound
        /\ ms.pos + Remaining(ms) <= ends[n]
    BY DEF RoomBy
  <2>2. /\ new \in [Levels -> Int]
        /\ \A l \in Levels : new[l] = IF l <= level THEN ends[l] ELSE ends[l] - d
    BY <1>3, <2>1
  <2> HIDE DEF new, n
  <2>3. new[0] <= back.bound
    BY <1>1, <1>2, <2>1, <2>2
  <2>4. back.pos + Remaining(back) <= new[n]
    <3>1. n # level => Remaining(back) = Remaining(ms)
      BY <1>1
    <3>2. n = level => Remaining(back) <= Remaining(ms) + d
      BY <1>1, <1>4
    <3>3. new[n] = (IF n <= level THEN ends[n] ELSE ends[n] - d) /\ ends[n] \in Int
          /\ Remaining(back) \in Nat
      BY <1>1, <2>1, <2>2
    <3> QED
      BY <1>1, <1>2, <1>3, <1>5, <2>1, <3>1, <3>2, <3>3
  <2>5. ASSUME NEW l \in 0..(n - 1) PROVE new[l + 1] + back.nest_size[l] <= new[l]
    <3>1. l \in Levels /\ l + 1 \in Levels /\ l \in Nat
      BY <1>1, LimitAssumption DEF Levels, Slots
    <3>2. ends[l + 1] + ms.nest_size[l] <= ends[l]
      BY DEF RoomBy, n
    <3>3. /\ ends[l] \in Int /\ ends[l + 1] \in Int
          /\ ms.nest_size[l] \in Nat /\ back.nest_size[l] \in Nat
          /\ new[l] = IF l <= level THEN ends[l] ELSE ends[l] - d
          /\ new[l + 1] = IF l + 1 <= level THEN ends[l + 1] ELSE ends[l + 1] - d
          /\ l # level => back.nest_size[l] = ms.nest_size[l]
          /\ l = level => back.nest_size[l] <= ms.nest_size[l] + d
      BY <1>1, <1>4, <2>1, <2>2, <3>1
    <3> QED
      BY <1>2, <1>3, <3>1, <3>2, <3>3
  <2>6. ASSUME NEW l \in 0..n, NEW m \in 0..n, l <= m PROVE new[m] <= new[l]
    <3>1. l \in Levels /\ m \in Levels /\ l \in Nat /\ m \in Nat
      <4>1. \A k \in 0..n : k \in Nat /\ k <= NestLimit
        BY <1>1, LimitAssumption DEF Levels, Slots
      <4> QED
        BY <4>1, LimitAssumption DEF Levels, Slots
    <3>2. ends[m] <= ends[l]
      BY <2>6 DEF RoomBy, n
    <3>3. /\ ends[l] \in Int /\ ends[m] \in Int
          /\ new[l] = IF l <= level THEN ends[l] ELSE ends[l] - d
          /\ new[m] = IF m <= level THEN ends[m] ELSE ends[m] - d
      BY <2>1, <2>2, <3>1
    <3> QED
      BY <1>2, <1>3, <2>6, <3>1, <3>2, <3>3
  <2>7. RoomBy(back, new)
    BY <2>2, <2>3, <2>4, <2>5, <2>6 DEF RoomBy, n
  <2> QED
    BY <2>7 DEF HasRoom
<1>7. OpenedBefore(back, level)
  <2>1. ASSUME NEW l \in 0..(level - 1) PROVE ms.last_level_pos[l] + 2 <= back.pos
    <3>1. l <= level - 1 /\ l \in Slots /\ level - 1 \in Slots
      BY <1>2, LimitAssumption DEF Levels, Slots
    <3>2. ms.last_level_pos[l] <= ms.last_level_pos[level - 1]
      BY <1>2, <3>1 DEF OpenedBefore
    <3>3. ms.last_level_pos[l] \in Nat /\ ms.last_level_pos[level - 1] \in Nat
      BY <1>1, <1>2, <3>1
    <3> QED
      BY <3>2, <3>3
  <2> QED
    BY <2>1 DEF OpenedBefore
<1> QED
  BY <1>6, <1>7

-----------------------------------------------------------------------------
(* The second part: a sound payload.                                        *)

Outlined(p) == PayloadShape(p) /\ Sound(p)

-----------------------------------------------------------------------------
(* What the outline says of an entry.                                       *)
LEMMA ItemFacts ==
  ASSUME NEW p, Outlined(p), NEW i \in p.items
  PROVE  /\ i \in Nat /\ i + 1 < p.longs
         /\ p.longs \in Nat /\ p.words \in [0..(p.longs - 1) -> Word]
         /\ SizeAt(p.words, i) \in Nat
         /\ EndOf(p, i) = i + 2 + SizeAt(p.words, i)
         /\ EndOf(p, i) \in Nat /\ i + 2 <= EndOf(p, i) /\ EndOf(p, i) <= p.longs
         /\ p.words[i].key \in FourCC /\ p.words[i].key # END
         /\ p.words[i + 1].ssize # 0
         /\ p.up[i] \in p.items
         /\ p.lev[i] \in Nat /\ p.lev[i] < NestLimit
<1>1. /\ p.longs \in Nat /\ p.words \in [0..(p.longs - 1) -> Word]
      /\ p.items \subseteq 0..(p.longs - 1)
      /\ p.up \in [p.items -> p.items] /\ p.lev \in [p.items -> Nat]
  BY DEF Outlined, PayloadShape
<1>2. /\ i + 2 <= p.longs /\ EndOf(p, i) <= p.longs
      /\ p.words[i].key \in FourCC /\ p.words[i + 1].ssize # 0
      /\ p.lev[i] < NestLimit
  BY DEF Outlined, Sound, WholeEntries, LevelsCount, KeyOf
<1>3. i \in Nat /\ i + 1 < p.longs
  BY <1>1, <1>2
<1>4. SizeAt(p.words, i) \in Nat
  BY <1>1, <1>3, SizeNat
<1>5. EndOf(p, i) = i + 2 + SizeAt(p.words, i)
  BY DEF EndOf
<1>6. p.words[i].key # END
  BY <1>2, KeyAssumption
<1>7. EndOf(p, i) \in Nat /\ i + 2 <= EndOf(p, i)
  BY <1>3, <1>4, <1>5
<1> QED
  BY <1>1, <1>2, <1>3, <1>4, <1>5, <1>6, <1>7

LEMMA DeviceFacts ==
  ASSUME NEW p, Outlined(p), NEW d \in p.items, IsDevice(p, d)
  PROVE  /\ p.words[d].key = DEVC /\ p.words[d + 1].type = NEST /\ p.lev[d] = 0
         /\ \/ EndOf(p, d) = p.longs
            \/ EndOf(p, d) \in p.items /\ IsDevice(p, EndOf(p, d))
BY DEF Outlined, Sound, DeviceChain, KeyOf, IsNest, TypeOf

LEMMA InnerFacts ==
  ASSUME NEW p, Outlined(p), NEW i \in p.items, ~IsDevice(p, i)
  PROVE  LET u == p.up[i]
             e == EndOf(p, i)
         IN /\ p.words[i].key # DEVC
            /\ u \in p.items /\ u # i /\ IsNest(p, u) /\ u + 2 <= i
            /\ e <= EndOf(p, u)
            /\ p.lev[i] = IF IsDevice(p, u) THEN 0 ELSE p.lev[u] + 1
            /\ e # EndOf(p, u) =>
                 e \in p.items /\ p.up[e] = u /\ ~IsDevice(p, e) /\ p.lev[e] = p.lev[i]
<1> DEFINE u == p.up[i]
           e == EndOf(p, i)
<1>1. p.words[i].key # DEVC
  BY DEF Outlined, Sound, DeviceChain, KeyOf
<1>2. u \in p.items /\ u # i
  BY ItemFacts DEF IsDevice
<1>3. /\ IsNest(p, u) /\ u + 2 <= i /\ e <= EndOf(p, u)
      /\ e # EndOf(p, u) => e \in p.items /\ p.up[e] = u
  BY DEF Outlined, Sound, PackedNests
<1>4. p.lev[i] = IF IsDevice(p, u) THEN 0 ELSE p.lev[u] + 1
  BY DEF Outlined, Sound, LevelsCount
<1>5. ASSUME e # EndOf(p, u) PROVE ~IsDevice(p, e) /\ p.lev[e] = p.lev[i]
  <2>1. e \in p.items /\ p.up[e] = u
    BY <1>3, <1>5
  <2>2. i \in Nat /\ u \in Nat /\ i + 2 <= e /\ e \in Nat
    BY <1>2, ItemFacts
  <2>3. e # u
    BY <1>3, <2>2
  <2>4. ~IsDevice(p, e)
    BY <2>1, <2>3 DEF IsDevice
  <2>5. p.lev[e] = IF IsDevice(p, u) THEN 0 ELSE p.lev[u] + 1
    BY <2>1, <2>4 DEF Outlined, Sound, LevelsCount
  <2> QED
    BY <1>4, <2>4, <2>5
<1> QED
  BY <1>1, <1>2, <1>3, <1>4, <1>5

(* A nest that is not empty starts with an entry of its own.                *)
LEMMA FirstInside ==
  ASSUME NEW p, Outlined(p), NEW i \in p.items, IsNest(p, i), SizeAt(p.words, i) # 0
  PROVE  /\ i + 2 \in p.items /\ p.up[i + 2] = i /\ ~IsDevice(p, i + 2)
         /\ p.lev[i + 2] = IF IsDevice(p, i) THEN 0 ELSE p.lev[i] + 1
<1>1. i + 2 \in p.items /\ p.up[i + 2] = i
  BY DEF Outlined, Sound, PackedNests
<1>2. i \in Nat
  BY ItemFacts
<1>3. ~IsDevice(p, i + 2)
  BY <1>1, <1>2 DEF IsDevice
<1> QED
  BY <1>1, <1>3, InnerFacts

-----------------------------------------------------------------------------
(* A place of the walk: an entry or the end.                                *)
Placed(p, pos) == pos \in p.items \union {p.longs}

(* Nothing is taken for padding where an entry starts, at the end, or when  *)
(* the nest is used up.                                                     *)
LEMMA NoPadding ==
  ASSUME NEW p, Outlined(p), NEW ms, Usable(ms), NEW limit \in Int, limit <= p.longs,
         Remaining(ms) = 0 \/ Placed(p, ms.pos)
  PROVE  SkipPadding(p.words, ms, limit) = ms
<1> DEFINE k == PaddingAt(p.words, ms.pos, Remaining(ms), limit)
<1>1. Remaining(ms) \in Nat /\ ms.pos \in Nat /\ p.longs \in Nat
  BY UsableFields DEF Outlined, PayloadShape
<1>2. /\ k \in 0..Remaining(ms)
      /\ \A j \in 0..(k - 1) : ms.pos + j < limit /\ p.words[ms.pos + j].key = END
  BY <1>1, PaddingRun
<1> HIDE DEF k
<1>3. k = 0
  <2>1. CASE Remaining(ms) = 0
    BY <1>2, <2>1
  <2>2. CASE ms.pos \in p.items \union {p.longs}
    <3>1. ASSUME k # 0 PROVE FALSE
      <4>1. ms.pos < limit /\ p.words[ms.pos].key = END
        <5>1. 0 \in 0..(k - 1) /\ ms.pos + 0 = ms.pos
          BY <1>1, <1>2, <3>1
        <5> QED
          BY <1>2, <5>1
      <4>2. ms.pos \in p.items
        BY <1>1, <2>2, <4>1
      <4> QED
        BY <4>1, <4>2, ItemFacts
    <3> QED
      BY <3>1
  <2> QED
    BY <2>1, <2>2 DEF Placed
<1>4. SkipPadding(p.words, ms, limit) =
        [ms EXCEPT !.pos = @ + k, !.nest_size[ms.nest_level] = @ - k]
  BY DEF SkipPadding, k
<1>5. ms \in Stream /\ ms.nest_level \in Levels /\ ms.nest_size \in [Levels -> Nat]
  BY UsableFields DEF Usable
<1>6. ms.pos + 0 = ms.pos /\ [ms.nest_size EXCEPT ![ms.nest_level] = @ - 0] = ms.nest_size
  BY <1>1, <1>5
<1>7. [ms EXCEPT !.pos = @ + 0, !.nest_size[ms.nest_level] = @ - 0] = ms
  <2>1. [ms EXCEPT !.pos = @ + 0, !.nest_size[ms.nest_level] = @ - 0] =
          [[ms EXCEPT !.pos = @ + 0] EXCEPT !.nest_size = [ms.nest_size EXCEPT ![ms.nest_level] = @ - 0]]
    BY <1>5 DEF Stream
  <2> QED
    BY <1>5, <1>6, <2>1 DEF Stream
<1> QED
  BY <1>3, <1>4, <1>7

(* A level that is not used up is kept.                                     *)
LEMMA PopNothing ==
  ASSUME NEW ms, Usable(ms), Remaining(ms) # 0 \/ ms.nest_level = 0
  PROVE  PopEmpty(ms) = ms
<1>1. PICK top \in 0..ms.nest_level :
        /\ PopEmpty(ms) = Booked(ms, ms.pos, top, ms.last_level_pos, ms.nest_size)
        /\ \A l \in (top + 1)..ms.nest_level : ms.nest_size[l] = 0
  BY PopEmptyBooked
<1>2. ms.nest_level \in Nat /\ ms \in Stream
  BY UsableFields DEF Usable
<1>3. top = ms.nest_level
  BY <1>1, <1>2 DEF Remaining
<1> QED
  BY <1>1, <1>2, <1>3 DEF Booked, Stream

-----------------------------------------------------------------------------
(* The stream has just left entry a behind, by the books of level l.        *)
LeftBehind(p, ms, a, l) ==
  /\ a \in p.items /\ ~IsDevice(p, a) /\ p.lev[a] = l
  /\ ms.pos = EndOf(p, a)
  /\ ms.nest_size[l] = EndOf(p, p.up[a]) - EndOf(p, a)
  /\ l > 0 => p.up[a] = ms.last_level_pos[l - 1]

(* OnKlv, but for the size of the device: what a pass checks last.          *)
NearKlv(p, ms) ==
  /\ ms.bound = p.longs
  /\ \/ ms.pos = p.longs /\ ms.nest_level = 0
     \/ ms.pos \in p.items /\ IF IsDevice(p, ms.pos) THEN ms.nest_level = 0
                              ELSE InNest(p, ms)

(* Level by level, down to the level l that is kept, the nest that ends     *)
(* here is the entry that is left behind one level below.                   *)
LEMMA ClimbDown ==
  ASSUME NEW p, Outlined(p), NEW ms, Usable(ms),
         NEW bottom \in Nat, NEW a, LeftBehind(p, ms, a, bottom),
         \A l \in 0..(bottom - 1) : Outer(p, ms, l),
         NEW top \in 0..bottom, \A l \in (top + 1)..bottom : ms.nest_size[l] = 0
  PROVE  \E b : LeftBehind(p, ms, b, top)
<1> DEFINE short == {l \in top..bottom : ~\E b : LeftBehind(p, ms, b, l)}
<1>1. SUFFICES ASSUME short # {} PROVE FALSE
  BY <1>1
<1>2. short \in SUBSET (0..bottom)
  OBVIOUS
<1>3. PICK x \in short : \A y \in short : y <= x
  BY <1>1, <1>2, BoundedMax
<1>4. x \in top..bottom /\ ~\E b : LeftBehind(p, ms, b, x)
  BY <1>3
<1>5. x # bottom
  BY <1>4
<1>6. x \in Nat /\ x + 1 \in (top + 1)..bottom /\ x \in 0..(bottom - 1) /\ x + 1 \in top..bottom
  BY <1>4, <1>5
<1>7. x + 1 \notin short
  BY <1>3, <1>6
<1>8. PICK b : LeftBehind(p, ms, b, x + 1)
  BY <1>6, <1>7
<1> HIDE DEF short
<1> DEFINE u == ms.last_level_pos[x]
<1>9. /\ b \in p.items /\ ~IsDevice(p, b) /\ ms.pos = EndOf(p, b)
      /\ 0 = EndOf(p, p.up[b]) - EndOf(p, b) /\ p.up[b] = u
  <2>1. ms.nest_size[x + 1] = 0
    BY <1>6
  <2>2. x + 1 > 0 /\ (x + 1) - 1 = x
    BY <1>6
  <2> QED
    BY <1>8, <2>1, <2>2 DEF LeftBehind
<1>10. /\ u \in p.items /\ ~IsDevice(p, u) /\ p.lev[u] = x
       /\ ms.nest_size[x] = EndOf(p, p.up[u]) - EndOf(p, u)
       /\ x > 0 => p.up[u] = ms.last_level_pos[x - 1]
  BY <1>6 DEF Outer
<1>11. EndOf(p, u) = EndOf(p, b)
  <2>1. EndOf(p, u) \in Nat /\ EndOf(p, b) \in Nat
    BY <1>9, <1>10, ItemFacts
  <2> QED
    BY <1>9, <2>1
<1>12. LeftBehind(p, ms, u, x)
  BY <1>9, <1>10, <1>11 DEF LeftBehind
<1> QED
  BY <1>4, <1>12

(* Where an entry ends, the levels that end with it are left, and the place *)
(* is the next entry of the nest that goes on, a device, or the end.        *)
LEMMA ClimbOut ==
  ASSUME NEW p, Outlined(p), NEW ms, Usable(ms), ms.bound = p.longs,
         NEW bottom \in Nat, bottom <= ms.nest_level,
         NEW a, LeftBehind(p, ms, a, bottom),
         \A l \in 0..(bottom - 1) : Outer(p, ms, l),
         \A l \in (bottom + 1)..ms.nest_level : ms.nest_size[l] = 0
  PROVE  OnKlv(p, PopEmpty(ms)) /\ PopEmpty(ms).pos = ms.pos
<1>1. PICK top \in 0..ms.nest_level :
        /\ PopEmpty(ms) = Booked(ms, ms.pos, top, ms.last_level_pos, ms.nest_size)
        /\ top = 0 \/ ms.nest_size[top] # 0
        /\ \A l \in (top + 1)..ms.nest_level : ms.nest_size[l] = 0
  BY PopEmptyBooked
<1> DEFINE out == PopEmpty(ms)
<1>2. ms.nest_level \in Nat /\ ms.pos \in Nat /\ ms \in Stream
  BY UsableFields DEF Usable
<1>3. top \in 0..bottom
  <2>1. ASSUME top > bottom PROVE FALSE
    <3>1. top \in (bottom + 1)..ms.nest_level /\ top # 0
      BY <1>1, <1>2, <2>1
    <3> QED
      BY <1>1, <3>1
  <2> QED
    BY <1>1, <1>2, <2>1
<1>4. \A l \in (top + 1)..bottom : ms.nest_size[l] = 0
  BY <1>1, <1>2
<1>5. PICK b : LeftBehind(p, ms, b, top)
  BY <1>3, <1>4, ClimbDown
<1>6. /\ out.pos = ms.pos /\ out.nest_level = top /\ out.bound = p.longs
      /\ out.nest_size = ms.nest_size /\ out.last_level_pos = ms.last_level_pos
  BY <1>1, <1>2, BookedFields
<1> HIDE DEF out
<1> DEFINE e == EndOf(p, b)
           u == p.up[b]
<1>7. /\ b \in p.items /\ ~IsDevice(p, b) /\ p.lev[b] = top /\ ms.pos = e
      /\ ms.nest_size[top] = EndOf(p, u) - e
      /\ top > 0 => u = ms.last_level_pos[top - 1]
  BY <1>5 DEF LeftBehind
<1>8. u \in p.items /\ EndOf(p, u) \in Nat /\ e \in Nat
  BY <1>7, ItemFacts
<1>9. CASE e # EndOf(p, u)
  <2>1. e \in p.items /\ p.up[e] = u /\ ~IsDevice(p, e) /\ p.lev[e] = top
    BY <1>7, <1>9, InnerFacts
  <2>2. \A l \in 0..(top - 1) : Outer(p, out, l)
    BY <1>3, <1>6 DEF Outer
  <2>3. InNest(p, out)
    BY <1>6, <1>7, <2>1, <2>2 DEF InNest
  <2> QED
    BY <1>6, <1>7, <2>1, <2>3 DEF OnKlv, out
<1>10. CASE e = EndOf(p, u)
  <2>1. ms.nest_size[top] = 0 /\ top = 0
    BY <1>1, <1>7, <1>8, <1>10
  <2>2. IsDevice(p, u)
    <3>1. p.lev[b] = IF IsDevice(p, u) THEN 0 ELSE p.lev[u] + 1
      BY <1>7, InnerFacts
    <3>2. p.lev[u] \in Nat
      BY <1>8, ItemFacts
    <3> QED
      BY <1>7, <2>1, <3>1, <3>2
  <2>3. \/ e = p.longs
        \/ e \in p.items /\ IsDevice(p, e)
    BY <1>8, <1>10, <2>2, DeviceFacts
  <2> QED
    BY <1>6, <1>7, <2>1, <2>3 DEF OnKlv, OnDevice, out
<1> QED
  BY <1>9, <1>10

-----------------------------------------------------------------------------
(* The four ways a pass takes the stream on, each up to where it settles.   *)
LEMMA SettleThere ==
  ASSUME NEW p, Outlined(p), NEW ms, Usable(ms), ms.bound = p.longs,
         Remaining(ms) = 0 \/ Placed(p, ms.pos), Placed(p, PopEmpty(ms).pos)
  PROVE  Settle(p.words, ms) = PopEmpty(ms)
<1> DEFINE out == PopEmpty(ms)
<1>1. p.longs \in Nat
  BY DEF Outlined, PayloadShape
<1>2. SkipPadding(p.words, ms, ms.bound) = ms
  BY <1>1, NoPadding
<1>3. Usable(out) /\ out.bound = p.longs
  BY PopEmptyUsable
<1> HIDE DEF out
<1>4. SkipPadding(p.words, out, ms.bound - 1) = out
  <2>1. ms.bound - 1 \in Int /\ ms.bound - 1 <= p.longs
    BY <1>1
  <2> QED
    BY <1>3, <2>1, NoPadding DEF out
<1> QED
  BY <1>2, <1>4 DEF Settle, out

LEMMA OnEntry ==
  ASSUME NEW p, Outlined(p), NEW ms, Usable(ms), OnKlv(p, ms), ms.pos \in p.items
  PROVE  /\ ms.bound = p.longs
         /\ IF IsDevice(p, ms.pos) THEN OnDevice(p, ms) ELSE InNest(p, ms)
<1>1. ms.pos # p.longs
  BY ItemFacts
<1> QED
  BY <1>1 DEF OnKlv

LEMMA DeviceEntered ==
  ASSUME NEW p, Outlined(p), NEW ms, Usable(ms), OnKlv(p, ms), ms.pos \in p.items,
         IsDevice(p, ms.pos), NEW flags, RECURSE \in flags
  PROVE  LET s == StartDevice(ms, SizeAt(p.words, ms.pos), flags)
             q == Settle(p.words, s)
         IN OnKlv(p, q) /\ q.pos = ms.pos + 2
<1> DEFINE i     == ms.pos
           size  == SizeAt(p.words, i)
           last  == [ms.last_level_pos EXCEPT ![0] = i]
           sizes == [ms.nest_size EXCEPT ![0] = size]
           s     == StartDevice(ms, size, flags)
<1>1. /\ i \in Nat /\ size \in Nat /\ EndOf(p, i) = i + 2 + size
      /\ ms.bound = p.longs /\ ms.nest_level = 0 /\ ms \in Stream
      /\ ms.last_level_pos \in [Slots -> Nat] /\ ms.nest_size \in [Levels -> Nat]
      /\ 0 \in Levels
  BY ItemFacts, OnEntry, UsableFields DEF OnDevice, Usable
<1>2. Usable(s) /\ s.bound = p.longs
  BY <1>1, StartDeviceUsable
<1>3. s = Booked(ms, i + 2, 0, last, sizes)
  BY <1>1, StartDeviceBooked
<1>4. s.pos = i + 2 /\ s.nest_level = 0 /\ s.nest_size = sizes
  BY <1>1, <1>3, BookedFields
<1>5. Remaining(s) = size /\ s.nest_size[0] = size
  BY <1>1, <1>4 DEF Remaining
<1> HIDE DEF s, sizes, last
<1>6. PopEmpty(s) = s
  BY <1>2, <1>4, PopNothing
<1>7. CASE size # 0
  <2>1. i + 2 \in p.items /\ p.up[i + 2] = i /\ ~IsDevice(p, i + 2) /\ p.lev[i + 2] = 0
    BY <1>7, DeviceFacts, FirstInside DEF IsNest, TypeOf
  <2>2. Settle(p.words, s) = s
    BY <1>2, <1>4, <1>6, <2>1, SettleThere DEF Placed
  <2>3. InNest(p, s)
    <3>1. s.nest_size[0] = EndOf(p, p.up[s.pos]) - s.pos
      BY <1>1, <1>4, <1>5, <2>1
    <3> QED
      BY <1>4, <2>1, <3>1 DEF InNest
  <2> QED
    BY <1>2, <1>4, <2>1, <2>2, <2>3 DEF OnKlv, s
<1>8. CASE size = 0
  <2>1. s.pos = EndOf(p, i)
    BY <1>1, <1>4, <1>8
  <2>2. s.pos = p.longs \/ (s.pos \in p.items /\ IsDevice(p, s.pos))
    BY <2>1, DeviceFacts
  <2>3. Settle(p.words, s) = s
    BY <1>2, <1>6, <2>2, SettleThere DEF Placed
  <2> QED
    BY <1>2, <1>4, <1>5, <1>8, <2>2, <2>3 DEF OnKlv, OnDevice, s
<1> QED
  BY <1>7, <1>8

LEMMA DevicePassed ==
  ASSUME NEW p, Outlined(p), NEW ms, Usable(ms), OnKlv(p, ms), ms.pos \in p.items,
         IsDevice(p, ms.pos), NEW flags, RECURSE \notin flags
  PROVE  LET s == StartDevice(ms, SizeAt(p.words, ms.pos), flags)
             q == Settle(p.words, s)
         IN /\ NearKlv(p, q) /\ q.pos = EndOf(p, ms.pos)
            /\ q.pos = p.longs \/ (q.pos \in p.items /\ IsDevice(p, q.pos))
            /\ q.nest_size[0] = SizeAt(p.words, ms.pos)
<1> DEFINE i     == ms.pos
           size  == SizeAt(p.words, i)
           last  == [ms.last_level_pos EXCEPT ![0] = i]
           sizes == [ms.nest_size EXCEPT ![0] = size]
           s     == StartDevice(ms, size, flags)
<1>1. /\ i \in Nat /\ size \in Nat /\ EndOf(p, i) = i + 2 + size
      /\ ms.bound = p.longs /\ ms.nest_level = 0 /\ ms \in Stream
      /\ ms.last_level_pos \in [Slots -> Nat] /\ ms.nest_size \in [Levels -> Nat]
      /\ 0 \in Levels
  BY ItemFacts, OnEntry, UsableFields DEF OnDevice, Usable
<1>2. Usable(s) /\ s.bound = p.longs
  BY <1>1, StartDeviceUsable
<1>3. s = Booked(ms, i + 2 + size, 0, last, sizes)
  BY <1>1, StartDeviceBooked
<1>4. s.pos = EndOf(p, i) /\ s.nest_level = 0 /\ s.nest_size = sizes
  BY <1>1, <1>3, BookedFields
<1>5. s.nest_size[0] = size
  BY <1>1, <1>4
<1> HIDE DEF s, sizes, last
<1>6. PopEmpty(s) = s
  BY <1>2, <1>4, PopNothing
<1>7. s.pos = p.longs \/ (s.pos \in p.items /\ IsDevice(p, s.pos))
  BY <1>4, DeviceFacts
<1>8. Settle(p.words, s) = s
  BY <1>2, <1>6, <1>7, SettleThere DEF Placed
<1> QED
  BY <1>2, <1>4, <1>5, <1>7, <1>8 DEF NearKlv, s

LEMMA EntryPassed ==
  ASSUME NEW p, Outlined(p), NEW ms, Usable(ms), OnKlv(p, ms), ms.pos \in p.items,
         ~IsDevice(p, ms.pos)
  PROVE  LET s == StepOver(ms, SizeAt(p.words, ms.pos))
             q == Settle(p.words, s)
         IN OnKlv(p, q) /\ q.pos = EndOf(p, ms.pos)
<1> DEFINE i     == ms.pos
           size  == SizeAt(p.words, i)
           level == ms.nest_level
           u     == p.up[i]
           sizes == [ms.nest_size EXCEPT ![level] = @ - (size + 2)]
           s     == StepOver(ms, size)
<1>1. /\ i \in Nat /\ size \in Nat /\ EndOf(p, i) = i + 2 + size
      /\ ms.bound = p.longs /\ InNest(p, ms) /\ ms \in Stream
      /\ level \in Nat /\ level \in Levels /\ ms.nest_size \in [Levels -> Nat]
      /\ u \in p.items /\ EndOf(p, i) <= EndOf(p, u) /\ EndOf(p, u) \in Nat
  BY ItemFacts, OnEntry, UsableFields, InnerFacts DEF Usable
<1>2. /\ p.lev[i] = level /\ ms.nest_size[level] = EndOf(p, u) - i
      /\ level > 0 => u = ms.last_level_pos[level - 1]
      /\ \A l \in 0..(level - 1) : Outer(p, ms, l)
  BY <1>1 DEF InNest
<1>3. Usable(s) /\ s.bound = p.longs
  <2>1. ~(size + 2 > Remaining(ms))
    BY <1>1, <1>2 DEF Remaining
  <2> QED
    BY <1>1, <2>1, StepOverUsable
<1>4. /\ s.pos = EndOf(p, i) /\ s.nest_level = level
      /\ s.nest_size = sizes /\ s.last_level_pos = ms.last_level_pos
  <2>1. s = Booked(ms, i + size + 2, level, ms.last_level_pos, sizes)
    BY StepOverBooked
  <2>2. i + size + 2 = EndOf(p, i)
    BY <1>1
  <2> HIDE DEF s, sizes
  <2> QED
    BY <1>1, <2>1, <2>2, BookedFields
<1>5. /\ sizes[level] = EndOf(p, u) - EndOf(p, i)
      /\ \A l \in 0..(level - 1) : sizes[l] = ms.nest_size[l]
  <2>1. sizes[level] = ms.nest_size[level] - (size + 2)
    BY <1>1
  <2>2. \A l \in 0..(level - 1) : sizes[l] = ms.nest_size[l]
    BY <1>1 DEF Levels, Slots
  <2> HIDE DEF sizes
  <2> QED
    BY <1>1, <1>2, <2>1, <2>2
<1> HIDE DEF s, sizes
<1>6. \A l \in 0..(level - 1) : Outer(p, s, l)
  BY <1>2, <1>4, <1>5 DEF Outer
<1>7. LeftBehind(p, s, i, level)
  BY <1>2, <1>4, <1>5 DEF LeftBehind
<1>8. OnKlv(p, PopEmpty(s)) /\ PopEmpty(s).pos = s.pos
  BY <1>1, <1>3, <1>4, <1>6, <1>7, ClimbOut
<1>9. Remaining(s) = 0 \/ Placed(p, s.pos)
  <2>1. CASE EndOf(p, i) = EndOf(p, u)
    BY <1>1, <1>4, <1>5, <2>1 DEF Remaining
  <2>2. CASE EndOf(p, i) # EndOf(p, u)
    BY <1>4, <2>2, InnerFacts DEF Placed
  <2> QED
    BY <2>1, <2>2
<1>10. Placed(p, PopEmpty(s).pos)
  BY <1>8 DEF OnKlv, Placed
<1>11. Settle(p.words, s) = PopEmpty(s)
  BY <1>3, <1>9, <1>10, SettleThere
<1> QED
  BY <1>4, <1>8, <1>11 DEF s

LEMMA NestEntered ==
  ASSUME NEW p, Outlined(p), NEW ms, Usable(ms), OnKlv(p, ms), ms.pos \in p.items,
         ~IsDevice(p, ms.pos), IsNest(p, ms.pos)
  PROVE  LET r == OpenNest(ms, SizeAt(p.words, ms.pos))
             q == Settle(p.words, r.ms)
         IN r.ret = OK /\ OnKlv(p, q) /\ q.pos = ms.pos + 2
<1> DEFINE i     == ms.pos
           size  == SizeAt(p.words, i)
           level == ms.nest_level
           u     == p.up[i]
           last  == [ms.last_level_pos EXCEPT ![level] = i]
           outer == [ms.nest_size EXCEPT ![level] = @ - (size + 2)]
           inner == [outer EXCEPT ![level + 1] = size]
           over  == [outer EXCEPT ![0] = i]
           r     == OpenNest(ms, size)
           s     == Booked(ms, i + 2, level + 1, last, inner)
<1>1. /\ i \in Nat /\ size \in Nat /\ EndOf(p, i) = i + 2 + size
      /\ ms.bound = p.longs /\ InNest(p, ms) /\ ms \in Stream
      /\ level \in Nat /\ level \in Levels
      /\ ms.nest_size \in [Levels -> Nat] /\ ms.last_level_pos \in [Slots -> Nat]
      /\ u \in p.items /\ EndOf(p, i) <= EndOf(p, u) /\ EndOf(p, u) \in Nat
  BY ItemFacts, OnEntry, UsableFields, InnerFacts DEF Usable
<1>2. /\ p.lev[i] = level /\ ms.nest_size[level] = EndOf(p, u) - i
      /\ level > 0 => u = ms.last_level_pos[level - 1]
      /\ \A l \in 0..(level - 1) : Outer(p, ms, l)
  BY <1>1 DEF InNest
<1>3. level + 1 < NestLimit /\ level + 1 \in Levels /\ level \in Slots
  <2>1. p.lev[i] + 1 < NestLimit
    BY DEF Outlined, Sound, LevelsCount
  <2>2. level \in Nat /\ NestLimit \in Nat /\ level + 1 < NestLimit
    BY <1>1, <1>2, <2>1, LimitAssumption
  <2> HIDE DEF level
  <2> QED
    BY <2>2 DEF Levels, Slots
<1>4. r = Result(OK, s)
  <2>1. r = IF level + 1 > NestLimit
            THEN Result(BAD, Booked(ms, i + 2, level + 1, ms.last_level_pos, over))
            ELSE Result(OK, s)
    BY OpenNestBooked
  <2>2. ~(level + 1 > NestLimit)
    BY <1>1, <1>3, LimitAssumption
  <2> HIDE DEF r, s
  <2> QED
    BY <2>1, <2>2
<1>5. r.ret = OK /\ r.ms = s
  BY <1>4 DEF Result
<1>6. Usable(s) /\ s.bound = p.longs
  <2>1. ~(size + 2 > Remaining(ms))
    BY <1>1, <1>2 DEF Remaining
  <2>2. r.ms.bound = ms.bound /\ Usable(r.ms)
    BY <1>1, <1>5, <2>1, OpenNestUsable
  <2> QED
    BY <1>1, <1>5, <2>2
<1>7. /\ s.pos = i + 2 /\ s.nest_level = level + 1
      /\ s.nest_size = inner /\ s.last_level_pos = last
  <2> HIDE DEF inner, last
  <2> QED
    BY <1>1, BookedFields
<1>8. /\ inner[level + 1] = size /\ inner[level] = EndOf(p, u) - EndOf(p, i)
      /\ \A l \in 0..(level - 1) : inner[l] = ms.nest_size[l]
      /\ last[level] = i
      /\ \A l \in 0..(level - 1) : last[l] = ms.last_level_pos[l]
  <2>1. outer[level] = ms.nest_size[level] - (size + 2) /\ outer \in [Levels -> Int]
    BY <1>1
  <2>2. \A l \in 0..(level - 1) : outer[l] = ms.nest_size[l]
    BY <1>1 DEF Levels, Slots
  <2> HIDE DEF outer
  <2>3. inner[level + 1] = size /\ inner[level] = outer[level]
    BY <1>1, <1>3, <2>1
  <2>4. \A l \in 0..(level - 1) : inner[l] = outer[l]
    BY <1>1, <1>3, <2>1 DEF Levels, Slots
  <2>5. last[level] = i /\ \A l \in 0..(level - 1) : last[l] = ms.last_level_pos[l]
    <3>1. \A l \in 0..(level - 1) : l \in Slots /\ l # level
      <4> HIDE DEF level
      <4> QED
        BY <1>1, <1>3, LimitAssumption DEF Levels, Slots
    <3>2. \A l \in Slots : last[l] = IF l = level THEN i ELSE ms.last_level_pos[l]
      BY <1>1
    <3> HIDE DEF last
    <3> QED
      BY <1>1, <1>3, <3>1, <3>2
  <2> HIDE DEF inner, last
  <2> QED
    BY <1>1, <1>2, <2>1, <2>2, <2>3, <2>4, <2>5
<1> HIDE DEF r, s, inner, last
<1>9. \A l \in 0..level : Outer(p, s, l)
  <2>1. ASSUME NEW l \in 0..(level - 1) PROVE Outer(p, s, l)
    <3>1. l \in Nat /\ l > 0 => l - 1 \in 0..(level - 1)
      BY <1>1
    <3>2. Outer(p, ms, l)
      BY <1>2
    <3>3. /\ s.last_level_pos[l] = ms.last_level_pos[l] /\ s.nest_size[l] = ms.nest_size[l]
          /\ l > 0 => s.last_level_pos[l - 1] = ms.last_level_pos[l - 1]
      BY <1>1, <1>7, <1>8
    <3> QED
      BY <3>2, <3>3 DEF Outer
  <2>2. Outer(p, s, level)
    <3>1. level > 0 => level - 1 \in 0..(level - 1)
      BY <1>1
    <3>2. level > 0 => p.up[i] = s.last_level_pos[level - 1]
      BY <1>2, <1>7, <1>8, <3>1
    <3> QED
      BY <1>2, <1>7, <1>8, <3>2 DEF Outer
  <2>3. \A l \in 0..level : l \in 0..(level - 1) \/ l = level
    BY <1>1
  <2> QED
    BY <2>1, <2>2, <2>3
<1>10. CASE size # 0
  <2>1. i + 2 \in p.items /\ p.up[i + 2] = i /\ ~IsDevice(p, i + 2) /\ p.lev[i + 2] = level + 1
    BY <1>2, <1>10, FirstInside
  <2>2. Remaining(s) = size
    BY <1>7, <1>8 DEF Remaining
  <2>3. PopEmpty(s) = s
    BY <1>6, <1>10, <2>2, PopNothing
  <2>4. Settle(p.words, s) = s
    BY <1>6, <1>7, <2>1, <2>3, SettleThere DEF Placed
  <2>5. InNest(p, s)
    <3>1. s.nest_size[level + 1] = EndOf(p, p.up[s.pos]) - s.pos
      BY <1>1, <1>7, <1>8, <2>1
    <3>2. (level + 1) - 1 = level /\ p.up[s.pos] = s.last_level_pos[level]
      BY <1>1, <1>7, <1>8, <2>1
    <3> QED
      BY <1>7, <1>9, <2>1, <3>1, <3>2 DEF InNest
  <2> QED
    BY <1>5, <1>6, <1>7, <2>1, <2>4, <2>5 DEF OnKlv, r
<1>11. CASE size = 0
  <2>1. s.pos = EndOf(p, i)
    BY <1>1, <1>7, <1>11
  <2>2. LeftBehind(p, s, i, level)
    <3>1. level > 0 => level - 1 \in 0..(level - 1)
      BY <1>1
    <3>2. level > 0 => u = s.last_level_pos[level - 1]
      BY <1>2, <1>7, <1>8, <3>1
    <3> QED
      BY <1>2, <1>7, <1>8, <2>1, <3>2 DEF LeftBehind
  <2>3. \A l \in (level + 1)..s.nest_level : s.nest_size[l] = 0
    BY <1>1, <1>7, <1>8, <1>11
  <2>4. OnKlv(p, PopEmpty(s)) /\ PopEmpty(s).pos = s.pos
    <3>1. level <= s.nest_level /\ \A l \in 0..(level - 1) : Outer(p, s, l)
      BY <1>1, <1>7, <1>9
    <3> QED
      BY <1>1, <1>6, <2>2, <2>3, <3>1, ClimbOut
  <2>5. Remaining(s) = 0
    BY <1>7, <1>8, <1>11 DEF Remaining
  <2>6. Placed(p, PopEmpty(s).pos)
    BY <2>4 DEF OnKlv, Placed
  <2>7. Settle(p.words, s) = PopEmpty(s)
    BY <1>6, <2>5, <2>6, SettleThere
  <2> QED
    BY <1>5, <1>7, <2>4, <2>7 DEF r
<1> QED
  BY <1>10, <1>11

-----------------------------------------------------------------------------
(* The end of a pass: the entry reached is sound, so only a device that is  *)
(* larger than the one stepped over is refused.                             *)
LEMMA NamedOnKlv ==
  ASSUME NEW p, Outlined(p), NEW ms, Usable(ms), NearKlv(p, ms), ms.pos \in p.items
  PROVE  LET noted == NoteDevice(p.words, ms)
         IN /\ p.words[ms.pos].key = DVNM => NameFits(p.words, ms)
            /\ Usable(noted) /\ NearKlv(p, noted) /\ noted.pos = ms.pos
            /\ OnKlv(p, noted) <=> OnKlv(p, ms)
            /\ IsValidSize(noted, SizeAt(p.words, ms.pos)) <=> IsValidSize(ms, SizeAt(p.words, ms.pos))
<1> DEFINE noted == NoteDevice(p.words, ms)
           i     == ms.pos
<1>1. /\ i \in Nat /\ i + 1 < p.longs /\ p.longs \in Nat
      /\ p.words \in [0..(p.longs - 1) -> Word]
      /\ SizeAt(p.words, i) \in Nat /\ i + 2 + SizeAt(p.words, i) <= p.longs
      /\ ms.bound = p.longs
  BY ItemFacts DEF NearKlv
<1>2. NameFits(p.words, ms)
  BY <1>1 DEF NameFits, NameLongs, MaxNameLongs
<1>3. /\ Usable(noted) /\ noted.bound = ms.bound /\ noted.pos = ms.pos
      /\ noted.nest_level = ms.nest_level /\ noted.nest_size = ms.nest_size
      /\ noted.last_level_pos = ms.last_level_pos
  <2>1. ms.bound <= p.longs /\ ms.pos + 1 < ms.bound
    BY <1>1
  <2> HIDE DEF noted
  <2> QED
    BY <1>1, <1>2, <2>1, NoteDeviceUsable, ZenonT(30) DEF noted
<1> HIDE DEF noted
<1>4. /\ InNest(p, noted) <=> InNest(p, ms)
      /\ OnDevice(p, noted) <=> OnDevice(p, ms)
      /\ Remaining(noted) = Remaining(ms)
  BY <1>3 DEF InNest, OnDevice, Outer, Remaining
<1>5. IsValidSize(noted, SizeAt(p.words, i)) <=> IsValidSize(ms, SizeAt(p.words, i))
  BY <1>3, <1>4 DEF IsValidSize
<1> QED
  BY <1>2, <1>3, <1>4, <1>5 DEF NearKlv, OnKlv, noted

(* The size check of a pass says of a device what OnKlv says of it.         *)
LEMMA ValidOnKlv ==
  ASSUME NEW p, Outlined(p), NEW ms, Usable(ms), NearKlv(p, ms), ms.pos \in p.items
  PROVE  IsValidSize(ms, SizeAt(p.words, ms.pos)) <=> OnKlv(p, ms)
<1> DEFINE i    == ms.pos
           size == SizeAt(p.words, i)
<1>1. /\ i \in Nat /\ i < p.longs /\ i + 2 + size <= p.longs /\ size \in Nat /\ p.longs \in Nat
      /\ ms.bound = p.longs /\ Remaining(ms) \in Nat /\ EndOf(p, i) = i + 2 + size
      /\ IF IsDevice(p, i) THEN ms.nest_level = 0 ELSE InNest(p, ms)
  <2>1. /\ i \in Nat /\ i + 1 < p.longs /\ p.longs \in Nat /\ size \in Nat
        /\ EndOf(p, i) = i + 2 + size /\ EndOf(p, i) <= p.longs /\ Remaining(ms) \in Nat
    BY ItemFacts, UsableFields
  <2>2. i # p.longs
    BY <2>1
  <2>3. ms.bound = p.longs /\ IF IsDevice(p, i) THEN ms.nest_level = 0 ELSE InNest(p, ms)
    BY <2>2 DEF NearKlv
  <2> HIDE DEF i, size
  <2> QED
    BY <2>1, <2>3
<1>2. CASE IsDevice(p, i)
  <2>1. ms.nest_level = 0 /\ Remaining(ms) = ms.nest_size[0]
    BY <1>1, <1>2 DEF Remaining
  <2>2. OnKlv(p, ms) <=> ms.nest_size[0] = 0 \/ size + 2 <= ms.nest_size[0]
    BY <1>1, <1>2, <2>1 DEF OnKlv, OnDevice
  <2> QED
    BY <1>1, <2>1, <2>2 DEF IsValidSize
<1>3. CASE ~IsDevice(p, i)
  <2>1. Remaining(ms) = EndOf(p, p.up[i]) - i
    BY <1>1, <1>3 DEF InNest, Remaining
  <2>2. EndOf(p, i) <= EndOf(p, p.up[i]) /\ EndOf(p, p.up[i]) \in Nat
    BY <1>3, InnerFacts, ItemFacts
  <2> QED
    BY <1>1, <1>3, <2>1, <2>2 DEF IsValidSize, OnKlv
<1> QED
  BY <1>2, <1>3

(* What a pass answers where it ends.                                       *)
Verdict(p, pos, flags) ==
  IF pos = p.longs THEN BUFFER_END
  ELSE IF Known(p, pos) THEN OK
  ELSE IF TOLERANT \in flags THEN AGAIN ELSE UNKNOWN_TYPE

WithNames(p, ms) ==
  IF ms.pos \in p.items /\ Known(p, ms.pos) THEN NoteDevice(p.words, ms) ELSE ms

LEMMA WithNamesOnKlv ==
  ASSUME NEW p, Outlined(p), NEW ms, Usable(ms), OnKlv(p, ms)
  PROVE  OnKlv(p, WithNames(p, ms)) /\ WithNames(p, ms).pos = ms.pos /\ Usable(WithNames(p, ms))
<1>1. NearKlv(p, ms)
  BY DEF OnKlv, NearKlv, OnDevice
<1>2. CASE ms.pos \in p.items
  BY <1>1, <1>2, NamedOnKlv DEF WithNames
<1>3. CASE ms.pos \notin p.items
  BY <1>3 DEF WithNames
<1> QED
  BY <1>2, <1>3

LEMMA LandOnKlv ==
  ASSUME NEW p, Outlined(p), NEW ms, Usable(ms), NearKlv(p, ms), NEW flags
  PROVE  /\ OnKlv(p, ms) =>
              Land(p.words, ms, flags) = {Result(Verdict(p, ms.pos, flags), WithNames(p, ms))}
         /\ ~OnKlv(p, ms) /\ RECURSE \notin flags =>
              \A r \in Land(p.words, ms, flags) : r.ret = BAD
<1> DEFINE i == ms.pos
           noted == NoteDevice(p.words, ms)
<1>1. ms.bound = p.longs /\ i \in Nat /\ p.longs \in Nat /\ (i \in p.items \/ i = p.longs)
  BY UsableFields DEF NearKlv, Outlined, PayloadShape
<1>2. CASE i = p.longs
  <2>1. OnKlv(p, ms)
    BY <1>1, <1>2, ItemFacts DEF NearKlv, OnKlv
  <2>2. i + 1 >= ms.bound /\ i \notin p.items
    BY <1>1, <1>2, ItemFacts
  <2> QED
    BY <1>2, <2>1, <2>2 DEF Land, Verdict, WithNames
<1>3. CASE i \in p.items
  <2>1. /\ ~(i + 1 >= ms.bound) /\ i # p.longs
        /\ ~(p.words[i].key \notin FourCC \/ p.words[i + 1].ssize = 0)
    <3>1. /\ i + 1 < p.longs /\ p.words[i].key \in FourCC /\ p.words[i + 1].ssize # 0
      BY <1>3, ItemFacts
    <3> HIDE DEF i
    <3>2. ~(i + 1 >= ms.bound) /\ i # p.longs
      BY <1>1, <3>1
    <3> QED
      BY <3>1, <3>2
  <2>2. /\ p.words[i].key = DVNM => NameFits(p.words, ms)
        /\ IsValidSize(noted, SizeAt(p.words, i)) <=> OnKlv(p, ms)
    BY <1>3, NamedOnKlv, ValidOnKlv
  <2>3. CASE ~Known(p, i)
    <3>1. ~KnownType(p.words[i + 1].type)
      BY <2>3 DEF Known, TypeOf
    <3>2. ~IsDevice(p, i)
      BY <1>3, <3>1, DeviceFacts DEF KnownType
    <3>3. OnKlv(p, ms)
      BY <1>1, <1>3, <2>1, <3>2 DEF NearKlv, OnKlv
    <3>4. Land(p.words, ms, flags) = {Result(IF TOLERANT \in flags THEN AGAIN ELSE UNKNOWN_TYPE, ms)}
      BY <2>1, <3>1 DEF Land
    <3> QED
      BY <2>1, <2>3, <3>3, <3>4 DEF Verdict, WithNames
  <2>4. CASE Known(p, i)
    <3>1. KnownType(p.words[i + 1].type)
      BY <2>4 DEF Known, TypeOf
    <3>2. Land(p.words, ms, flags) = IF IsValidSize(noted, SizeAt(p.words, i))
                                     THEN {Result(OK, noted)} ELSE Corrupt(p.words, noted, flags)
      BY <2>1, <2>2, <3>1 DEF Land
    <3> HIDE DEF noted
    <3>3. RECURSE \notin flags => Corrupt(p.words, noted, flags) = {Result(BAD, noted)}
      BY DEF Corrupt
    <3> QED
      BY <1>3, <2>1, <2>2, <2>4, <3>2, <3>3 DEF Verdict, WithNames, noted, Result
  <2> QED
    BY <2>3, <2>4
<1> QED
  BY <1>1, <1>2, <1>3

-----------------------------------------------------------------------------
(* The walk: where a pass takes the stream, and what it answers there.      *)
Into(p, i, flags) == IF RECURSE \in flags /\ IsNest(p, i) THEN i + 2 ELSE EndOf(p, i)

LastOfNest(p, i, flags) ==
  RECURSE \notin flags /\ ~IsDevice(p, i) /\ EndOf(p, i) = EndOf(p, p.up[i])

(* CURRENT_LEVEL over a DEVC takes the size of that DEVC for what is left   *)
(* to walk, so it refuses a next one that is not smaller by its header.     *)
Refused(p, i, flags) ==
  /\ RECURSE \notin flags /\ IsDevice(p, i)
  /\ LET next == EndOf(p, i)
     IN /\ next \in p.items /\ IsDevice(p, next)
        /\ SizeAt(p.words, i) < SizeAt(p.words, next) + 2

LEMMA AdvancedOnKlv ==
  ASSUME NEW p, Outlined(p), NEW ms, Usable(ms), OnKlv(p, ms), ms.pos \in p.items,
         NEW flags
  PROVE  LET step == Advance(p.words, ms, flags)
             q    == Settle(p.words, step.ms)
         IN IF LastOfNest(p, ms.pos, flags) THEN step = Result(LAST, ms)
            ELSE /\ step.ret = OK /\ Usable(q) /\ NearKlv(p, q)
                 /\ q.pos = Into(p, ms.pos, flags)
                 /\ OnKlv(p, q) \/ Refused(p, ms.pos, flags)
<1> DEFINE i    == ms.pos
           size == SizeAt(p.words, i)
           nest == p.words[i + 1].type = NEST
           step == Advance(p.words, ms, flags)
           q    == Settle(p.words, step.ms)
<1>1. /\ p.longs \in Nat /\ p.words \in [0..(p.longs - 1) -> Word] /\ ms.pos + 1 < p.longs
  BY ItemFacts
<1>2. step.ret = OK => Usable(q)
  <2>1. step.ret # BAD => Usable(step.ms)
    BY <1>1, AdvanceUsable
  <2> HIDE DEF step
  <2> QED
    BY <2>1, SettleUsable DEF OK, BAD
<1>3. nest <=> IsNest(p, i)
  BY DEF IsNest, TypeOf
<1>4. \A s : OnKlv(p, s) => NearKlv(p, s)
  BY DEF OnKlv, NearKlv, OnDevice
<1>5. CASE IsDevice(p, i)
  <2>1. AtDevice(p.words, ms)
    BY <1>5, DeviceFacts, OnEntry DEF AtDevice, OnDevice
  <2>2. step = Result(OK, StartDevice(ms, size, flags))
    BY <2>1 DEF Advance
  <2>3. step.ret = OK /\ q = Settle(p.words, StartDevice(ms, size, flags))
    BY <2>2 DEF Result
  <2>4. IsNest(p, i)
    BY <1>5, DeviceFacts DEF IsNest, TypeOf
  <2> HIDE DEF step, q
  <2>5. CASE RECURSE \in flags
    BY <1>2, <1>4, <1>5, <2>3, <2>4, <2>5, DeviceEntered DEF Into, LastOfNest, step, q
  <2>6. CASE RECURSE \notin flags
    <3>1. /\ NearKlv(p, q) /\ q.pos = EndOf(p, i)
          /\ q.pos = p.longs \/ (q.pos \in p.items /\ IsDevice(p, q.pos))
          /\ q.nest_size[0] = size
      BY <1>5, <2>3, <2>6, DevicePassed
    <3>2. OnKlv(p, q) \/ Refused(p, i, flags)
      <4>1. CASE q.pos = p.longs
        BY <3>1, <4>1, ItemFacts DEF NearKlv, OnKlv
      <4>2. CASE q.pos \in p.items /\ IsDevice(p, q.pos)
        <5>1. SizeAt(p.words, q.pos) \in Nat /\ size \in Nat /\ q.pos # p.longs
          BY <4>2, ItemFacts
        <5>2. q.bound = p.longs /\ q.nest_level = 0
          BY <3>1, <4>2, <5>1 DEF NearKlv
        <5>3. CASE SizeAt(p.words, q.pos) + 2 <= size
          BY <3>1, <4>2, <5>2, <5>3 DEF OnKlv, OnDevice
        <5>4. CASE ~(SizeAt(p.words, q.pos) + 2 <= size)
          BY <1>5, <2>6, <3>1, <4>2, <5>1, <5>4 DEF Refused
        <5> QED
          BY <5>3, <5>4
      <4> QED
        BY <3>1, <4>1, <4>2
    <3> QED
      BY <1>2, <1>5, <2>3, <2>6, <3>1, <3>2 DEF Into, LastOfNest, step, q
  <2> QED
    BY <2>5, <2>6
<1>6. CASE ~IsDevice(p, i)
  <2>1. ~AtDevice(p.words, ms)
    BY <1>6, InnerFacts DEF AtDevice
  <2>2. /\ Remaining(ms) = EndOf(p, p.up[i]) - i /\ EndOf(p, i) = i + 2 + size
        /\ EndOf(p, i) <= EndOf(p, p.up[i]) /\ EndOf(p, p.up[i]) \in Nat
        /\ i \in Nat /\ size \in Nat /\ EndOf(p, i) \in Nat
    <3>1. InNest(p, ms) /\ p.up[i] \in p.items
      BY <1>6, OnEntry, InnerFacts
    <3>2. Remaining(ms) = EndOf(p, p.up[i]) - i
      BY <3>1 DEF InNest, Remaining
    <3>3. EndOf(p, i) <= EndOf(p, p.up[i]) /\ EndOf(p, p.up[i]) \in Nat
      BY <1>6, <3>1, InnerFacts, ItemFacts
    <3>4. i \in Nat /\ size \in Nat /\ EndOf(p, i) \in Nat /\ EndOf(p, i) = i + 2 + size
      BY ItemFacts
    <3> QED
      BY <3>2, <3>3, <3>4
  <2>3. /\ ~(size + 2 > Remaining(ms))
        /\ ~(Remaining(ms) > size + 2) <=> EndOf(p, i) = EndOf(p, p.up[i])
    <3> HIDE DEF i, size
    <3> QED
      BY <2>2
  <2>4. step = IF RECURSE \in flags /\ nest THEN OpenNest(ms, size)
               ELSE IF RECURSE \in flags \/ Remaining(ms) > size + 2
                    THEN Result(OK, StepOver(ms, size)) ELSE Result(LAST, ms)
    BY <2>1, <2>3 DEF Advance
  <2> HIDE DEF step
  <2>5. CASE RECURSE \in flags /\ nest
    <3>1. step = OpenNest(ms, size)
      BY <2>4, <2>5
    <3>2. step.ret = OK /\ OnKlv(p, q) /\ q.pos = i + 2
      BY <1>3, <1>6, <2>5, <3>1, NestEntered
    <3> QED
      BY <1>2, <1>3, <1>4, <2>5, <3>2 DEF Into, LastOfNest, step
  <2>6. CASE ~(RECURSE \in flags /\ nest) /\ ~LastOfNest(p, i, flags)
    <3>1. step = Result(OK, StepOver(ms, size))
      BY <1>6, <2>3, <2>4, <2>6 DEF LastOfNest
    <3>2. step.ret = OK /\ q = Settle(p.words, StepOver(ms, size))
      BY <3>1 DEF Result
    <3> HIDE DEF q
    <3>3. OnKlv(p, q) /\ q.pos = EndOf(p, i)
      BY <1>6, <3>2, EntryPassed
    <3> QED
      BY <1>2, <1>3, <1>4, <2>6, <3>2, <3>3 DEF Into, step, q
  <2>7. CASE LastOfNest(p, i, flags)
    BY <2>3, <2>4, <2>7 DEF LastOfNest, step
  <2> QED
    BY <2>5, <2>6, <2>7
<1> QED
  BY <1>5, <1>6

(* A pass from an entry ends on the next one, inwards or onwards as the     *)
(* flags say, with the books of that one.  Only CURRENT_LEVEL over a DEVC   *)
(* can fail, on a next one it refuses.                                      *)
LEMMA NextOnKlv ==
  ASSUME NEW p, Outlined(p), NEW ms, Usable(ms), OnKlv(p, ms), NEW flags,
         NEW r \in GPMF_Next(p.words, ms, flags)
  PROVE  LET there == Into(p, ms.pos, flags)
         IN \/ ms.pos = p.longs /\ r = Result(BUFFER_END, ms)
            \/ /\ ms.pos \in p.items
               /\ LastOfNest(p, ms.pos, flags) /\ r = Result(LAST, ms)
            \/ /\ ms.pos \in p.items
               /\ ~LastOfNest(p, ms.pos, flags)
               /\ r.ret = Verdict(p, there, flags) /\ r.ms.pos = there
               /\ Usable(r.ms) /\ OnKlv(p, r.ms)
            \/ /\ ms.pos \in p.items
               /\ Refused(p, ms.pos, flags) /\ r.ret = BAD
<1> DEFINE i == ms.pos
           step == Advance(p.words, ms, flags)
           q == Settle(p.words, step.ms)
<1>1. ms.bound = p.longs /\ i \in Nat /\ p.longs \in Nat /\ (i \in p.items \/ i = p.longs)
  BY UsableFields DEF OnKlv, Outlined, PayloadShape
<1>2. CASE i = p.longs
  <2>1. i + 1 >= ms.bound
    BY <1>1, <1>2
  <2> QED
    BY <1>2, <2>1 DEF GPMF_Next
<1>3. CASE i \in p.items
  <2>1. ~(i + 1 >= ms.bound) /\ IsValidSize(ms, SizeAt(p.words, i))
    <3>1. NearKlv(p, ms)
      BY DEF OnKlv, NearKlv, OnDevice
    <3> QED
      <4>1. i + 1 < p.longs /\ IsValidSize(ms, SizeAt(p.words, i))
        BY <1>3, <3>1, ItemFacts, ValidOnKlv
      <4> QED
        BY <1>1, <4>1
  <2>2. r \in IF step.ret # OK THEN {step} ELSE Land(p.words, q, flags)
    BY <2>1 DEF GPMF_Next
  <2>3. IF LastOfNest(p, i, flags) THEN step = Result(LAST, ms)
        ELSE /\ step.ret = OK /\ Usable(q) /\ NearKlv(p, q)
             /\ q.pos = Into(p, i, flags)
             /\ OnKlv(p, q) \/ Refused(p, i, flags)
    BY <1>3, AdvancedOnKlv
  <2> HIDE DEF step, q
  <2>4. CASE LastOfNest(p, i, flags)
    <3>1. step.ret = LAST
      BY <2>3, <2>4 DEF Result
    <3> QED
      BY <1>3, <2>2, <2>3, <2>4, <3>1 DEF OK, LAST
  <2>5. CASE ~LastOfNest(p, i, flags) /\ OnKlv(p, q)
    <3>1. r = Result(Verdict(p, q.pos, flags), WithNames(p, q))
      BY <2>2, <2>3, <2>5, LandOnKlv
    <3>2. r.ret = Verdict(p, q.pos, flags) /\ r.ms = WithNames(p, q)
      BY <3>1 DEF Result
    <3> QED
      BY <1>3, <2>3, <2>5, <3>2, WithNamesOnKlv
  <2>6. CASE ~LastOfNest(p, i, flags) /\ ~OnKlv(p, q)
    <3>1. r.ret = BAD
      BY <2>2, <2>3, <2>6, LandOnKlv DEF Refused
    <3> QED
      BY <1>3, <2>3, <2>6, <3>1
  <2> QED
    BY <2>4, <2>5, <2>6
<1> QED
  BY <1>1, <1>2, <1>3

-----------------------------------------------------------------------------
(* GPMF_FindPrev searches the nests around the entry from their first       *)
(* entries on, and nest_level stays that of the entry it started from.      *)

(* Every entry ends at another one, or at the end of the payload.           *)
LEMMA EndPlaced ==
  ASSUME NEW p, Outlined(p), NEW i \in p.items
  PROVE  Placed(p, EndOf(p, i))
<1> DEFINE astray == {j \in p.items : ~Placed(p, EndOf(p, j))}
           below  == {k \in 0..p.longs : p.longs - k \in astray}
<1>1. SUFFICES ASSUME astray # {} PROVE FALSE
  BY <1>1
<1>2. p.longs \in Nat /\ p.items \subseteq 0..(p.longs - 1)
  BY DEF Outlined, PayloadShape
<1>3. \A j \in astray : j \in Nat /\ j < p.longs /\ p.longs - j \in below
  <2> TAKE j \in astray
  <2>1. j \in 0..(p.longs - 1) /\ p.longs - (p.longs - j) = j /\ p.longs - j \in 0..p.longs
    BY <1>2
  <2> HIDE DEF astray
  <2> QED
    BY <1>2, <2>1
<1> HIDE DEF astray
<1>4. below # {} /\ below \in SUBSET (0..p.longs)
  BY <1>1, <1>3
<1>5. PICK x \in below : \A y \in below : y <= x
  <2> HIDE DEF below
  <2> QED
    BY <1>2, <1>4, BoundedMax
<1> DEFINE j == p.longs - x
           u == p.up[j]
<1>6. j \in astray /\ x \in Nat
  BY <1>2, <1>5
<1>7. j \in p.items /\ ~Placed(p, EndOf(p, j))
  BY <1>6 DEF astray
<1> HIDE DEF j
<1>8. ~IsDevice(p, j)
  BY <1>7, DeviceFacts DEF Placed
<1>9. u \in p.items /\ u + 2 <= j /\ EndOf(p, j) = EndOf(p, u) /\ u \in Nat /\ j \in Nat
  BY <1>7, <1>8, InnerFacts, ItemFacts DEF Placed
<1>10. u \in astray
  BY <1>7, <1>9 DEF astray
<1>11. p.longs - u <= x
  BY <1>3, <1>5, <1>10
<1> QED
  BY <1>2, <1>6, <1>9, <1>11 DEF j

(* The stream of a search that has left the nest it started in: the nest    *)
(* has still words to walk by its books, so no pass leaves its level.       *)
Climbed(p, ms, level) ==
  /\ level < ms.nest_level /\ Remaining(ms) # 0 /\ Placed(p, ms.pos)
  /\ \A l \in 0..(ms.nest_level - 1) : ms.last_level_pos[l] + 2 \in p.items

(* An entry below level 0, and the first one of its nest.                   *)
LEMMA FirstOfNest ==
  ASSUME NEW p, Outlined(p), NEW i \in p.items, ~IsDevice(p, i)
  PROVE  LET first == p.up[i] + 2
         IN /\ first \in p.items /\ p.up[first] = p.up[i] /\ ~IsDevice(p, first)
            /\ p.lev[first] = p.lev[i] /\ first <= i
<1> DEFINE u == p.up[i]
<1>1. /\ u \in p.items /\ IsNest(p, u) /\ u + 2 <= i /\ EndOf(p, i) <= EndOf(p, u)
      /\ p.lev[i] = IF IsDevice(p, u) THEN 0 ELSE p.lev[u] + 1
  BY InnerFacts
<1>2. /\ u \in Nat /\ i \in Nat /\ SizeAt(p.words, u) \in Nat
      /\ EndOf(p, u) = u + 2 + SizeAt(p.words, u) /\ i + 2 <= EndOf(p, i)
      /\ EndOf(p, i) \in Nat
  BY <1>1, ItemFacts
<1> HIDE DEF u
<1>3. SizeAt(p.words, u) # 0
  BY <1>1, <1>2
<1>4. /\ u + 2 \in p.items /\ p.up[u + 2] = u /\ ~IsDevice(p, u + 2)
      /\ p.lev[u + 2] = IF IsDevice(p, u) THEN 0 ELSE p.lev[u] + 1
  BY <1>1, <1>3, FirstInside
<1> QED
  BY <1>1, <1>4 DEF u

LEMMA ClimbStarts ==
  ASSUME NEW p, Outlined(p), NEW ms, Usable(ms), OnKlv(p, ms), ms.nest_level > 0,
         NEW level \in Nat, level < ms.nest_level
  PROVE  Climbed(p, ms, level)
<1> DEFINE i == ms.pos
           n == ms.nest_level
<1>1. i \in p.items /\ ~IsDevice(p, i) /\ InNest(p, ms)
  BY DEF OnKlv, OnDevice
<1>2. n \in Nat
  BY UsableFields
<1>3. Remaining(ms) # 0
  <2>1. Remaining(ms) = EndOf(p, p.up[i]) - i
    BY <1>1 DEF InNest, Remaining
  <2>2. /\ EndOf(p, i) <= EndOf(p, p.up[i]) /\ EndOf(p, p.up[i]) \in Nat
        /\ i \in Nat /\ EndOf(p, i) \in Nat /\ i + 2 <= EndOf(p, i)
    BY <1>1, InnerFacts, ItemFacts
  <2> HIDE DEF i
  <2> QED
    BY <2>1, <2>2
<1>4. ASSUME NEW l \in 0..(n - 1) PROVE ms.last_level_pos[l] + 2 \in p.items
  <2>1. CASE l = n - 1
    BY <1>1, <1>2, <2>1, FirstOfNest DEF InNest
  <2>2. CASE l # n - 1
    <3>1. l + 1 \in 0..(n - 1) /\ l + 1 > 0 /\ (l + 1) - 1 = l
      BY <1>2, <2>2
    <3>2. Outer(p, ms, l + 1)
      BY <1>1, <3>1 DEF InNest
    <3> DEFINE w == ms.last_level_pos[l + 1]
    <3>3. w \in p.items /\ ~IsDevice(p, w) /\ p.up[w] = ms.last_level_pos[l]
      BY <3>1, <3>2 DEF Outer
    <3> HIDE DEF w
    <3> QED
      BY <3>3, FirstOfNest
  <2> QED
    BY <2>1, <2>2
<1> QED
  BY <1>1, <1>3, <1>4 DEF Climbed, Placed

(* What the nest holds from its first entry on, by the books: the sum the   *)
(* code takes in 32 bits does not wrap.                                     *)
LEMMA SizeFromFirst ==
  ASSUME NEW p, Outlined(p), NEW ms, Usable(ms), OnKlv(p, ms), ms.nest_level > 0
  PROVE  LET level == ms.nest_level
             first == ms.last_level_pos[level - 1] + 2
             size  == ms.nest_size[level] + ms.pos - first
         IN size = EndOf(p, p.up[ms.pos]) - first /\ size \in 0..(Modulus - 1)
<1> DEFINE i     == ms.pos
           level == ms.nest_level
           first == ms.last_level_pos[level - 1] + 2
           e     == EndOf(p, p.up[i])
<1>1. i \in p.items /\ ~IsDevice(p, i) /\ InNest(p, ms)
  BY DEF OnKlv, OnDevice
<1>2. ms.nest_size[level] = e - i /\ p.up[i] + 2 = first
  BY <1>1 DEF InNest
<1>3. first \in p.items /\ p.up[first] = p.up[i] /\ ~IsDevice(p, first)
  BY <1>1, <1>2, FirstOfNest
<1>4. e \in Nat /\ e <= p.longs /\ first \in Nat /\ i \in Nat /\ EndOf(p, first) <= e
      /\ first + 2 <= EndOf(p, first) /\ EndOf(p, first) \in Nat /\ p.longs \in Nat
  BY <1>1, <1>3, ItemFacts, InnerFacts
<1>5. p.longs < Modulus
  BY DEF Outlined, Sound
<1>6. e - i + i - first = e - first /\ e - first \in 0..(Modulus - 1)
  <2> HIDE DEF e, first, i
  <2> QED
    BY <1>4, <1>5, LimitAssumption
<1> HIDE DEF e, first, level
<1>7. ms.nest_size[level] + ms.pos - first = e - first
  BY <1>2, <1>6 DEF i
<1> QED
  BY <1>6, <1>7 DEF e, first, level, i

(* Back to the first entry of the nest, with the size of the nest from      *)
(* there.                                                                   *)
LEMMA RewindOnKlv ==
  ASSUME NEW p, Outlined(p), NEW ms, Usable(ms), OnKlv(p, ms), ms.nest_level > 0
  PROVE  LET level == ms.nest_level
             first == ms.last_level_pos[level - 1] + 2
             back  == [ms EXCEPT !.pos = first,
                                 !.nest_size[level] = (@ + ms.pos - first) % Modulus]
         IN OnKlv(p, back) /\ back.nest_level = level
<1> DEFINE i     == ms.pos
           level == ms.nest_level
           first == ms.last_level_pos[level - 1] + 2
           size  == (ms.nest_size[level] + ms.pos - first) % Modulus
           sizes == [ms.nest_size EXCEPT ![level] = size]
           back  == [ms EXCEPT !.pos = first, !.nest_size[level] = size]
           e     == EndOf(p, p.up[i])
<1>1. /\ i \in p.items /\ ~IsDevice(p, i) /\ InNest(p, ms) /\ ms.bound = p.longs
      /\ ms \in Stream /\ level \in Nat /\ level \in Levels /\ ms.nest_size \in [Levels -> Nat]
  BY UsableFields DEF OnKlv, OnDevice, Usable
<1>2. /\ p.lev[i] = level /\ ms.nest_size[level] = e - i /\ p.up[i] + 2 = first
      /\ \A l \in 0..(level - 1) : Outer(p, ms, l)
  BY <1>1 DEF InNest
<1>3. /\ first \in p.items /\ p.up[first] = p.up[i] /\ ~IsDevice(p, first)
      /\ p.lev[first] = level
  BY <1>1, <1>2, FirstOfNest
<1>4. size = e - first
  <2>1. /\ ms.nest_size[level] + ms.pos - first = e - first
        /\ ms.nest_size[level] + ms.pos - first \in 0..(Modulus - 1)
    BY SizeFromFirst
  <2>2. \A k \in 0..(Modulus - 1) : k % Modulus = k
    BY LimitAssumption
  <2> HIDE DEF e, first, i, level
  <2> QED
    BY <2>1, <2>2
<1>5. /\ back.pos = first /\ back.nest_level = level /\ back.nest_size = sizes
      /\ back.last_level_pos = ms.last_level_pos /\ back.bound = p.longs
  BY <1>1 DEF Stream
<1>6. sizes[level] = e - first /\ \A l \in 0..(level - 1) : sizes[l] = ms.nest_size[l]
  <2>1. \A l \in 0..(level - 1) : l \in Levels /\ l # level
    <3> HIDE DEF level
    <3> QED
      BY <1>1, LimitAssumption DEF Levels, Slots
  <2>2. \A l \in Levels : sizes[l] = IF l = level THEN size ELSE ms.nest_size[l]
    BY <1>1
  <2> HIDE DEF sizes, size
  <2> QED
    BY <1>1, <1>4, <2>1, <2>2
<1> HIDE DEF sizes, size, back
<1>7. \A l \in 0..(level - 1) : Outer(p, back, l)
  BY <1>2, <1>5, <1>6 DEF Outer
<1>8. InNest(p, back)
  <2>1. level > 0 => p.up[first] = back.last_level_pos[level - 1]
    BY <1>1, <1>3, <1>5 DEF InNest
  <2> QED
    BY <1>3, <1>5, <1>6, <1>7, <2>1 DEF InNest
<1> QED
  BY <1>3, <1>5, <1>8 DEF OnKlv, back, size

(* A pass at the level of the stream, on a search that has climbed out.     *)
LEMMA LandKeeps ==
  ASSUME NEW p, Outlined(p), NEW ms, Usable(ms), ms.bound = p.longs,
         NEW flags, RECURSE \notin flags, NEW r \in Land(p.words, ms, flags)
  PROVE  /\ r.ms.pos = ms.pos /\ r.ms.nest_level = ms.nest_level
         /\ r.ms.nest_size = ms.nest_size /\ r.ms.last_level_pos = ms.last_level_pos
<1> DEFINE noted == NoteDevice(p.words, ms)
<1>1. \/ r.ms = ms
      \/ /\ r.ms = noted /\ ~(ms.pos + 1 >= ms.bound)
         /\ p.words[ms.pos].key = DVNM => NameFits(p.words, ms)
  <2>1. \A s : Corrupt(p.words, s, flags) = {Result(BAD, s)}
    BY DEF Corrupt
  <2> HIDE DEF noted
  <2> QED
    BY <2>1 DEF Land, Result, noted
<1>2. p.longs \in Nat /\ p.words \in [0..(p.longs - 1) -> Word] /\ ms.pos \in Nat
  BY UsableFields DEF Outlined, PayloadShape
<1>3. CASE r.ms = noted /\ ~(ms.pos + 1 >= ms.bound)
           /\ (p.words[ms.pos].key = DVNM => NameFits(p.words, ms))
  <2>1. ms.pos + 1 < ms.bound /\ ms.bound <= p.longs
    BY <1>2, <1>3
  <2>2. /\ noted.pos = ms.pos /\ noted.nest_level = ms.nest_level
        /\ noted.nest_size = ms.nest_size /\ noted.last_level_pos = ms.last_level_pos
    BY <1>2, <1>3, <2>1, NoteDeviceUsable, ZenonT(30)
  <2> HIDE DEF noted
  <2> QED
    BY <1>3, <2>2
<1> QED
  BY <1>1, <1>3

LEMMA ClimbedPass ==
  ASSUME NEW p, Outlined(p), NEW ms, Usable(ms), ms.bound = p.longs,
         NEW level \in Nat, Climbed(p, ms, level),
         NEW flags, RECURSE \notin flags, NEW r \in GPMF_Next(p.words, ms, flags)
  PROVE  Climbed(p, r.ms, level)
<1> DEFINE i     == ms.pos
           size  == SizeAt(p.words, i)
           n     == ms.nest_level
           sizes == [ms.nest_size EXCEPT ![n] = @ - (size + 2)]
           s     == StepOver(ms, size)
           step  == Advance(p.words, ms, flags)
<1>1. /\ n \in Nat /\ n \in Levels /\ n # 0 /\ Remaining(ms) \in Nat
      /\ ms.nest_size \in [Levels -> Nat] /\ ms \in Stream /\ p.longs \in Nat /\ i \in Nat
      /\ Remaining(ms) = ms.nest_size[n]
  BY UsableFields DEF Climbed, Usable, Outlined, PayloadShape, Remaining
<1>2. \/ r.ms = ms
      \/ /\ ~(i + 1 >= ms.bound) /\ step.ret = OK
         /\ r \in Land(p.words, Settle(p.words, step.ms), flags)
  <2>1. Corrupt(p.words, ms, flags) = {Result(BAD, ms)}
    BY DEF Corrupt
  <2>2. ~AtDevice(p.words, ms)
    BY <1>1 DEF AtDevice
  <2>3. step.ret = OK \/ step.ms = ms
    BY <2>2 DEF Advance, Result
  <2> HIDE DEF step
  <2> QED
    BY <2>1, <2>3 DEF GPMF_Next, Result, step
<1>3. CASE ~(i + 1 >= ms.bound) /\ step.ret = OK
           /\ r \in Land(p.words, Settle(p.words, step.ms), flags)
  <2>1. i \in p.items
    BY <1>1, <1>3 DEF Climbed, Placed
  <2>2. size \in Nat /\ EndOf(p, i) = i + 2 + size
    BY <2>1, ItemFacts
  <2>3. step = Result(OK, s) /\ Remaining(ms) > size + 2
    <3>1. ~AtDevice(p.words, ms)
      BY <1>1 DEF AtDevice
    <3> QED
      BY <1>3, <3>1 DEF Advance, Result, OK, BAD, LAST
  <2>4. Usable(s) /\ s.bound = p.longs
    <3>1. ~(size + 2 > Remaining(ms))
      BY <1>1, <2>2, <2>3
    <3> QED
      BY <2>2, <3>1, StepOverUsable
  <2>5. /\ s.pos = EndOf(p, i) /\ s.nest_level = n /\ s.nest_size = sizes
        /\ s.last_level_pos = ms.last_level_pos
    <3>1. s = Booked(ms, i + size + 2, n, ms.last_level_pos, sizes)
      BY StepOverBooked
    <3>2. i + size + 2 = EndOf(p, i)
      BY <1>1, <2>2
    <3> HIDE DEF s, sizes
    <3> QED
      BY <1>1, <3>1, <3>2, BookedFields
  <2>6. Remaining(s) # 0
    <3>1. sizes[n] = Remaining(ms) - (size + 2)
      BY <1>1
    <3> HIDE DEF s, sizes, size
    <3> QED
      BY <1>1, <2>2, <2>3, <2>5, <3>1 DEF Remaining
  <2> HIDE DEF s, sizes
  <2>7. Placed(p, s.pos)
    BY <2>1, <2>5, EndPlaced
  <2>8. Settle(p.words, s) = s
    <3>1. PopEmpty(s) = s
      BY <2>4, <2>6, PopNothing
    <3> QED
      BY <2>4, <2>7, <3>1, SettleThere
  <2>9. r \in Land(p.words, s, flags)
    BY <1>3, <2>3, <2>8 DEF Result
  <2>10. /\ r.ms.pos = s.pos /\ r.ms.nest_level = s.nest_level
         /\ r.ms.nest_size = s.nest_size /\ r.ms.last_level_pos = s.last_level_pos
    BY <2>4, <2>9, LandKeeps
  <2> QED
    BY <2>5, <2>6, <2>7, <2>10 DEF Climbed, Remaining
<1> QED
  BY <1>2, <1>3
=============================================================================
