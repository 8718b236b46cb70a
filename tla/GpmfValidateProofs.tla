------------------------- MODULE GpmfValidateProofs -------------------------
(***************************************************************************)
(* GPMF_Validate on every payload, every nest limit and at every place of  *)
(* a walk: what is left of a nest is never taken below zero (TypeOK), a    *)
(* stream that passes is the stream that was handed over (StreamKept),     *)
(* what passes from the start can be walked (VettedWalks), and what a      *)
(* writer produces passes with the right verdict (VerdictOnSound).         *)
(*                                                                         *)
(* None is inductive.  An activation gives back the level it took only if  *)
(* the levels and the stack go together, and it subtracts the nest it has  *)
(* left from what it remembers of its own: so every activation that waits  *)
(* has room for the nest it waits for (RoomToReturn), the level is that of *)
(* the call plus one for each activation, and below that level the books   *)
(* are those of the call (SameBooks).  For VettedWalks the validation      *)
(* draws a chart of the segments it met (Tracked), which is whole when it  *)
(* accepts, and the walk has on each open level a segment of every such    *)
(* chart before it (WalkedOnPath).  For VerdictOnSound each activation but *)
(* the first is in a nest of the outline, the place is between entries of  *)
(* the innermost one, and the unknown types noted and the devices counted  *)
(* are those before it (OnOutline).                                        *)
(***************************************************************************)
EXTENDS GpmfValidate, GpmfKlvProofs, FiniteSetTheorems

(* A stream that may be walked or validated has a slot for its level.       *)
StreamFits ==
  /\ ms \in Stream /\ ms.bound <= payload.longs
  /\ ~lost => Usable(ms)

Running == frames # << >>

SameBooks ==
  LET was == before.ms
  IN /\ ms.bound = was.bound /\ ms.last_level_pos = was.last_level_pos
     /\ ms.device_id = was.device_id /\ ms.device_name = was.device_name
     /\ \A l \in 0..was.nest_level : ms.nest_size[l] = was.nest_size[l]

RoomToReturn ==
  \A i \in 1..(Len(frames) - 1) : 2 + frames[i].inner <= frames[i].left

CallKept ==
  Running =>
    /\ ~lost /\ Usable(before.ms)
    /\ ms.nest_level = before.ms.nest_level + Len(frames) - 1
    /\ frames[1].from = before.ms.pos
    /\ SameBooks
    /\ RoomToReturn

IInv == TypeOK /\ StreamFits /\ CallKept

-----------------------------------------------------------------------------
LEMMA PayloadReads ==
  ASSUME TypeOK
  PROVE  payload.longs \in Nat /\ words \in [0..(payload.longs - 1) -> Word]
BY PayloadAssumption DEF TypeOK, payload, words, PayloadShape

LEMMA NowhereTyped == Nowhere \in [ms: Stream, devices: Nat]
BY BlankUsable DEF Nowhere, Usable

(* The stack: its innermost activation, and the rest.                       *)
LEMMA TopFrame ==
  ASSUME TypeOK, Running
  PROVE  /\ Len(frames) \in Nat /\ Len(frames) >= 1
         /\ Top \in Frame
         /\ Top.from \in Nat /\ Top.left \in Nat /\ Top.inner \in Nat
         /\ Top.ret \in {OK, UNKNOWN_TYPE}
         /\ \A i \in 1..Len(frames) : frames[i] \in Frame
<1>1. frames \in Seq(Frame) /\ frames # << >>
  BY DEF TypeOK, Running
<1>2. Len(frames) \in Nat /\ Len(frames) >= 1
  BY <1>1, EmptySeq
<1>3. \A i \in 1..Len(frames) : frames[i] \in Frame
  BY <1>1
<1>4. Top \in Frame
  BY <1>2, <1>3 DEF Top
<1> QED
  BY <1>2, <1>3, <1>4 DEF Frame

LEMMA FrontFrames ==
  ASSUME NEW S, NEW s \in Seq(S), Len(s) > 1
  PROVE  /\ Front(s) \in Seq(S)
         /\ Len(Front(s)) = Len(s) - 1
         /\ \A i \in 1..(Len(s) - 1) : Front(s)[i] = s[i]
<1>1. Len(s) \in Nat /\ \A i \in 1..(Len(s) - 1) : s[i] \in S
  OBVIOUS
<1>2. Front(s) = SubSeq(s, 1, Len(s) - 1)
  BY DEF Front
<1>3. Len(s) - 1 \in Int /\ 1 \in Int /\ 1 <= Len(s) - 1
  BY <1>1
<1> QED
  BY <1>1, <1>2, <1>3, SubSeqProperties

LEMMA NewFrameTyped ==
  ASSUME NEW s, Usable(s)
  PROVE  /\ NewFrame(s) \in Frame
         /\ NewFrame(s).from = s.pos /\ NewFrame(s).inner = 0
BY UsableFields DEF NewFrame, Frame

-----------------------------------------------------------------------------
LEMMA InitKept == Init => IInv
<1> SUFFICES ASSUME Init PROVE IInv
  OBVIOUS
<1>1. payload.longs \in Nat /\ buffer \in DOMAIN Payloads
  BY PayloadAssumption DEF Init, payload, PayloadShape
<1>2. ChainEnd \in Nat /\ ChainEnd <= payload.longs
  BY <1>1 DEF Init
<1>3. Usable(ms) /\ ms.bound = ChainEnd
  BY <1>2, OpenedUsable DEF Init
<1>4. StreamFits
  BY <1>2, <1>3 DEF StreamFits, Usable
<1>5. TypeOK
  <2>1. frames \in Seq(Frame)
    BY EmptySeq DEF Init
  <2>2. answer \in Answer
    BY DEF Init, Answer, Codes
  <2>3. ms \in Stream /\ before \in [ms: Stream, devices: Nat]
    BY <1>4, NowhereTyped DEF StreamFits, Init
  <2> QED
    BY <1>1, <2>1, <2>2, <2>3 DEF Init, TypeOK, Flags
<1>6. CallKept
  BY DEF Init, CallKept, Running
<1> QED
  BY <1>4, <1>5, <1>6 DEF IInv

-----------------------------------------------------------------------------
(* The stream of a step: another place, level and sizes.                    *)
LEMMA MovedStream ==
  ASSUME NEW s, Usable(s), NEW pos \in Nat
  PROVE  LET t == [s EXCEPT !.pos = pos]
         IN /\ Usable(t) /\ t.pos = pos /\ t.bound = s.bound
            /\ t.nest_level = s.nest_level /\ t.nest_size = s.nest_size
            /\ t.last_level_pos = s.last_level_pos
            /\ t.device_id = s.device_id /\ t.device_name = s.device_name
BY Zenon DEF Usable, Stream

(* One turn of the innermost loop: the place, and what is left of the nest. *)
LEMMA TurnKept ==
  ASSUME IInv, Running, NEW pos \in Nat, NEW f \in Frame, f.from = Top.from,
         ms' = [ms EXCEPT !.pos = pos],
         frames' = [frames EXCEPT ![Len(frames)] = f],
         UNCHANGED <<buffer, device_count, lost, flags, before, answer, vetted, deep>>
  PROVE  IInv'
<1>1. /\ frames \in Seq(Frame) /\ Len(frames) \in Nat /\ Len(frames) >= 1
      /\ Usable(ms)
  BY TopFrame DEF IInv, TypeOK, StreamFits, CallKept
<1>2. /\ frames' \in Seq(Frame) /\ Len(frames') = Len(frames)
      /\ frames'[Len(frames)] = f
      /\ \A i \in 1..(Len(frames) - 1) : frames'[i] = frames[i]
  BY <1>1, ExceptSeq
<1>3. /\ Usable(ms') /\ ms'.bound = ms.bound
      /\ ms'.nest_level = ms.nest_level /\ ms'.nest_size = ms.nest_size
      /\ ms'.last_level_pos = ms.last_level_pos
      /\ ms'.device_id = ms.device_id /\ ms'.device_name = ms.device_name
  BY <1>1, MovedStream
<1>4. TypeOK'
  BY <1>2, <1>3 DEF IInv, TypeOK, Usable
<1>5. StreamFits'
  BY <1>3 DEF IInv, StreamFits, Usable, payload
<1>6. CallKept'
  <2>1. frames'[1].from = frames[1].from
    BY <1>1, <1>2 DEF Top
  <2>2. RoomToReturn'
    BY <1>1, <1>2 DEF IInv, CallKept, RoomToReturn
  <2>3. SameBooks'
    BY <1>3 DEF IInv, CallKept, SameBooks
  <2> QED
    BY <1>2, <1>3, <2>1, <2>2, <2>3 DEF IInv, CallKept
<1> QED
  BY <1>4, <1>5, <1>6 DEF IInv

LEMMA StartKept ==
  ASSUME IInv, NEW how \in Flags, StartValidate(how)
  PROVE  IInv'
<1>1. /\ Usable(ms) /\ ms \in Stream /\ device_count \in Nat
      /\ ms.nest_level \in Nat
  BY UsableFields DEF IInv, TypeOK, StreamFits, StartValidate, Usable
<1>2. NewFrame(ms) \in Frame /\ NewFrame(ms).from = ms.pos
  BY <1>1, NewFrameTyped
<1>3. frames' = <<NewFrame(ms)>> /\ frames' \in Seq(Frame) /\ Len(frames') = 1
  BY <1>2 DEF StartValidate
<1>4. before'.ms = ms /\ before' \in [ms: Stream, devices: Nat]
  BY <1>1 DEF StartValidate
<1>5. UNCHANGED <<buffer, ms, device_count, lost, answer, vetted, deep>> /\ ~lost
  BY DEF StartValidate
<1>6. TypeOK'
  BY <1>3, <1>4, <1>5 DEF IInv, TypeOK, StartValidate
<1>7. StreamFits'
  BY <1>5 DEF IInv, StreamFits, payload
<1>8. CallKept'
  <2>1. SameBooks' /\ RoomToReturn'
    BY <1>3, <1>4, <1>5 DEF SameBooks, RoomToReturn
  <2>2. frames'[1].from = before'.ms.pos
    BY <1>2, <1>3, <1>4
  <2>3. ms'.nest_level = before'.ms.nest_level + Len(frames') - 1
    BY <1>1, <1>3, <1>4, <1>5
  <2>4. ~lost' /\ Usable(before'.ms)
    BY <1>1, <1>4, <1>5
  <2> QED
    BY <2>1, <2>2, <2>3, <2>4 DEF CallKept
<1> QED
  BY <1>6, <1>7, <1>8 DEF IInv

(* What the loop stands on is in the payload.                               *)
LEMMA EntryRead ==
  ASSUME IInv, InLoop
  PROVE  /\ Usable(ms) /\ Running /\ ms.pos \in Nat
         /\ key \in FourCC \union {END, JUNK}
         /\ size \in Nat
<1>1. Running
  BY DEF InLoop, Running
<1>2. Usable(ms)
  BY <1>1 DEF IInv, StreamFits, CallKept
<1>3. ms.pos \in Nat /\ ms.bound \in Nat
  BY <1>2, UsableFields
<1>4. payload.longs \in Nat /\ words \in [0..(payload.longs - 1) -> Word]
  BY PayloadReads DEF IInv
<1>5. ms.pos + 1 < payload.longs
  BY <1>3, <1>4 DEF IInv, StreamFits, InLoop
<1>6. words[ms.pos] \in Word
  BY <1>3, <1>4, <1>5
<1>7. SizeAt(words, ms.pos) \in Nat
  BY <1>3, <1>4, <1>5, SizeNat
<1> QED
  BY <1>1, <1>2, <1>3, <1>6, <1>7 DEF key, size, desc, SizeAt, Word

LEMMA StepOverKept == ASSUME IInv, StepOverEntry PROVE IInv'
<1>1. InLoop
  BY DEF StepOverEntry, AtEntry
<1>2. Usable(ms) /\ Running /\ ms.pos \in Nat /\ size \in Nat
  BY <1>1, EntryRead
<1>3. Top \in Frame /\ Top.left \in Nat /\ Top.inner \in Nat /\ Top.ret \in {OK, UNKNOWN_TYPE}
  BY <1>2, TopFrame DEF IInv
<1>4. ~(size + 2 > Top.left)
  BY DEF StepOverEntry, Faulty
<1> DEFINE left == Top.left - (2 + size)
           f == [Top EXCEPT !.left = left, !.ret = Noted]
<1>5. left \in Nat /\ ms.pos + 2 + size \in Nat /\ Noted \in {OK, UNKNOWN_TYPE}
  BY <1>2, <1>3, <1>4 DEF Noted
<1>6. f \in Frame /\ f.from = Top.from
  <2> HIDE DEF left
  <2>1. f \in Frame
    BY <1>3, <1>5, Zenon DEF Frame
  <2>2. f.from = Top.from
    BY <1>3 DEF Frame
  <2> QED
    BY <2>1, <2>2
<1>7. frames' = [frames EXCEPT ![Len(frames)] = f]
  BY DEF StepOverEntry
<1>8. /\ ms' = [ms EXCEPT !.pos = ms.pos + 2 + size]
      /\ UNCHANGED <<buffer, device_count, lost, flags, before, answer, vetted, deep>>
  BY DEF StepOverEntry
<1> HIDE DEF f
<1> QED
  BY <1>2, <1>5, <1>6, <1>7, <1>8, TurnKept

LEMMA SkipEndsKept == ASSUME IInv, SkipEnds PROVE IInv'
<1>1. InLoop
  BY DEF SkipEnds
<1>2. Usable(ms) /\ Running /\ ms.pos \in Nat
  BY <1>1, EntryRead
<1>3. Top \in Frame /\ Top.left \in Nat /\ Top.inner \in Nat /\ Top.ret \in {OK, UNKNOWN_TYPE}
  BY <1>2, TopFrame DEF IInv
<1> DEFINE k == PaddingAt(words, ms.pos, Top.left, ms.bound)
           left == Top.left - k
           f == [Top EXCEPT !.left = left]
<1>4. k \in 0..Top.left
  BY <1>3, PaddingRun
<1>5. frames' = [frames EXCEPT ![Len(frames)].left = @ - k]
  BY DEF SkipEnds
<1>6. /\ ms' = [ms EXCEPT !.pos = ms.pos + k]
      /\ UNCHANGED <<buffer, device_count, lost, flags, before, answer, vetted, deep>>
  BY DEF SkipEnds
<1> HIDE DEF k
<1>7. left \in Nat /\ ms.pos + k \in Nat
  BY <1>2, <1>3, <1>4
<1>8. f \in Frame /\ f.from = Top.from
  <2> HIDE DEF left
  <2> QED
    BY <1>3, <1>7 DEF Frame
<1>9. frames' = [frames EXCEPT ![Len(frames)] = f]
  BY <1>5 DEF Top
<1> HIDE DEF f
<1> QED
  BY <1>2, <1>6, <1>7, <1>8, <1>9, TurnKept

(* Every refusal leaves a stream whose level at most misses its slot.       *)
LEMMA RefuseKept ==
  ASSUME IInv, Running, NEW inner \in Stream, inner.bound = ms.bound,
         inner.nest_level \in ms.nest_level..(ms.nest_level + 1), Refuse(inner)
  PROVE  IInv'
<1>1. /\ Len(frames) \in Nat /\ Len(frames) >= 1
      /\ before.ms.nest_level \in Nat /\ before.ms.nest_level <= NestLimit
      /\ ms.nest_level \in Nat
      /\ ms.nest_level = before.ms.nest_level + Len(frames) - 1
  BY TopFrame, UsableFields DEF IInv, CallKept, StreamFits
<1> DEFINE level == inner.nest_level - (Len(frames) - 1)
<1>2. level \in 0..(NestLimit + 1)
  BY <1>1, LimitAssumption
<1>3. ms' = [inner EXCEPT !.nest_level = level]
  BY DEF Refuse
<1> HIDE DEF level
<1>4. ms' \in Stream /\ ms'.bound = ms.bound
  BY <1>2, <1>3, Zenon DEF Stream
<1>5. /\ frames' = << >> /\ lost' = TRUE
      /\ answer' = [by |-> "validate", code |-> BAD]
      /\ flags' = {} /\ before' = Nowhere
      /\ UNCHANGED <<buffer, device_count, vetted, deep>>
  BY DEF Refuse
<1>6. frames' \in Seq(Frame) /\ answer' \in Answer /\ flags' \in Flags
  BY <1>5, EmptySeq DEF Answer, Codes, Flags
<1>7. TypeOK'
  BY <1>4, <1>5, <1>6, NowhereTyped DEF IInv, TypeOK
<1>8. StreamFits'
  BY <1>4, <1>5 DEF IInv, StreamFits, payload
<1>9. CallKept'
  BY <1>5 DEF CallKept, Running
<1> QED
  BY <1>7, <1>8, <1>9 DEF IInv

LEMMA RefuseEntryKept == ASSUME IInv, RefuseEntry PROVE IInv'
<1>1. InLoop /\ Refuse(ms)
  BY DEF RefuseEntry
<1>2. Usable(ms) /\ Running
  BY <1>1, EntryRead
<1>3. ms \in Stream /\ ms.nest_level \in ms.nest_level..(ms.nest_level + 1)
  BY <1>2, UsableFields DEF Usable
<1> QED
  BY <1>1, <1>2, <1>3, RefuseKept

LEMMA RefuseDepthKept == ASSUME IInv, RefuseDepth PROVE IInv'
<1> DEFINE inner == [ms EXCEPT !.pos = ms.pos + 2, !.nest_level = ms.nest_level + 1]
<1>1. InLoop /\ Refuse(inner)
  BY DEF RefuseDepth, AtEntry
<1>2. Usable(ms) /\ Running
  BY <1>1, EntryRead
<1>3. ms \in Stream /\ ms.pos + 2 \in Nat /\ ms.nest_level + 1 \in 0..(NestLimit + 1)
  BY <1>2, UsableFields, LimitAssumption DEF Usable
<1>4. inner \in Stream /\ inner.bound = ms.bound /\ inner.nest_level = ms.nest_level + 1
  BY <1>3, Zenon DEF Stream
<1> HIDE DEF inner
<1>5. inner.nest_level \in ms.nest_level..(ms.nest_level + 1)
  BY <1>2, <1>4, UsableFields
<1> QED
  BY <1>1, <1>2, <1>4, <1>5, RefuseKept

LEMMA EnterNestKept == ASSUME IInv, EnterNest PROVE IInv'
<1> DEFINE sizes  == [ms.nest_size EXCEPT ![ms.nest_level + 1] = size]
           inside == Booked(ms, ms.pos + 2, ms.nest_level + 1, ms.last_level_pos, sizes)
           f      == [Top EXCEPT !.inner = size]
           waits  == [frames EXCEPT ![Len(frames)] = f]
           n      == Len(frames)
<1>1. InLoop
  BY DEF EnterNest, AtEntry
<1>2. /\ Usable(ms) /\ ms \in Stream /\ Running /\ ms.pos \in Nat /\ size \in Nat
      /\ frames \in Seq(Frame) /\ n \in Nat /\ n >= 1
  BY <1>1, EntryRead, TopFrame DEF Usable, IInv, TypeOK
<1>3. /\ Top \in Frame /\ Top.left \in Nat /\ ~(size + 2 > Top.left)
  BY <1>2, TopFrame DEF IInv, EnterNest, Faulty
<1>4. /\ ms.nest_level \in Nat /\ ms.nest_level + 1 \in Levels
      /\ ms.last_level_pos \in [Slots -> Nat] /\ ms.nest_size \in [Levels -> Nat]
  BY <1>2, UsableFields, LimitAssumption, SMTT(30) DEF EnterNest, Levels
<1>5. /\ ms' = inside
      /\ frames' = Append(waits, NewFrame(inside))
      /\ UNCHANGED <<buffer, device_count, lost, flags, before, answer, vetted, deep>>
  <2>1. [ms EXCEPT !.pos = @ + 2, !.nest_level = @ + 1, !.nest_size[ms.nest_level + 1] = size]
          = inside
    BY <1>2 DEF Booked, Stream
  <2>2. waits = [frames EXCEPT ![Len(frames)].inner = size]
    BY DEF Top
  <2> QED
    BY <2>1, <2>2 DEF EnterNest
<1>6. /\ Usable(inside) /\ inside.bound = ms.bound /\ inside.nest_level = ms.nest_level + 1
      /\ inside.last_level_pos = ms.last_level_pos
      /\ inside.device_id = ms.device_id /\ inside.device_name = ms.device_name
      /\ \A l \in 0..ms.nest_level : inside.nest_size[l] = ms.nest_size[l]
  <2>1. sizes \in [Levels -> Nat] /\ ms.pos + 2 \in Nat
    BY <1>2, <1>4
  <2>2. \A l \in 0..ms.nest_level : sizes[l] = ms.nest_size[l]
    BY <1>4 DEF Levels, Slots
  <2> HIDE DEF sizes
  <2>3. Usable(inside) /\ inside.bound = ms.bound
    <3>1. /\ ms.pos + 2 \in Nat /\ ms.nest_level + 1 \in Levels
          /\ ms.last_level_pos \in [Slots -> Nat] /\ sizes \in [Levels -> Nat] /\ Usable(ms)
      BY <1>2, <1>4, <2>1
    <3> QED
      BY <3>1, BookedUsable, ZenonT(30)
  <2>4. /\ inside.nest_level = ms.nest_level + 1 /\ inside.nest_size = sizes
        /\ inside.last_level_pos = ms.last_level_pos
        /\ inside.device_id = ms.device_id /\ inside.device_name = ms.device_name
    BY <1>2, BookedFields
  <2> QED
    BY <2>2, <2>3, <2>4
<1> HIDE DEF sizes, inside
<1>7. f \in Frame /\ f.from = Top.from /\ f.left = Top.left /\ f.inner = size
  BY <1>2, <1>3 DEF Frame
<1> HIDE DEF f
<1>8. /\ waits \in Seq(Frame) /\ Len(waits) = n /\ waits[n] = f
      /\ \A i \in 1..(n - 1) : waits[i] = frames[i]
  BY <1>2, <1>7, ExceptSeq
<1> HIDE DEF waits
<1>9. NewFrame(inside) \in Frame
  BY <1>6, NewFrameTyped
<1>10. /\ frames' \in Seq(Frame) /\ Len(frames') = n + 1
       /\ \A i \in 1..n : frames'[i] = waits[i]
  BY <1>2, <1>5, <1>8, <1>9, AppendProperties
<1>11. TypeOK'
  BY <1>5, <1>6, <1>10 DEF IInv, TypeOK, Usable
<1>12. StreamFits'
  BY <1>5, <1>6 DEF IInv, StreamFits, Usable, payload
<1>13. CallKept'
  <2> DEFINE was == before.ms
  <2>1. /\ ms.nest_level = was.nest_level + n - 1 /\ was.nest_level \in Nat
        /\ ~lost /\ Usable(was) /\ frames[1].from = was.pos /\ SameBooks /\ RoomToReturn
    BY <1>2, UsableFields DEF IInv, CallKept
  <2>2. ms'.nest_level = was.nest_level + Len(frames') - 1
    <3>1. ms'.nest_level = ms.nest_level + 1 /\ Len(frames') = n + 1
      BY <1>5, <1>6, <1>10
    <3>2. n \in Nat /\ was.nest_level \in Nat /\ ms.nest_level = was.nest_level + n - 1
      BY <1>2, <2>1
    <3> HIDE DEF n
    <3> QED
      BY <3>1, <3>2
  <2>3. frames'[1].from = was.pos
    <3>1. frames'[1] = waits[1]
      BY <1>2, <1>10
    <3>2. waits[1] = f \/ waits[1] = frames[1]
      BY <1>2, <1>8
    <3> QED
      BY <1>2, <1>7, <1>8, <2>1, <3>1, <3>2 DEF Top
  <2>4. SameBooks'
    <3>1. 0..was.nest_level \subseteq 0..ms.nest_level
      BY <1>2, <2>1
    <3> QED
      BY <1>5, <1>6, <2>1, <3>1 DEF SameBooks
  <2>5. RoomToReturn'
    <3>1. ASSUME NEW i \in 1..n PROVE 2 + frames'[i].inner <= frames'[i].left
      <4>1. CASE i = n
        <5>1. frames'[i] = f /\ 2 + size <= Top.left
          BY <1>2, <1>3, <1>8, <1>10, <4>1
        <5> QED
          BY <1>7, <5>1
      <4>2. CASE i # n
        <5>1. i \in 1..(n - 1) /\ frames'[i] = frames[i]
          BY <1>2, <1>8, <1>10, <4>2
        <5> QED
          BY <2>1, <5>1 DEF RoomToReturn
      <4> QED
        BY <4>1, <4>2
    <3> QED
      BY <1>2, <1>10, <3>1 DEF RoomToReturn
  <2>6. Running'
    BY <1>2, <1>10 DEF Running
  <2> QED
    BY <1>5, <2>1, <2>2, <2>3, <2>4, <2>5 DEF CallKept
<1> QED
  BY <1>11, <1>12, <1>13 DEF IInv

(* The outermost activation returns: the stream is put back.                *)
LEMMA AcceptKept == ASSUME IInv, Accept PROVE IInv'
<1>1. Running /\ Usable(ms) /\ ~lost
  BY DEF Accept, Over, Running, IInv, CallKept, StreamFits
<1>2. Top.from \in Nat /\ Top.ret \in {OK, UNKNOWN_TYPE}
  BY <1>1, TopFrame DEF IInv
<1>3. /\ ms' = [ms EXCEPT !.pos = Top.from]
      /\ frames' = << >> /\ flags' = {} /\ before' = Nowhere
      /\ answer' = [by |-> "validate", code |-> Top.ret]
      /\ vetted' = (vetted \/ (Fresh(before.ms) /\ flags = {RECURSE}))
      /\ UNCHANGED <<buffer, device_count, lost, deep>>
  BY DEF Accept
<1>4. Usable(ms') /\ ms'.bound = ms.bound
  BY <1>1, <1>2, <1>3, MovedStream
<1>5. /\ frames' \in Seq(Frame) /\ answer' \in Answer /\ flags' \in Flags
      /\ vetted' \in BOOLEAN
  BY <1>2, <1>3, EmptySeq DEF Answer, Codes, Flags, IInv, TypeOK, Fresh
<1>6. TypeOK'
  BY <1>3, <1>4, <1>5, NowhereTyped DEF IInv, TypeOK, Usable
<1>7. StreamFits'
  BY <1>3, <1>4 DEF IInv, StreamFits, Usable, payload
<1>8. CallKept'
  BY <1>3 DEF CallKept, Running
<1> QED
  BY <1>6, <1>7, <1>8 DEF IInv

(* An inner activation returns: its level is given back, and the outer one  *)
(* subtracts the nest and the padding from what RoomToReturn left it.       *)
LEMMA ReturnKept == ASSUME IInv, Return PROVE IInv'
<1> DEFINE n      == Len(frames)
           outer  == frames[n - 1]
           behind == Top.from + outer.inner
           left   == outer.left - (2 + outer.inner)
           k      == PaddingAt(words, behind, left, ms.bound)
           ret    == IF Top.ret = UNKNOWN_TYPE THEN Top.ret ELSE outer.ret
           f      == [outer EXCEPT !.left = left - k, !.ret = ret]
           level  == ms.nest_level - 1
           was    == before.ms
<1>1. /\ Running /\ n > 1 /\ Usable(ms) /\ ms \in Stream
      /\ frames \in Seq(Frame) /\ n \in Nat
  BY DEF Return, Over, Running, IInv, CallKept, StreamFits, TypeOK, Usable
<1>2. /\ Top.from \in Nat /\ Top.ret \in {OK, UNKNOWN_TYPE}
      /\ outer \in Frame
  BY <1>1, TopFrame DEF IInv
<1>3. outer.left \in Nat /\ outer.inner \in Nat /\ outer.ret \in {OK, UNKNOWN_TYPE}
  BY <1>2 DEF Frame
<1>4. 2 + outer.inner <= outer.left
  BY <1>1 DEF IInv, CallKept, RoomToReturn
<1>5. left \in Nat /\ behind \in Nat
  <2> HIDE DEF outer
  <2> QED
    BY <1>2, <1>3, <1>4
<1>6. /\ ms.nest_level = was.nest_level + n - 1 /\ was.nest_level \in Nat
      /\ ms.nest_level \in Nat /\ ms.nest_level <= NestLimit
      /\ ~lost /\ Usable(was) /\ frames[1].from = was.pos /\ SameBooks /\ RoomToReturn
  BY <1>1, UsableFields DEF IInv, CallKept
<1>7. level \in Levels /\ level \in Nat /\ level = was.nest_level + n - 2
  BY <1>1, <1>6, LimitAssumption DEF Levels, Slots
<1> HIDE DEF left, behind
<1>8. k \in 0..left
  BY <1>5, PaddingRun
<1>9. /\ ms' = [ms EXCEPT !.pos = behind + k, !.nest_level = level]
      /\ frames' = [Front(frames) EXCEPT ![n - 1] = f]
      /\ device_count' = IF level = 0 THEN device_count + 1 ELSE device_count
      /\ UNCHANGED <<buffer, lost, flags, before, answer, vetted, deep>>
  BY DEF Return, Resumed, left, behind
<1> HIDE DEF k, level
<1>10. ret \in {OK, UNKNOWN_TYPE}
  BY <1>2, <1>3
<1> HIDE DEF ret
<1>11. f \in Frame /\ f.from = outer.from /\ f.inner = outer.inner
  <2>1. left - k \in Nat
    BY <1>5, <1>8
  <2>2. f \in Frame
    BY <1>2, <1>10, <2>1, Zenon DEF Frame
  <2>3. f.from = outer.from /\ f.inner = outer.inner
    BY <1>2 DEF Frame
  <2> QED
    BY <2>2, <2>3
<1> HIDE DEF f
<1>12. /\ Usable(ms') /\ ms'.bound = ms.bound /\ ms'.nest_level = level
       /\ ms'.nest_size = ms.nest_size /\ ms'.last_level_pos = ms.last_level_pos
       /\ ms'.device_id = ms.device_id /\ ms'.device_name = ms.device_name
  <2>1. behind + k \in Nat /\ level \in 0..(NestLimit + 1)
    BY <1>5, <1>7, <1>8, LimitAssumption DEF Levels, Slots
  <2>2. ms' \in Stream
    BY <1>1, <1>9, <2>1, Zenon DEF Stream
  <2>3. /\ ms'.bound = ms.bound /\ ms'.nest_level = level
        /\ ms'.nest_size = ms.nest_size /\ ms'.last_level_pos = ms.last_level_pos
        /\ ms'.device_id = ms.device_id /\ ms'.device_name = ms.device_name
    BY <1>1, <1>9 DEF Stream
  <2> QED
    BY <1>7, <2>2, <2>3 DEF Usable
<1>13. /\ frames' \in Seq(Frame) /\ Len(frames') = n - 1 /\ frames'[n - 1] = f
       /\ \A i \in 1..(n - 2) : frames'[i] = frames[i]
  <2>1. /\ Front(frames) \in Seq(Frame) /\ Len(Front(frames)) = n - 1
        /\ \A i \in 1..(n - 1) : Front(frames)[i] = frames[i]
    BY <1>1, FrontFrames
  <2>2. n - 1 \in 1..Len(Front(frames))
    BY <1>1, <2>1
  <2> HIDE DEF n
  <2> QED
    BY <1>1, <1>9, <1>11, <2>1, <2>2, ExceptSeq
<1>14. TypeOK'
  <2>1. device_count' \in Nat
    BY <1>9 DEF IInv, TypeOK
  <2> QED
    BY <1>9, <1>12, <1>13, <2>1 DEF IInv, TypeOK, Usable
<1>15. StreamFits'
  BY <1>9, <1>12 DEF IInv, StreamFits, Usable, payload
<1>16. CallKept'
  <2>1. ms'.nest_level = was.nest_level + Len(frames') - 1
    <3> HIDE DEF n
    <3>1. Len(frames') = n - 1 /\ ms'.nest_level = was.nest_level + n - 2
      BY <1>7, <1>12, <1>13
    <3> QED
      BY <1>1, <1>6, <3>1
  <2>2. frames'[1].from = was.pos
    <3>1. CASE n = 2
      BY <1>6, <1>11, <1>13, <3>1
    <3>2. CASE n # 2
      <4>1. frames'[1] = frames[1]
        BY <1>1, <1>13, <3>2
      <4> QED
        BY <1>6, <4>1
    <3> QED
      BY <3>1, <3>2
  <2>3. SameBooks'
    BY <1>6, <1>9, <1>12 DEF SameBooks
  <2>4. RoomToReturn'
    <3>1. ASSUME NEW i \in 1..(n - 2) PROVE 2 + frames'[i].inner <= frames'[i].left
      <4>1. i \in 1..(n - 1) /\ frames'[i] = frames[i]
        BY <1>1, <1>13
      <4> QED
        BY <1>6, <4>1 DEF RoomToReturn
    <3>2. Len(frames') - 1 = n - 2
      BY <1>1, <1>13
    <3> QED
      BY <3>1, <3>2 DEF RoomToReturn
  <2> QED
    BY <1>6, <1>9, <2>1, <2>2, <2>3, <2>4 DEF CallKept
<1> QED
  BY <1>14, <1>15, <1>16 DEF IInv

-----------------------------------------------------------------------------
(* A pass of GPMF_Next is made only while no validation runs.               *)
LEMMA WalkKept ==
  ASSUME IInv, NEW how \in {{}, {RECURSE}}, Walk(how)
  PROVE  IInv'
<1>1. frames = << >> /\ ~lost /\ Usable(ms)
  BY DEF Walk, IInv, StreamFits
<1>2. payload.longs \in Nat /\ words \in [0..(payload.longs - 1) -> Word]
  BY PayloadReads DEF IInv
<1>3. ms.bound <= payload.longs /\ TOLERANT \notin how
  BY DEF IInv, StreamFits, RECURSE, TOLERANT
<1>4. PICK r \in GPMF_Next(words, ms, how) :
        /\ ms' = r.ms
        /\ lost' = (r.ret = BAD)
        /\ answer' = [by |-> "next", code |-> r.ret]
  BY DEF Walk
<1>5. /\ deep' = (deep /\ how = {RECURSE})
      /\ UNCHANGED <<buffer, device_count, flags, frames, before, vetted>>
  BY DEF Walk
<1>6. r.ms \in Stream /\ r.ms.bound = ms.bound /\ (r.ret # BAD => Usable(r.ms))
  BY <1>1, <1>2, <1>3, NextUsable
<1>7. r.ret \in Codes
  BY <1>1, <1>2, <1>3, NeverAgain
<1>8. answer' \in Answer /\ lost' \in BOOLEAN /\ deep' \in BOOLEAN
  BY <1>4, <1>5, <1>7 DEF Answer, IInv, TypeOK
<1>9. TypeOK'
  BY <1>4, <1>5, <1>6, <1>8 DEF IInv, TypeOK
<1>10. StreamFits'
  BY <1>4, <1>5, <1>6 DEF IInv, StreamFits, payload
<1>11. CallKept'
  BY <1>1, <1>5 DEF CallKept, Running
<1> QED
  BY <1>9, <1>10, <1>11 DEF IInv

LEMMA ResetKept == ASSUME IInv, ResetState PROVE IInv'
<1>1. /\ frames = << >> /\ ms' = Rewound(ms) /\ device_count' = 0 /\ lost' = FALSE
      /\ answer' = [by |-> "reset", code |-> OK] /\ deep' = TRUE
      /\ UNCHANGED <<buffer, flags, frames, before, vetted>>
  BY DEF ResetState
<1>2. Usable(ms') /\ ms' \in Stream /\ ms'.bound = ms.bound
  BY <1>1, RewoundUsable DEF IInv, TypeOK, Usable
<1>3. TypeOK'
  BY <1>1, <1>2 DEF IInv, TypeOK, Answer, Codes
<1>4. StreamFits'
  BY <1>1, <1>2 DEF IInv, StreamFits, payload
<1>5. CallKept'
  BY <1>1 DEF CallKept, Running
<1> QED
  BY <1>3, <1>4, <1>5 DEF IInv

LEMMA StepKept == ASSUME IInv, [Next]_vars PROVE IInv'
<1>1. CASE \E how \in Flags : StartValidate(how)
  BY <1>1, StartKept
<1>2. CASE \E how \in {{}, {RECURSE}} : Walk(how)
  BY <1>2, WalkKept
<1>3. CASE UNCHANGED vars
  <2>1. UNCHANGED <<buffer, ms, device_count, lost, flags, frames, before, answer, vetted, deep>>
    BY <1>3 DEF vars
  <2>2. TypeOK' /\ StreamFits' /\ CallKept'
    BY <2>1 DEF IInv, TypeOK, StreamFits, CallKept, Running, SameBooks, RoomToReturn, payload
  <2> QED
    BY <2>2 DEF IInv
<1> QED
  BY <1>1, <1>2, <1>3, RefuseEntryKept, RefuseDepthKept, StepOverKept, EnterNestKept,
     SkipEndsKept, AcceptKept, ReturnKept, ResetKept
     DEF Next

THEOREM SpecKept == Spec => []IInv
<1>1. IInv /\ [Next]_vars => IInv'
  BY StepKept
<1> QED
  BY InitKept, <1>1, PTL DEF Spec

(* GPMF_Validate and GPMF_Next keep their numbers: no size of a nest is     *)
(* ever taken below zero, for every payload and every nest limit.           *)
THEOREM ValidateTyped == Spec => []TypeOK
<1>1. IInv => TypeOK
  BY DEF IInv
<1> QED
  BY <1>1, SpecKept, PTL

(* A stream that passes GPMF_Validate is put back to where it was, with the *)
(* books of that place: only sizes of levels that are not open may differ.  *)
LEMMA StreamPutBack ==
  ASSUME IInv, Next, Validated, answer'.code # BAD
  PROVE  /\ [ms' EXCEPT !.nest_size = before.ms.nest_size] = before.ms
         /\ \A l \in 0..ms'.nest_level : ms'.nest_size[l] = before.ms.nest_size[l]
<1>1. Running /\ frames' = << >>
  BY DEF Validated, Running
<1>2. Accept
  <2>1. ASSUME NEW inner PROVE ~Refuse(inner)
    BY DEF Refuse
  <2>2. ~RefuseEntry /\ ~RefuseDepth
    BY <2>1 DEF RefuseEntry, RefuseDepth
  <2>3. ASSUME NEW how PROVE ~StartValidate(how) /\ ~Walk(how) /\ ~ResetState
    BY <1>1 DEF StartValidate, Walk, ResetState, Running
  <2>4. frames \in Seq(Frame) /\ Len(frames) \in Nat
    BY DEF IInv, TypeOK
  <2>5. ~StepOverEntry /\ ~SkipEnds /\ ~EnterNest
    BY <1>1, <2>4 DEF StepOverEntry, SkipEnds, EnterNest, Running
  <2>6. ASSUME Return PROVE FALSE
    <3>1. Len(frames) > 1 /\ DOMAIN frames' = DOMAIN Front(frames)
      BY <2>6 DEF Return, Resumed
    <3>2. Front(frames) \in Seq(Frame) /\ Len(Front(frames)) = Len(frames) - 1
      BY <2>4, <3>1, FrontFrames
    <3>3. 1 \in DOMAIN Front(frames)
      BY <2>4, <3>1, <3>2
    <3> QED
      BY <1>1, <3>1, <3>3
  <2> QED
    BY <2>2, <2>3, <2>5, <2>6 DEF Next
<1> DEFINE was == before.ms
<1>3. /\ Usable(was) /\ was \in Stream /\ Usable(ms) /\ ms \in Stream
      /\ Len(frames) = 1 /\ ms.nest_level = was.nest_level
      /\ Top.from = was.pos /\ SameBooks
  BY <1>1, <1>2, UsableFields DEF Accept, IInv, CallKept, StreamFits, Top, Usable
<1>4. ms' = [ms EXCEPT !.pos = was.pos]
  BY <1>2, <1>3 DEF Accept
<1>5. /\ ms'.bound = was.bound /\ ms'.pos = was.pos /\ ms'.nest_level = was.nest_level
      /\ ms'.last_level_pos = was.last_level_pos /\ ms'.nest_size = ms.nest_size
      /\ ms'.device_id = was.device_id /\ ms'.device_name = was.device_name
      /\ ms' \in Stream
  <2>1. was.pos \in Nat
    BY <1>3, UsableFields
  <2> QED
    BY <1>3, <1>4, <2>1, MovedStream DEF SameBooks, Usable
<1>6. [ms' EXCEPT !.nest_size = was.nest_size] = was
  BY <1>3, <1>5 DEF Stream
<1> QED
  BY <1>3, <1>5, <1>6 DEF SameBooks

THEOREM ValidateKeepsStream == Spec => StreamKept
<1>1. IInv /\ [Next]_vars =>
        [Validated /\ answer'.code # BAD =>
           /\ [ms' EXCEPT !.nest_size = before.ms.nest_size] = before.ms
           /\ \A l \in 0..ms'.nest_level : ms'.nest_size[l] = before.ms.nest_size[l]]_vars
  BY StreamPutBack
<1> QED
  BY <1>1, SpecKept, PTL DEF Spec, StreamKept

-----------------------------------------------------------------------------
(***************************************************************************)
(* What a recursive validation from the start establishes, apart from how  *)
(* it went: a set of segments <<i, e, v>>, the words from i on of a nest   *)
(* that ends at e and that the validation met at its level v, so that what *)
(* starts a segment is a right entry, and what it holds and what follows   *)
(* it are segments again.                                                  *)
(***************************************************************************)
Segments == Nat \X Nat \X Nat

Judged(w, B, G, i, e, v) ==
  i < e /\ i + 1 < B =>
    /\ w[i].key \in FourCC =>
         LET b == i + 2 + SizeAt(w, i)
         IN /\ w[i + 1].ssize # 0 /\ b <= e
            /\ w[i + 1].type = NEST => v < NestLimit /\ <<i + 2, b, v + 1>> \in G
            /\ <<b, e, v>> \in G
    /\ w[i].key = END => <<i + 1, e, v>> \in G
    /\ w[i].key \notin FourCC \union {END} => v = 0

(* The end of a segment is the end of the buffer, or goes on.               *)
GoesOn(B, G, e) == e + 1 >= B \/ \E f, u : e < f /\ <<e, f, u>> \in G

Chart(B, G) ==
  /\ G \subseteq Segments
  /\ <<0, B, 0>> \in G
  /\ \A i, e, v : <<i, e, v>> \in G => i <= e /\ e <= B /\ GoesOn(B, G, e)

Charted(w, B, G) ==
  /\ Chart(B, G)
  /\ \A i, e, v : <<i, e, v>> \in G => Judged(w, B, G, i, e, v)

Accepted(w, B) == \E G : Charted(w, B, G)

(* While the validation runs: all is judged but what is pending, a segment  *)
(* before the innermost activation and one before each that waits.          *)
Tracks(w, B, P, G) ==
  /\ Chart(B, G)
  /\ P \subseteq G
  /\ \A i, e, v : <<i, e, v>> \in G /\ <<i, e, v>> \notin P => Judged(w, B, G, i, e, v)

Ahead == <<ms.pos, ms.pos + Top.left, Len(frames) - 1>>

Waiting(j) ==
  LET from == frames[j + 1].from + frames[j].inner
  IN <<from, from + (frames[j].left - (2 + frames[j].inner)), j - 1>>

Suspended == {Waiting(j) : j \in 1..(Len(frames) - 1)}

Pending == {Ahead} \union Suspended

FromStart == Running /\ Fresh(before.ms) /\ flags = {RECURSE}

Tracked == FromStart => \E G : Tracks(words, ms.bound, Pending, G)

LEMMA JudgedMore ==
  ASSUME NEW w, NEW B, NEW G, NEW H, G \subseteq H, NEW i, NEW e, NEW v,
         Judged(w, B, G, i, e, v)
  PROVE  Judged(w, B, H, i, e, v)
BY DEF Judged

(* More segments that end where segments end.                               *)
LEMMA ChartMore ==
  ASSUME NEW B \in Nat, NEW G, Chart(B, G), NEW N, N \subseteq Segments,
         \A i, e, v : <<i, e, v>> \in N => i <= e /\ e <= B /\ GoesOn(B, G \union N, e)
  PROVE  Chart(B, G \union N)
<1>1. \A e : GoesOn(B, G, e) => GoesOn(B, G \union N, e)
  BY DEF GoesOn
<1> QED
  BY <1>1 DEF Chart

LEMMA SegmentNat ==
  ASSUME NEW B, NEW G, Chart(B, G), NEW i, NEW e, NEW v, <<i, e, v>> \in G
  PROVE  i \in Nat /\ e \in Nat /\ v \in Nat /\ i <= e /\ e <= B /\ GoesOn(B, G, e)
<1>1. <<i, e, v>> \in Segments
  BY DEF Chart
<1> QED
  BY <1>1 DEF Chart, Segments

(* A run of padding, all the segments that start in it.                     *)
Padded(i, k, e, v) == {<<i + j, e, v>> : j \in 0..k}

LEMMA PaddedFirst ==
  ASSUME NEW i \in Nat, NEW k \in Nat, NEW e, NEW v
  PROVE  <<i, e, v>> \in Padded(i, k, e, v)
<1>1. 0 \in 0..k /\ i + 0 = i
  OBVIOUS
<1> QED
  BY <1>1 DEF Padded

LEMMA ChartPadded ==
  ASSUME NEW B \in Nat, NEW G, Chart(B, G), NEW i, NEW e, NEW v, <<i, e, v>> \in G,
         NEW k \in Nat, i + k <= e
  PROVE  /\ Chart(B, G \union Padded(i, k, e, v))
         /\ <<i + k, e, v>> \in Padded(i, k, e, v)
<1> DEFINE N == Padded(i, k, e, v)
<1>1. i \in Nat /\ e \in Nat /\ v \in Nat /\ e <= B /\ GoesOn(B, G, e)
  BY SegmentNat
<1>2. N \subseteq Segments
  BY <1>1 DEF Padded, Segments
<1>3. GoesOn(B, G \union N, e)
  BY <1>1 DEF GoesOn
<1>4. ASSUME NEW a, NEW b, NEW c, <<a, b, c>> \in N
      PROVE  a <= b /\ b <= B /\ GoesOn(B, G \union N, b)
  <2>1. PICK j \in 0..k : <<a, b, c>> = <<i + j, e, v>>
    BY <1>4 DEF Padded
  <2>2. a = i + j /\ b = e
    BY <2>1
  <2>3. j \in Nat /\ j <= k
    OBVIOUS
  <2>4. a <= b
    BY <1>1, <2>2, <2>3
  <2> QED
    BY <1>1, <1>3, <2>2, <2>4
<1> HIDE DEF N
<1>5. Chart(B, G \union N)
  BY <1>2, <1>4, ChartMore
<1>6. <<i + k, e, v>> \in Padded(i, k, e, v)
  BY DEF Padded
<1> QED
  BY <1>5, <1>6 DEF N

LEMMA JudgedPadded ==
  ASSUME NEW w, NEW B \in Nat, NEW i \in Nat, NEW e \in Nat, NEW v \in Nat, NEW k \in Nat,
         \A j \in 0..(k - 1) : w[i + j].key = END,
         NEW G, Padded(i, k, e, v) \subseteq G,
         NEW a, NEW b, NEW c, <<a, b, c>> \in Padded(i, k, e, v), <<a, b, c>> # <<i + k, e, v>>
  PROVE  Judged(w, B, G, a, b, c)
<1>1. PICK j \in 0..k : <<a, b, c>> = <<i + j, e, v>>
  BY DEF Padded
<1>2. a = i + j /\ b = e /\ c = v
  BY <1>1
<1>3. j # k
  BY <1>2
<1>4. j \in 0..(k - 1) /\ j + 1 \in 0..k
  BY <1>3
<1>5. w[a].key = END
  BY <1>2, <1>4
<1>6. <<i + (j + 1), e, v>> \in G
  BY <1>4 DEF Padded
<1>7. a + 1 = i + (j + 1)
  BY <1>2
<1> QED
  BY <1>2, <1>5, <1>6, <1>7, KeyAssumption DEF Judged

-----------------------------------------------------------------------------
(* A step of the validation adds segments and judges what it leaves behind. *)
LEMMA TracksMore ==
  ASSUME NEW w, NEW B, NEW P, NEW Q, NEW G, NEW H, Tracks(w, B, P, G),
         G \subseteq H, Chart(B, H), Q \subseteq H,
         \A i, e, v : <<i, e, v>> \in H /\ <<i, e, v>> \notin Q
                        /\ (<<i, e, v>> \in P \/ <<i, e, v>> \notin G)
                      => Judged(w, B, H, i, e, v)
  PROVE  Tracks(w, B, Q, H)
<1>1. ASSUME NEW i, NEW e, NEW v, <<i, e, v>> \in H, <<i, e, v>> \notin Q
      PROVE  Judged(w, B, H, i, e, v)
  <2>1. CASE <<i, e, v>> \in P \/ <<i, e, v>> \notin G
    BY <1>1, <2>1
  <2>2. CASE <<i, e, v>> \notin P /\ <<i, e, v>> \in G
    BY <2>2, JudgedMore DEF Tracks
  <2> QED
    BY <2>1, <2>2
<1>2. \A i, e, v : <<i, e, v>> \in H /\ <<i, e, v>> \notin Q => Judged(w, B, H, i, e, v)
  BY <1>1
<1> QED
  BY <1>2, Zenon DEF Tracks

(* The validation from the start meets every level as one of its own.       *)
LEMMA StackLevels ==
  ASSUME IInv, FromStart
  PROVE  /\ Usable(ms) /\ ms.pos \in Nat /\ ms.bound \in Nat /\ ~lost
         /\ Len(frames) \in Nat /\ Len(frames) >= 1
         /\ ms.nest_level = Len(frames) - 1
         /\ Top \in Frame /\ Top.from \in Nat /\ Top.left \in Nat /\ Top.inner \in Nat
<1>1. Running
  BY DEF FromStart
<1>2. /\ Usable(ms) /\ ~lost
      /\ ms.nest_level = before.ms.nest_level + Len(frames) - 1
  BY <1>1 DEF IInv, CallKept, StreamFits
<1>3. Len(frames) \in Nat /\ Len(frames) >= 1
      /\ Top \in Frame /\ Top.from \in Nat /\ Top.left \in Nat /\ Top.inner \in Nat
  BY <1>1, TopFrame DEF IInv
<1>4. before.ms.nest_level = 0
  BY DEF FromStart, Fresh
<1>5. ms.nest_level = Len(frames) - 1
  BY <1>2, <1>3, <1>4
<1> QED
  BY <1>2, <1>3, <1>5, UsableFields

(* A turn of the innermost loop leaves the activations that wait alone.     *)
LEMMA TurnPending ==
  ASSUME IInv, FromStart, NEW pos \in Nat, NEW f \in Frame, f.from = Top.from,
         ms' = [ms EXCEPT !.pos = pos],
         frames' = [frames EXCEPT ![Len(frames)] = f]
  PROVE  Pending' = {<<pos, pos + f.left, Len(frames) - 1>>} \union Suspended
<1> DEFINE n == Len(frames)
<1>1. frames \in Seq(Frame) /\ n \in Nat /\ n >= 1 /\ Usable(ms)
  BY StackLevels DEF IInv, TypeOK
<1>2. /\ Len(frames') = n /\ frames'[n] = f
      /\ \A i \in 1..(n - 1) : frames'[i] = frames[i]
  BY <1>1, ExceptSeq
<1>3. ms'.pos = pos
  BY <1>1, MovedStream
<1>4. Ahead' = <<pos, pos + f.left, n - 1>>
  BY <1>2, <1>3 DEF Ahead, Top
<1>5. ASSUME NEW j \in 1..(n - 1) PROVE Waiting(j)' = Waiting(j)
  <2>1. frames'[j] = frames[j]
    BY <1>2
  <2>2. frames'[j + 1].from = frames[j + 1].from
    <3>1. CASE j + 1 = n
      BY <1>2, <3>1 DEF Top
    <3>2. CASE j + 1 # n
      <4>1. j + 1 \in 1..(n - 1)
        BY <1>1, <3>2
      <4> QED
        BY <1>2, <4>1
    <3> QED
      BY <3>1, <3>2
  <2> QED
    BY <2>1, <2>2 DEF Waiting
<1>6. Suspended' = Suspended
  BY <1>2, <1>5 DEF Suspended
<1> QED
  BY <1>4, <1>6 DEF Pending

LEMMA StartTracked ==
  ASSUME IInv, NEW how \in Flags, StartValidate(how)
  PROVE  Tracked'
<1> SUFFICES ASSUME FromStart' PROVE \E G : Tracks(words', ms'.bound, Pending', G)
  BY DEF Tracked
<1> DEFINE B == ms.bound
           S == <<0, B, 0>>
<1>1. /\ frames' = <<NewFrame(ms)>> /\ before'.ms = ms
      /\ UNCHANGED <<buffer, ms>>
  BY DEF StartValidate
<1>2. Usable(ms) /\ B \in Nat
  BY UsableFields DEF IInv, StreamFits, StartValidate
<1>3. ms.pos = 0 /\ ms.nest_level = 0 /\ ms.nest_size[0] = 0
  BY <1>1 DEF FromStart, Fresh
<1>4. NewFrame(ms).left = B
  BY <1>3 DEF NewFrame, Remaining
<1>5. Len(frames') = 1 /\ frames'[1] = NewFrame(ms)
  BY <1>1
<1>6. Ahead' = S
  BY <1>1, <1>2, <1>3, <1>4, <1>5 DEF Ahead, Top
<1>7. Suspended' = {}
  BY <1>5 DEF Suspended
<1>8. Pending' = {S}
  BY <1>6, <1>7 DEF Pending
<1>9. Chart(B, {S})
  BY <1>2 DEF Chart, Segments, GoesOn
<1>10. Tracks(words', ms'.bound, Pending', {S})
  BY <1>1, <1>8, <1>9 DEF Tracks
<1> QED
  BY <1>10

LEMMA StepOverTracked == ASSUME IInv, Tracked, StepOverEntry PROVE Tracked'
<1> SUFFICES ASSUME FromStart' PROVE \E G : Tracks(words', ms'.bound, Pending', G)
  BY DEF Tracked
<1>1. /\ InLoop /\ ~Faulty /\ ~Descends /\ key \in FourCC
      /\ UNCHANGED <<buffer, flags, before>>
  BY DEF StepOverEntry, AtEntry
<1>2. FromStart
  BY <1>1 DEF FromStart, InLoop, Running
<1> DEFINE B == ms.bound  n == Len(frames)  i == ms.pos
           e == ms.pos + Top.left  b == i + 2 + size
           left == Top.left - (2 + size)
           f == [Top EXCEPT !.left = left, !.ret = Noted]
           A == <<b, e, n - 1>>
<1>3. /\ Usable(ms) /\ i \in Nat /\ B \in Nat /\ n \in Nat /\ n >= 1
      /\ Top \in Frame /\ Top.left \in Nat /\ Top.ret \in {OK, UNKNOWN_TYPE}
  BY <1>2, StackLevels, TopFrame DEF IInv, FromStart
<1>4. size \in Nat
  BY <1>1, EntryRead
<1>5. /\ desc.ssize # 0 /\ size + 2 <= Top.left
  BY <1>1, <1>3, <1>4 DEF Faulty
<1>6. /\ left \in Nat /\ b \in Nat /\ e \in Nat /\ Noted \in {OK, UNKNOWN_TYPE}
      /\ b + left = e /\ b <= e
  <2>1. left \in Nat /\ Noted \in {OK, UNKNOWN_TYPE}
    BY <1>3, <1>4, <1>5 DEF Noted
  <2>2. b + left = e /\ b \in Nat /\ e \in Nat
    BY <1>3, <1>4, SMTT(30)
  <2> HIDE DEF b, e, left
  <2> QED
    BY <2>1, <2>2
<1>7. f \in Frame /\ f.from = Top.from /\ f.left = left
  <2> HIDE DEF left
  <2>1. f \in Frame
    BY <1>3, <1>6, Zenon DEF Frame
  <2>2. f.from = Top.from /\ f.left = left
    BY <1>3 DEF Frame
  <2> QED
    BY <2>1, <2>2
<1>8. /\ frames' = [frames EXCEPT ![Len(frames)] = f]
      /\ ms' = [ms EXCEPT !.pos = b]
  BY DEF StepOverEntry
<1> HIDE DEF f
<1>9. Pending' = {<<b, b + f.left, Len(frames) - 1>>} \union Suspended
  <2> HIDE DEF b
  <2> QED
    BY <1>2, <1>6, <1>7, <1>8, TurnPending
<1>10. Pending' = {A} \union Suspended
  BY <1>6, <1>7, <1>9
<1>11. ms'.bound = B /\ words' = words
  BY <1>1, <1>3, <1>6, <1>8, MovedStream DEF words, payload
<1>12. PICK G : Tracks(words, B, Pending, G)
  BY <1>2 DEF Tracked
<1> DEFINE H == G \union {A}
<1>13. <<i, e, n - 1>> \in G /\ Chart(B, G) /\ Suspended \subseteq G
  BY <1>12 DEF Tracks, Pending, Ahead
<1>14. e <= B /\ GoesOn(B, G, e)
  BY <1>13, SegmentNat
<1>15. Chart(B, H)
  <2>1. {A} \subseteq Segments
    BY <1>3, <1>6 DEF Segments
  <2>2. GoesOn(B, H, e)
    BY <1>14 DEF GoesOn
  <2> HIDE DEF b, e
  <2>3. \A x, y, z : <<x, y, z>> \in {A} => x <= y /\ y <= B /\ GoesOn(B, H, y)
    BY <1>6, <1>14, <2>2
  <2> QED
    BY <1>3, <1>13, <2>1, <2>3, ChartMore
<1>16. Judged(words, B, H, i, e, n - 1)
  <2>1. desc.type # NEST
    BY <1>1, <1>2 DEF Descends, FromStart
  <2>2. size = SizeAt(words, i) /\ desc = words[i + 1] /\ key = words[i].key
    BY DEF size, SizeAt, desc, key
  <2>3. words[i].key # END /\ words[i].key \in FourCC
    BY <1>1, <2>2, KeyAssumption
  <2> HIDE DEF e
  <2> QED
    BY <1>5, <1>6, <2>1, <2>2, <2>3 DEF Judged
<1>17. Tracks(words, B, {A} \union Suspended, H)
  <2>1. ASSUME NEW x, NEW y, NEW z, <<x, y, z>> \in H, <<x, y, z>> \notin {A} \union Suspended,
               <<x, y, z>> \in Pending \/ <<x, y, z>> \notin G
        PROVE  Judged(words, B, H, x, y, z)
    <3>1. <<x, y, z>> = <<i, e, n - 1>>
      BY <2>1 DEF Pending, Ahead
    <3>2. x = i /\ y = e /\ z = n - 1
      BY <3>1
    <3> HIDE DEF H, i, e, n
    <3> QED
      BY <1>16, <3>2
  <2>2. {A} \union Suspended \subseteq H
    BY <1>13
  <2>3. G \subseteq H
    OBVIOUS
  <2> DEFINE Q == {A} \union Suspended
  <2>4. /\ Q \subseteq H
        /\ \A x, y, z : <<x, y, z>> \in H /\ <<x, y, z>> \notin Q
                         /\ (<<x, y, z>> \in Pending \/ <<x, y, z>> \notin G)
                       => Judged(words, B, H, x, y, z)
    BY <2>1, <2>2
  <2> HIDE DEF H, A, B, Q
  <2>5. Tracks(words, B, Q, H)
    BY <1>12, <1>15, <2>3, <2>4, TracksMore
  <2> QED
    BY <2>5 DEF Q
<1> QED
  BY <1>10, <1>11, <1>17

LEMMA SkipEndsTracked == ASSUME IInv, Tracked, SkipEnds PROVE Tracked'
<1> SUFFICES ASSUME FromStart' PROVE \E G : Tracks(words', ms'.bound, Pending', G)
  BY DEF Tracked
<1>1. InLoop /\ UNCHANGED <<buffer, flags, before>>
  BY DEF SkipEnds
<1>2. FromStart
  BY <1>1 DEF FromStart, InLoop, Running
<1> DEFINE B == ms.bound  n == Len(frames)  i == ms.pos
           e == ms.pos + Top.left
           k == PaddingAt(words, ms.pos, Top.left, ms.bound)
           left == Top.left - k
           f == [Top EXCEPT !.left = left]
<1>3. /\ Usable(ms) /\ i \in Nat /\ B \in Nat /\ n \in Nat /\ n >= 1
      /\ Top \in Frame /\ Top.left \in Nat
  BY <1>2, StackLevels
<1>4. /\ k \in 0..Top.left
      /\ \A j \in 0..(k - 1) : words[ms.pos + j].key = END
  BY <1>3, PaddingRun
<1>5. /\ frames' = [frames EXCEPT ![Len(frames)] = f]
      /\ ms' = [ms EXCEPT !.pos = i + k]
  BY DEF SkipEnds, Top
<1> HIDE DEF k
<1>6. left \in Nat /\ i + k \in Nat /\ e \in Nat /\ i + k + left = e /\ i + k <= e /\ k \in Nat
  <2> DEFINE L == Top.left
  <2>1. i \in Nat /\ L \in Nat /\ k \in 0..L
    BY <1>3, <1>4
  <2> HIDE DEF i, L
  <2>2. /\ L - k \in Nat /\ i + k \in Nat /\ i + L \in Nat
        /\ i + k + (L - k) = i + L /\ i + k <= i + L /\ k \in Nat
    BY <2>1
  <2> QED
    BY <2>2 DEF i, L
<1>7. f \in Frame /\ f.from = Top.from /\ f.left = left
  <2> HIDE DEF left
  <2> QED
    BY <1>3, <1>6 DEF Frame
<1> HIDE DEF f
<1>8. Pending' = {<<i + k, i + k + f.left, Len(frames) - 1>>} \union Suspended
  BY <1>2, <1>5, <1>6, <1>7, TurnPending
<1> DEFINE A == <<i + k, e, n - 1>>
           Q == {A} \union Suspended
<1>9. Pending' = Q
  BY <1>6, <1>7, <1>8
<1>10. ms'.bound = B /\ words' = words
  BY <1>1, <1>3, <1>5, <1>6, MovedStream DEF words, payload
<1>11. PICK G : Tracks(words, B, Pending, G)
  BY <1>2 DEF Tracked
<1>12. <<i, e, n - 1>> \in G /\ Chart(B, G) /\ Suspended \subseteq G
  BY <1>11 DEF Tracks, Pending, Ahead
<1> DEFINE N == Padded(i, k, e, n - 1)
           H == G \union N
<1>13. Chart(B, H) /\ A \in N
  <2> HIDE DEF e
  <2> QED
    BY <1>3, <1>6, <1>12, ChartPadded
<1>14. <<i, e, n - 1>> \in N
  BY <1>3, <1>6, PaddedFirst
<1>15. ASSUME NEW x, NEW y, NEW z, <<x, y, z>> \in N, <<x, y, z>> # A
       PROVE  Judged(words, B, H, x, y, z)
  <2>1. N \subseteq H /\ n - 1 \in Nat
    BY <1>3
  <2> DEFINE v == n - 1
  <2>2. /\ i \in Nat /\ e \in Nat /\ v \in Nat /\ k \in Nat /\ B \in Nat
        /\ \A j \in 0..(k - 1) : words[i + j].key = END
        /\ Padded(i, k, e, v) \subseteq H
        /\ <<x, y, z>> \in Padded(i, k, e, v) /\ <<x, y, z>> # <<i + k, e, v>>
    BY <1>3, <1>4, <1>6, <1>15, <2>1
  <2> HIDE DEF H, e, v, i, B
  <2> QED
    BY <2>2, JudgedPadded
<1>16. \A x, y, z : <<x, y, z>> \in H /\ <<x, y, z>> \notin Q
                     /\ (<<x, y, z>> \in Pending \/ <<x, y, z>> \notin G)
                   => Judged(words, B, H, x, y, z)
  <2> SUFFICES ASSUME NEW x, NEW y, NEW z, <<x, y, z>> \in H, <<x, y, z>> \notin Q,
                      <<x, y, z>> \in Pending \/ <<x, y, z>> \notin G
               PROVE  Judged(words, B, H, x, y, z)
    OBVIOUS
  <2>1. <<x, y, z>> \in N
    BY <1>14 DEF Pending, Ahead
  <2>2. <<x, y, z>> # A
    OBVIOUS
  <2> QED
    BY <1>15, <2>1, <2>2
<1>17. Q \subseteq H /\ G \subseteq H
  BY <1>12, <1>13
<1> HIDE DEF H, Q
<1>18. Tracks(words, B, Q, H)
  BY <1>11, <1>13, <1>16, <1>17, TracksMore
<1> QED
  BY <1>9, <1>10, <1>18

(* The stack after a nest is entered.                                       *)
LEMMA EnterFrames ==
  ASSUME IInv, EnterNest
  PROVE  LET n == Len(frames)
         IN /\ Len(frames') = n + 1
            /\ \A j \in 1..(n - 1) : frames'[j] = frames[j]
            /\ frames'[n].from = Top.from /\ frames'[n].left = Top.left
            /\ frames'[n].inner = size /\ frames'[n].ret = Top.ret
            /\ frames'[n + 1].from = ms.pos + 2 /\ frames'[n + 1].left = size
            /\ frames'[n + 1].ret = OK
            /\ ms'.pos = ms.pos + 2 /\ ms'.bound = ms.bound
<1> DEFINE sizes  == [ms.nest_size EXCEPT ![ms.nest_level + 1] = size]
           inside == Booked(ms, ms.pos + 2, ms.nest_level + 1, ms.last_level_pos, sizes)
           f      == [Top EXCEPT !.inner = size]
           waits  == [frames EXCEPT ![Len(frames)] = f]
           n      == Len(frames)
<1>1. InLoop
  BY DEF EnterNest, AtEntry
<1>2. /\ Usable(ms) /\ ms \in Stream /\ ms.pos \in Nat /\ size \in Nat
      /\ frames \in Seq(Frame) /\ n \in Nat /\ n >= 1 /\ Top \in Frame
  BY <1>1, EntryRead, TopFrame DEF Usable, IInv, TypeOK
<1>3. /\ ms.nest_level \in Nat /\ ms.nest_level + 1 \in Levels
      /\ ms.last_level_pos \in [Slots -> Nat] /\ ms.nest_size \in [Levels -> Nat]
  <2>1. /\ ms.nest_level \in Nat
        /\ ms.last_level_pos \in [Slots -> Nat] /\ ms.nest_size \in [Levels -> Nat]
    BY <1>2, UsableFields
  <2>2. ms.nest_level < NestLimit /\ NestLimit \in Nat
    BY LimitAssumption DEF EnterNest
  <2>3. ms.nest_level + 1 \in 0..NestLimit
    <3>1. PICK l \in Nat : l = ms.nest_level
      BY <2>1
    <3>2. l + 1 \in 0..NestLimit
      BY <2>2, <3>1
    <3> QED
      BY <3>1, <3>2
  <2> QED
    BY <2>1, <2>3 DEF Levels, Slots
<1>4. ms' = inside /\ frames' = Append(waits, NewFrame(inside))
  <2>1. [ms EXCEPT !.pos = @ + 2, !.nest_level = @ + 1, !.nest_size[ms.nest_level + 1] = size]
          = inside
    BY <1>2 DEF Booked, Stream
  <2>2. waits = [frames EXCEPT ![Len(frames)].inner = size]
    BY DEF Top
  <2> QED
    BY <2>1, <2>2 DEF EnterNest
<1>5. sizes \in [Levels -> Nat] /\ sizes[ms.nest_level + 1] = size /\ ms.pos + 2 \in Nat
  BY <1>2, <1>3
<1> HIDE DEF sizes
<1>6. /\ Usable(inside) /\ inside.bound = ms.bound /\ inside.pos = ms.pos + 2
      /\ inside.nest_level = ms.nest_level + 1 /\ inside.nest_size = sizes
  <2>1. Usable(inside) /\ inside.bound = ms.bound
    <3>1. /\ ms.pos + 2 \in Nat /\ ms.nest_level + 1 \in Levels
          /\ ms.last_level_pos \in [Slots -> Nat] /\ sizes \in [Levels -> Nat] /\ Usable(ms)
      BY <1>2, <1>3, <1>5
    <3> QED
      BY <3>1, BookedUsable, ZenonT(30)
  <2> QED
    BY <1>2, <2>1, BookedFields
<1> HIDE DEF inside
<1>7. /\ NewFrame(inside) \in Frame /\ NewFrame(inside).from = ms.pos + 2
      /\ NewFrame(inside).left = size /\ NewFrame(inside).ret = OK
  <2>1. Remaining(inside) = size
    BY <1>5, <1>6 DEF Remaining
  <2>2. inside.nest_level # 0
    BY <1>3, <1>6
  <2>3. NewFrame(inside).left = size /\ NewFrame(inside).ret = OK
    BY <2>1, <2>2 DEF NewFrame
  <2> QED
    BY <1>6, <2>3, NewFrameTyped
<1>8. f \in Frame /\ f.from = Top.from /\ f.left = Top.left /\ f.inner = size /\ f.ret = Top.ret
  BY <1>2 DEF Frame
<1> HIDE DEF f
<1>9. /\ waits \in Seq(Frame) /\ Len(waits) = n /\ waits[n] = f
      /\ \A i \in 1..(n - 1) : waits[i] = frames[i]
  BY <1>2, <1>8, ExceptSeq
<1> HIDE DEF waits
<1>10. /\ Len(frames') = n + 1 /\ frames'[n + 1] = NewFrame(inside) /\ frames'[n] = f
       /\ \A i \in 1..(n - 1) : frames'[i] = frames[i]
  <2>1. /\ Len(frames') = n + 1 /\ frames'[n + 1] = NewFrame(inside)
        /\ \A i \in 1..n : frames'[i] = waits[i]
    BY <1>2, <1>4, <1>7, <1>9, AppendProperties
  <2>2. n \in 1..n /\ \A i \in 1..(n - 1) : i \in 1..n
    BY <1>2
  <2> QED
    BY <1>9, <2>1, <2>2
<1> HIDE DEF n
<1> QED
  BY <1>4, <1>6, <1>7, <1>8, <1>10 DEF n

(* A nest is entered: its words, and those behind it, are to be judged.     *)
LEMMA EnterPending ==
  ASSUME IInv, FromStart, EnterNest
  PROVE  /\ Pending' = {<<ms.pos + 2, ms.pos + 2 + size, Len(frames)>>,
                        <<ms.pos + 2 + size, ms.pos + 2 + size + (Top.left - (2 + size)),
                          Len(frames) - 1>>} \union Suspended
         /\ ms'.bound = ms.bound
<1> DEFINE n == Len(frames)
<1>1. InLoop
  BY DEF EnterNest, AtEntry
<1>2. ms.pos \in Nat /\ size \in Nat /\ n \in Nat /\ n >= 1
  BY <1>1, EntryRead, StackLevels
<1>3. /\ Len(frames') = n + 1
      /\ \A j \in 1..(n - 1) : frames'[j] = frames[j]
      /\ frames'[n].from = Top.from /\ frames'[n].left = Top.left /\ frames'[n].inner = size
      /\ frames'[n + 1].from = ms.pos + 2 /\ frames'[n + 1].left = size
      /\ ms'.pos = ms.pos + 2 /\ ms'.bound = ms.bound
  BY EnterFrames
<1>4. Ahead' = <<ms.pos + 2, ms.pos + 2 + size, n>>
  <2>1. Top' = frames'[n + 1] /\ Len(frames') - 1 = n
    BY <1>2, <1>3 DEF Top
  <2>2. Top'.left = size
    BY <1>3, <2>1
  <2> HIDE DEF n
  <2> QED
    BY <1>3, <2>1, <2>2 DEF Ahead
<1>5. PICK m : m = n
  OBVIOUS
<1>6. Waiting(m)' = <<ms.pos + 2 + size, ms.pos + 2 + size + (Top.left - (2 + size)), n - 1>>
  <2>1. /\ frames'[m + 1].from = ms.pos + 2
        /\ frames'[m].inner = size /\ frames'[m].left = Top.left
    <3> HIDE DEF n
    <3> QED
      BY <1>3, <1>5
  <2> HIDE DEF n
  <2> QED
    BY <1>5, <2>1 DEF Waiting
<1>7. ASSUME NEW j \in 1..(n - 1) PROVE Waiting(j)' = Waiting(j)
  <2>1. frames'[j] = frames[j]
    BY <1>3
  <2>2. frames'[j + 1].from = frames[j + 1].from
    <3>1. CASE j + 1 = n
      BY <1>3, <3>1 DEF Top
    <3>2. CASE j + 1 # n
      <4>1. j + 1 \in 1..(n - 1)
        BY <1>2, <3>2
      <4> QED
        BY <1>3, <4>1
    <3> QED
      BY <3>1, <3>2
  <2> QED
    BY <2>1, <2>2 DEF Waiting
<1>8. Suspended' = {Waiting(m)'} \union Suspended
  <2>1. Len(frames') - 1 = n
    BY <1>2, <1>3
  <2>2. Suspended' = {Waiting(j)' : j \in 1..m}
    BY <1>5, <2>1 DEF Suspended
  <2>3. 1..n = {n} \union 1..(n - 1)
    BY <1>2
  <2>4. Suspended = {Waiting(j)' : j \in 1..(n - 1)}
    BY <1>7 DEF Suspended
  <2> HIDE DEF n
  <2> QED
    BY <1>5, <2>2, <2>3, <2>4
<1>9. Pending' = {Ahead'} \union ({Waiting(m)'} \union Suspended)
  BY <1>8 DEF Pending
<1>10. ms'.bound = ms.bound
  BY <1>3
<1> QED
  BY <1>4, <1>6, <1>9, <1>10

LEMMA EnterNestTracked == ASSUME IInv, Tracked, EnterNest PROVE Tracked'
<1> SUFFICES ASSUME FromStart' PROVE \E G : Tracks(words', ms'.bound, Pending', G)
  BY DEF Tracked
<1>1. /\ InLoop /\ ~Faulty /\ key \in FourCC /\ ms.nest_level < NestLimit
      /\ UNCHANGED <<buffer, flags, before>>
  BY DEF EnterNest, AtEntry
<1>2. FromStart
  BY <1>1 DEF FromStart, InLoop, Running
<1> DEFINE B == ms.bound  n == Len(frames)  i == ms.pos
           e == ms.pos + Top.left  b == i + 2 + size
           C == <<i + 2, b, n>>
           D == <<b, e, n - 1>>
           Q == {C, D} \union Suspended
<1>3. /\ i \in Nat /\ B \in Nat /\ n \in Nat /\ n >= 1 /\ Top.left \in Nat
      /\ ms.nest_level = n - 1
  BY <1>2, StackLevels
<1>4. size \in Nat
  BY <1>1, EntryRead
<1>5. /\ desc.ssize # 0 /\ size + 2 <= Top.left
  BY <1>1, <1>3, <1>4 DEF Faulty
<1>6. /\ b \in Nat /\ e \in Nat /\ b + (Top.left - (2 + size)) = e /\ b <= e
      /\ i + 2 <= b /\ i + 2 \in Nat
  <2>1. b \in Nat /\ e \in Nat /\ i + 2 <= b /\ i + 2 \in Nat
    BY <1>3, <1>4, SMTT(30)
  <2>2. b + (Top.left - (2 + size)) = e
    BY <1>3, <1>4, SMTT(30)
  <2>3. Top.left - (2 + size) \in Nat
    BY <1>3, <1>4, <1>5
  <2> HIDE DEF b, e
  <2> QED
    BY <2>1, <2>2, <2>3
<1>7. Pending' = Q /\ ms'.bound = B /\ words' = words
  BY <1>1, <1>2, <1>6, EnterPending DEF words, payload
<1>8. PICK G : Tracks(words, B, Pending, G)
  BY <1>2 DEF Tracked
<1> DEFINE H == G \union {C, D}
<1>9. <<i, e, n - 1>> \in G /\ Chart(B, G) /\ Suspended \subseteq G
  BY <1>8 DEF Tracks, Pending, Ahead
<1>10. e <= B /\ GoesOn(B, G, e)
  BY <1>9, SegmentNat
<1>11. Chart(B, H)
  <2>1. {C, D} \subseteq Segments
    BY <1>3, <1>6 DEF Segments
  <2>2. GoesOn(B, H, e)
    BY <1>10 DEF GoesOn
  <2> HIDE DEF b, e
  <2>3. GoesOn(B, H, b)
    <3>1. CASE b = e
      BY <2>2, <3>1
    <3>2. CASE b # e
      <4>1. D \in H /\ b < e
        BY <1>6, <3>2
      <4> HIDE DEF H
      <4> QED
        BY <4>1 DEF GoesOn
    <3> QED
      BY <3>1, <3>2
  <2>4. \A x, y, z : <<x, y, z>> \in {C, D} => x <= y /\ y <= B /\ GoesOn(B, H, y)
    <3>1. SUFFICES ASSUME NEW x, NEW y, NEW z, <<x, y, z>> = C \/ <<x, y, z>> = D
                   PROVE  x <= y /\ y <= B /\ GoesOn(B, H, y)
      OBVIOUS
    <3>2. (x = i + 2 /\ y = b) \/ (x = b /\ y = e)
      BY <3>1
    <3>3. b <= B
      BY <1>3, <1>6, <1>10
    <3> HIDE DEF H
    <3> QED
      BY <1>6, <1>10, <2>2, <2>3, <3>2, <3>3
  <2> QED
    BY <1>3, <1>9, <2>1, <2>4, ChartMore
<1>12. Judged(words, B, H, i, e, n - 1)
  <2>1. size = SizeAt(words, i) /\ desc = words[i + 1] /\ key = words[i].key
    BY DEF size, SizeAt, desc, key
  <2>2. words[i].key # END /\ words[i].key \in FourCC
    BY <1>1, <2>1, KeyAssumption
  <2>3. n - 1 < NestLimit /\ n - 1 + 1 = n
    BY <1>1, <1>3
  <2> HIDE DEF e, n
  <2> QED
    BY <1>5, <1>6, <2>1, <2>2, <2>3 DEF Judged
<1>13. \A x, y, z : <<x, y, z>> \in H /\ <<x, y, z>> \notin Q
                     /\ (<<x, y, z>> \in Pending \/ <<x, y, z>> \notin G)
                   => Judged(words, B, H, x, y, z)
  <2> SUFFICES ASSUME NEW x, NEW y, NEW z, <<x, y, z>> \in H, <<x, y, z>> \notin Q,
                      <<x, y, z>> \in Pending \/ <<x, y, z>> \notin G
               PROVE  Judged(words, B, H, x, y, z)
    OBVIOUS
  <2>1. <<x, y, z>> = <<i, e, n - 1>>
    BY DEF Pending, Ahead
  <2>2. x = i /\ y = e /\ z = n - 1
    BY <2>1
  <2> HIDE DEF H, i, e, n
  <2> QED
    BY <1>12, <2>2
<1>14. Q \subseteq H /\ G \subseteq H
  BY <1>9
<1> HIDE DEF H, Q
<1>15. Tracks(words, B, Q, H)
  BY <1>8, <1>11, <1>13, <1>14, TracksMore
<1> QED
  BY <1>7, <1>15

(* What a finished activation leaves of its segment is judged.              *)
LEMMA OverJudged ==
  ASSUME IInv, FromStart, Over, NEW G
  PROVE  Judged(words, ms.bound, G, ms.pos, ms.pos + Top.left, Len(frames) - 1)
<1>1. /\ ms.pos \in Nat /\ ms.bound \in Nat /\ Top.left \in Nat /\ Len(frames) \in Nat
      /\ ms.nest_level = Len(frames) - 1 /\ Len(frames) >= 1 /\ Running
  BY StackLevels DEF FromStart
<1>2. CASE InLoop
  <2>1. key \notin FourCC \union {END} /\ ms.nest_level = 0
    BY <1>2 DEF Over, Foreign, Misplaced
  <2>2. words[ms.pos].key \notin FourCC \union {END} /\ Len(frames) - 1 = 0
    BY <1>1, <2>1 DEF key
  <2> QED
    BY <2>2 DEF Judged
<1>3. CASE ~InLoop
  <2>1. ~(ms.pos + 1 < ms.bound) \/ ~(Top.left > 0)
    BY <1>1, <1>3 DEF InLoop, Running
  <2>2. ~(ms.pos + 1 < ms.bound) \/ ~(ms.pos < ms.pos + Top.left)
    BY <1>1, <2>1
  <2> QED
    BY <2>2 DEF Judged
<1> QED
  BY <1>2, <1>3

(* The stack after a nest is left: the padding behind it, k words, goes too *)
LEMMA ReturnFrames ==
  ASSUME IInv, Return
  PROVE  \E k, left \in Nat :
           LET n      == Len(frames)
               outer  == frames[n - 1]
               behind == Top.from + outer.inner
           IN /\ outer.left = 2 + outer.inner + left /\ k <= left
              /\ \A j \in 0..(k - 1) : words[behind + j].key = END
              /\ Len(frames') = n - 1
              /\ \A j \in 1..(n - 2) : frames'[j] = frames[j]
              /\ frames'[n - 1].from = outer.from /\ frames'[n - 1].inner = outer.inner
              /\ frames'[n - 1].left = left - k
              /\ frames'[n - 1].ret = IF Top.ret = UNKNOWN_TYPE THEN UNKNOWN_TYPE ELSE outer.ret
              /\ ms'.pos = behind + k /\ ms'.bound = ms.bound
              /\ device_count' = IF ms.nest_level - 1 = 0 THEN device_count + 1 ELSE device_count
<1> DEFINE n      == Len(frames)
           outer  == frames[n - 1]
           behind == Top.from + outer.inner
           left   == outer.left - (2 + outer.inner)
           k      == PaddingAt(words, behind, left, ms.bound)
           ret    == IF Top.ret = UNKNOWN_TYPE THEN Top.ret ELSE outer.ret
           f      == [outer EXCEPT !.left = left - k, !.ret = ret]
           level  == ms.nest_level - 1
<1>1. /\ Running /\ n > 1 /\ Usable(ms) /\ ms \in Stream
      /\ frames \in Seq(Frame) /\ n \in Nat
  BY DEF Return, Over, Running, IInv, CallKept, StreamFits, TypeOK, Usable
<1>2. /\ Top.from \in Nat /\ Top.ret \in {OK, UNKNOWN_TYPE}
      /\ outer \in Frame
  BY <1>1, TopFrame DEF IInv
<1>3. outer.left \in Nat /\ outer.inner \in Nat /\ outer.ret \in {OK, UNKNOWN_TYPE}
  BY <1>2 DEF Frame
<1>4. 2 + outer.inner <= outer.left
  BY <1>1 DEF IInv, CallKept, RoomToReturn
<1>5. left \in Nat /\ behind \in Nat /\ outer.left = 2 + outer.inner + left
  <2> HIDE DEF outer
  <2> QED
    BY <1>2, <1>3, <1>4
<1>6. /\ k \in 0..left
      /\ \A j \in 0..(k - 1) : words[behind + j].key = END
  <2>1. left \in Nat
    BY <1>5
  <2> HIDE DEF left, behind
  <2> QED
    BY <2>1, PaddingRun
<1>7. /\ ms' = [ms EXCEPT !.pos = behind + k, !.nest_level = level]
      /\ frames' = [Front(frames) EXCEPT ![n - 1] = f]
      /\ device_count' = IF level = 0 THEN device_count + 1 ELSE device_count
  BY DEF Return, Resumed
<1> HIDE DEF left, behind, k
<1>8. ret \in {OK, UNKNOWN_TYPE} /\ ret = IF Top.ret = UNKNOWN_TYPE THEN UNKNOWN_TYPE ELSE outer.ret
  BY <1>2, <1>3
<1> HIDE DEF ret
<1>9. left - k \in Nat /\ k \in Nat /\ k <= left /\ behind + k \in Nat
  BY <1>5, <1>6
<1>10. /\ f \in Frame /\ f.from = outer.from /\ f.inner = outer.inner
       /\ f.left = left - k /\ f.ret = ret
  <2>1. f \in Frame
    BY <1>2, <1>8, <1>9, Zenon DEF Frame
  <2>2. f.from = outer.from /\ f.inner = outer.inner /\ f.left = left - k /\ f.ret = ret
    BY <1>2 DEF Frame
  <2> QED
    BY <2>1, <2>2
<1> HIDE DEF f
<1>11. ms'.pos = behind + k /\ ms'.bound = ms.bound
  BY <1>1, <1>7 DEF Stream
<1>12. /\ Len(frames') = n - 1 /\ frames'[n - 1] = f
       /\ \A i \in 1..(n - 2) : frames'[i] = frames[i]
  <2>1. /\ Front(frames) \in Seq(Frame) /\ Len(Front(frames)) = n - 1
        /\ \A i \in 1..(n - 1) : Front(frames)[i] = frames[i]
    BY <1>1, FrontFrames
  <2>2. n - 1 \in 1..Len(Front(frames))
    BY <1>1, <2>1
  <2> HIDE DEF n
  <2> QED
    BY <1>1, <1>7, <1>10, <2>1, <2>2, ExceptSeq
<1>13. /\ frames'[n - 1].from = outer.from /\ frames'[n - 1].inner = outer.inner
       /\ frames'[n - 1].left = left - k
       /\ frames'[n - 1].ret = IF Top.ret = UNKNOWN_TYPE THEN UNKNOWN_TYPE ELSE outer.ret
  BY <1>8, <1>10, <1>12
<1> HIDE DEF outer, n
<1>14. PICK lf \in Nat : lf = left
  BY <1>5
<1>15. /\ outer.left = 2 + outer.inner + lf /\ k <= lf
       /\ \A j \in 0..(k - 1) : words[behind + j].key = END
       /\ Len(frames') = n - 1
       /\ \A j \in 1..(n - 2) : frames'[j] = frames[j]
       /\ frames'[n - 1].from = outer.from /\ frames'[n - 1].inner = outer.inner
       /\ frames'[n - 1].left = lf - k
       /\ frames'[n - 1].ret = IF Top.ret = UNKNOWN_TYPE THEN UNKNOWN_TYPE ELSE outer.ret
       /\ ms'.pos = behind + k /\ ms'.bound = ms.bound
       /\ device_count' = IF level = 0 THEN device_count + 1 ELSE device_count
  BY <1>5, <1>6, <1>7, <1>9, <1>11, <1>12, <1>13, <1>14
<1>16. k \in Nat
  BY <1>9
<1> QED
  BY <1>15, <1>16 DEF outer, n, behind, level

(* An inner activation returns: the outer one goes on behind the padding.   *)
LEMMA ReturnPending ==
  ASSUME IInv, FromStart, Return
  PROVE  \E b, k, left \in Nat, S \in SUBSET Suspended :
           /\ k <= left /\ \A j \in 0..(k - 1) : words[b + j].key = END
           /\ Suspended = {<<b, b + left, Len(frames) - 2>>} \union S
           /\ Pending' = {<<b + k, b + left, Len(frames) - 2>>} \union S
           /\ ms'.bound = ms.bound
<1> DEFINE n      == Len(frames)
           outer  == frames[n - 1]
           behind == Top.from + outer.inner
<1>1. n > 1 /\ n \in Nat
  BY StackLevels DEF Return, FromStart
<1>2. Top.from \in Nat /\ outer.left \in Nat /\ outer.inner \in Nat
  <2>1. outer \in Frame
    BY <1>1, TopFrame DEF FromStart, IInv
  <2> QED
    BY <2>1, StackLevels DEF FromStart, Frame
<1>3. PICK k, left \in Nat :
        /\ outer.left = 2 + outer.inner + left /\ k <= left
        /\ \A j \in 0..(k - 1) : words[behind + j].key = END
        /\ Len(frames') = n - 1
        /\ \A j \in 1..(n - 2) : frames'[j] = frames[j]
        /\ frames'[n - 1].from = outer.from /\ frames'[n - 1].left = left - k
        /\ ms'.pos = behind + k /\ ms'.bound = ms.bound
  BY ReturnFrames
<1>4. behind \in Nat /\ outer.left - (2 + outer.inner) = left
      /\ behind + k + (left - k) = behind + left
  <2> DEFINE L == outer.left  N == outer.inner  F == Top.from
  <2>1. L \in Nat /\ N \in Nat /\ F \in Nat /\ L = 2 + N + left
    BY <1>2, <1>3
  <2> HIDE DEF L, N, F
  <2>2. F + N \in Nat /\ L - (2 + N) = left /\ F + N + k + (left - k) = F + N + left
    BY <2>1
  <2> QED
    BY <2>2 DEF L, N, F
<1>5. Ahead' = <<behind + k, behind + left, n - 2>>
  <2>1. Top' = frames'[n - 1]
    BY <1>3 DEF Top
  <2>2. Len(frames') - 1 = n - 2
    BY <1>1, <1>3
  <2> QED
    BY <1>3, <1>4, <2>1, <2>2 DEF Ahead
<1> DEFINE S == {Waiting(j) : j \in 1..(n - 2)}
<1>6. Suspended = {Waiting(n - 1)} \union S
  <2>1. 1..(n - 1) = {n - 1} \union 1..(n - 2)
    BY <1>1
  <2>2. Suspended = {Waiting(j) : j \in 1..(n - 1)}
    BY DEF Suspended
  <2> HIDE DEF n
  <2> QED
    BY <2>1, <2>2
<1>7. Waiting(n - 1) = <<behind, behind + left, n - 2>>
  <2>1. n - 1 + 1 = n /\ n - 1 - 1 = n - 2
    BY <1>1
  <2> QED
    BY <1>4, <2>1 DEF Waiting, Top, behind
<1>8. ASSUME NEW j \in 1..(n - 2) PROVE Waiting(j)' = Waiting(j)
  <2>1. frames'[j] = frames[j]
    BY <1>3
  <2>2. frames'[j + 1].from = frames[j + 1].from
    <3>1. CASE j + 1 = n - 1
      BY <1>3, <3>1
    <3>2. CASE j + 1 # n - 1
      <4>1. j + 1 \in 1..(n - 2)
        BY <1>1, <3>2
      <4> QED
        BY <1>3, <4>1
    <3> QED
      BY <3>1, <3>2
  <2> QED
    BY <2>1, <2>2 DEF Waiting
<1>9. Suspended' = S
  <2>1. Len(frames') - 1 = n - 2
    BY <1>1, <1>3
  <2> QED
    BY <1>8, <2>1 DEF Suspended
<1>10. Pending' = {<<behind + k, behind + left, n - 2>>} \union S
  BY <1>5, <1>9 DEF Pending
<1>11. PICK R : R = S
  OBVIOUS
<1> HIDE DEF S, n
<1>12. Suspended = {<<behind, behind + left, n - 2>>} \union R
  BY <1>6, <1>7, <1>11
<1>13. Pending' = {<<behind + k, behind + left, n - 2>>} \union R
  BY <1>10, <1>11
<1>14. R \in SUBSET Suspended
  BY <1>12
<1> QED
  BY <1>3, <1>4, <1>12, <1>13, <1>14 DEF n

LEMMA ReturnTracked == ASSUME IInv, Tracked, Return PROVE Tracked'
<1> SUFFICES ASSUME FromStart' PROVE \E G : Tracks(words', ms'.bound, Pending', G)
  BY DEF Tracked
<1>1. Over /\ Len(frames) > 1 /\ UNCHANGED <<buffer, flags, before>>
  BY DEF Return, Resumed
<1>2. FromStart
  BY <1>1 DEF FromStart, Over, Running
<1> DEFINE B == ms.bound  n == Len(frames)  i == ms.pos
           a == ms.pos + Top.left
<1>3. i \in Nat /\ B \in Nat /\ n \in Nat /\ n >= 1
  BY <1>2, StackLevels
<1>4. PICK b, k, left \in Nat, S \in SUBSET Suspended :
        /\ k <= left /\ \A j \in 0..(k - 1) : words[b + j].key = END
        /\ Suspended = {<<b, b + left, Len(frames) - 2>>} \union S
        /\ Pending' = {<<b + k, b + left, Len(frames) - 2>>} \union S
        /\ ms'.bound = ms.bound
  BY <1>2, ReturnPending
<1> DEFINE e == b + left
           v == n - 2
           A == <<b + k, e, v>>
           Q == {A} \union S
<1>5. Pending' = Q /\ ms'.bound = B /\ words' = words
  BY <1>1, <1>4 DEF words, payload
<1>6. PICK G : Tracks(words, B, Pending, G)
  BY <1>2 DEF Tracked
<1>7. <<i, a, n - 1>> \in G /\ Chart(B, G) /\ S \subseteq G /\ <<b, e, v>> \in G
  BY <1>4, <1>6 DEF Tracks, Pending, Ahead
<1>8. b \in Nat /\ k \in Nat /\ e \in Nat /\ v \in Nat /\ b + k <= e
  BY <1>1, <1>3, <1>4
<1> DEFINE N == Padded(b, k, e, v)
           H == G \union N
<1>9. Chart(B, H) /\ A \in N
  <2> HIDE DEF e, v
  <2> QED
    BY <1>3, <1>7, <1>8, ChartPadded
<1>10. <<b, e, v>> \in N
  BY <1>8, PaddedFirst
<1>11. ASSUME NEW x, NEW y, NEW z, <<x, y, z>> \in N, <<x, y, z>> # A
       PROVE  Judged(words, B, H, x, y, z)
  <2>1. /\ \A j \in 0..(k - 1) : words[b + j].key = END
        /\ Padded(b, k, e, v) \subseteq H
        /\ <<x, y, z>> \in Padded(b, k, e, v) /\ <<x, y, z>> # <<b + k, e, v>>
    BY <1>4, <1>11
  <2> HIDE DEF H, e, v, B
  <2> QED
    BY <1>3, <1>8, <2>1, JudgedPadded
<1>12. Judged(words, B, H, i, a, n - 1)
  <2> HIDE DEF H
  <2> QED
    BY <1>1, <1>2, OverJudged
<1>13. \A x, y, z : <<x, y, z>> \in H /\ <<x, y, z>> \notin Q
                     /\ (<<x, y, z>> \in Pending \/ <<x, y, z>> \notin G)
                   => Judged(words, B, H, x, y, z)
  <2> SUFFICES ASSUME NEW x, NEW y, NEW z, <<x, y, z>> \in H, <<x, y, z>> \notin Q,
                      <<x, y, z>> \in Pending \/ <<x, y, z>> \notin G
               PROVE  Judged(words, B, H, x, y, z)
    OBVIOUS
  <2>1. <<x, y, z>> # A
    OBVIOUS
  <2>2. <<x, y, z>> \in N \/ <<x, y, z>> = <<i, a, n - 1>>
    BY <1>4, <1>10 DEF Pending, Ahead
  <2>3. CASE <<x, y, z>> \in N
    BY <1>11, <2>1, <2>3
  <2>4. CASE <<x, y, z>> = <<i, a, n - 1>>
    <3>1. x = i /\ y = a /\ z = n - 1
      BY <2>4
    <3> HIDE DEF H, i, a, n
    <3> QED
      BY <1>12, <3>1
  <2> QED
    BY <2>2, <2>3, <2>4
<1>14. Q \subseteq H /\ G \subseteq H
  BY <1>7, <1>9
<1> HIDE DEF H, Q
<1>15. Tracks(words, B, Q, H)
  BY <1>6, <1>9, <1>13, <1>14, TracksMore
<1> QED
  BY <1>5, <1>15

(* The whole payload is judged when the outermost activation is done.       *)
LEMMA AcceptJudges ==
  ASSUME IInv, Tracked, Accept, FromStart
  PROVE  Accepted(words, ms.bound)
<1>1. Over /\ Len(frames) = 1
  BY DEF Accept
<1>2. PICK G : Tracks(words, ms.bound, Pending, G)
  BY DEF Tracked
<1>3. Suspended = {}
  BY <1>1 DEF Suspended
<1>4. Judged(words, ms.bound, G, ms.pos, ms.pos + Top.left, Len(frames) - 1)
  BY <1>1, OverJudged
<1>5. ASSUME NEW i, NEW e, NEW v, <<i, e, v>> \in G PROVE Judged(words, ms.bound, G, i, e, v)
  <2>1. CASE <<i, e, v>> \notin Pending
    BY <1>2, <1>5, <2>1 DEF Tracks
  <2>2. CASE <<i, e, v>> \in Pending
    <3>1. <<i, e, v>> = <<ms.pos, ms.pos + Top.left, Len(frames) - 1>>
      BY <1>3, <2>2 DEF Pending, Ahead
    <3>2. i = ms.pos /\ e = ms.pos + Top.left /\ v = Len(frames) - 1
      BY <3>1
    <3> QED
      BY <1>4, <3>2
  <2> QED
    BY <2>1, <2>2
<1>6. Charted(words, ms.bound, G)
  BY <1>2, <1>5 DEF Tracks, Charted
<1> QED
  BY <1>6 DEF Accepted

LEMMA StepTracked == ASSUME IInv, Tracked, [Next]_vars PROVE Tracked'
<1>1. CASE \E how \in Flags : StartValidate(how)
  BY <1>1, StartTracked
<1>2. ASSUME frames' = << >> PROVE Tracked'
  BY <1>2 DEF Tracked, FromStart, Running
<1>3. CASE RefuseEntry \/ RefuseDepth \/ Accept
  BY <1>2, <1>3 DEF RefuseEntry, RefuseDepth, Refuse, Accept
<1>4. CASE (\E how \in {{}, {RECURSE}} : Walk(how)) \/ ResetState
  BY <1>2, <1>4 DEF Walk, ResetState
<1>5. CASE UNCHANGED vars
  BY <1>5 DEF vars, Tracked, FromStart, Running, Pending, Ahead, Suspended, Waiting, Top,
              words, payload
<1> QED
  BY <1>1, <1>3, <1>4, <1>5, StepOverTracked, EnterNestTracked, SkipEndsTracked, ReturnTracked
     DEF Next

-----------------------------------------------------------------------------
(* The walk of GPMF_Next over what was judged: on every open level what is  *)
(* left of the nest is a segment, and the outermost level ends where a row  *)
(* of DEVCs goes on.                                                        *)
RowEnds(w, B, e) == e = B \/ (e + 1 < B /\ w[e].key = DEVC)

Fits(w, B, G, pos, L, sizes, ends, lv) ==
  /\ ends[L] = pos + sizes[L] /\ <<pos, ends[L], lv[L]>> \in G
  /\ \A l \in 0..(L - 1) :
       ends[l] = ends[l + 1] + sizes[l] /\ <<ends[l + 1], ends[l], lv[l]>> \in G
  /\ \A l \in 0..L : lv[l] > l
  /\ RowEnds(w, B, ends[0])

OnPath(w, B, G, pos, L, sizes) ==
  \E ends, lv \in [Levels -> Nat] : Fits(w, B, G, pos, L, sizes, ends, lv)

(* At a DEVC of the row, the stream's own start included.                   *)
AtRow(w, B, G, pos, L, sizes) ==
  /\ L = 0 /\ sizes[0] = 0
  /\ pos + 1 < B /\ w[pos].key = DEVC
  /\ \E e, v : pos < e /\ <<pos, e, v>> \in G

Stuck(w, pos, L, sizes) == L > 0 /\ sizes[L] = 0 /\ pos > 0 /\ w[pos - 1].key = END

Reached(w, B, G, pos, L, sizes) ==
  \/ pos + 1 >= B
  \/ AtRow(w, B, G, pos, L, sizes)
  \/ /\ OnPath(w, B, G, pos, L, sizes)
     /\ sizes[L] = 0 => Stuck(w, pos, L, sizes)
     /\ sizes[L] # 0 => w[pos].key \in FourCC

Walkable(w, s, G) == Reached(w, s.bound, G, s.pos, s.nest_level, s.nest_size)

LEMMA RunJudged ==
  ASSUME NEW w, NEW B \in Nat, NEW G, Charted(w, B, G),
         NEW i, NEW e, NEW v, <<i, e, v>> \in G, NEW k \in Nat, i + k <= e,
         \A j \in 0..(k - 1) : i + j + 1 < B /\ w[i + j].key = END
  PROVE  <<i + k, e, v>> \in G
<1>1. i \in Nat /\ e \in Nat
  BY SegmentNat DEF Charted
<1> DEFINE S == {j \in 0..k : <<i + j, e, v>> \in G}
<1>2. 0 \in S
  BY <1>1
<1>3. PICK x \in S : \A y \in S : y <= x
  BY <1>2, BoundedMax
<1>4. CASE x = k
  BY <1>4
<1>5. CASE x # k
  <2>1. x \in 0..(k - 1) /\ <<i + x, e, v>> \in G
    BY <1>5
  <2>2. Judged(w, B, G, i + x, e, v)
    BY <2>1 DEF Charted
  <2>3. w[i + x].key = END /\ i + x < e /\ i + x + 1 < B
    BY <1>1, <2>1
  <2>4. <<i + x + 1, e, v>> \in G
    BY <2>2, <2>3 DEF Judged
  <2>5. x + 1 \in 0..k /\ i + (x + 1) = i + x + 1
    BY <1>1, <2>1
  <2>6. x + 1 \in S
    BY <2>4, <2>5
  <2> QED
    BY <1>3, <2>1, <2>6
<1> QED
  BY <1>4, <1>5

(* Padding skipped, and levels left that are used up.                       *)
LEMMA PathSkipped ==
  ASSUME NEW w, NEW B \in Nat, NEW G, Charted(w, B, G), NEW pos \in Nat, NEW L \in Levels,
         NEW sizes \in [Levels -> Nat], OnPath(w, B, G, pos, L, sizes),
         NEW k \in 0..sizes[L],
         \A j \in 0..(k - 1) : pos + j + 1 < B /\ w[pos + j].key = END
  PROVE  OnPath(w, B, G, pos + k, L, [sizes EXCEPT ![L] = @ - k])
<1> DEFINE less == [sizes EXCEPT ![L] = @ - k]
<1>1. PICK ends, lv \in [Levels -> Nat] : Fits(w, B, G, pos, L, sizes, ends, lv)
  BY DEF OnPath
<1>2. /\ sizes[L] \in Nat /\ k \in Nat /\ k <= sizes[L] /\ L \in Nat /\ L <= NestLimit
      /\ ends[L] = pos + sizes[L]
  BY <1>1, LimitAssumption DEF Levels, Slots, Fits
<1>3. <<pos + k, ends[L], lv[L]>> \in G
  <2>1. <<pos, ends[L], lv[L]>> \in G /\ pos + k <= ends[L]
    BY <1>1, <1>2 DEF Fits
  <2> QED
    BY <1>2, <2>1, RunJudged
<1>4. less[L] = sizes[L] - k /\ \A l \in 0..(L - 1) : less[l] = sizes[l]
  BY <1>2 DEF Levels, Slots
<1> HIDE DEF less
<1>5. ends[L] = pos + k + less[L]
  BY <1>2, <1>4
<1>6. Fits(w, B, G, pos + k, L, less, ends, lv)
  BY <1>1, <1>3, <1>4, <1>5 DEF Fits
<1>7. OnPath(w, B, G, pos + k, L, less)
  BY <1>6 DEF OnPath
<1> QED
  BY <1>7 DEF less

LEMMA PathPopped ==
  ASSUME NEW w, NEW B \in Nat, NEW G, NEW pos \in Nat, NEW L \in Levels,
         NEW sizes \in [Levels -> Nat], OnPath(w, B, G, pos, L, sizes),
         NEW top \in 0..L, \A l \in (top + 1)..L : sizes[l] = 0
  PROVE  OnPath(w, B, G, pos, top, sizes)
<1>1. PICK ends, lv \in [Levels -> Nat] : Fits(w, B, G, pos, L, sizes, ends, lv)
  BY DEF OnPath
<1>2. L \in Nat /\ L <= NestLimit /\ NestLimit \in Nat /\ top \in Nat /\ top <= L
  BY LimitAssumption DEF Levels, Slots
<1>3. CASE top = L
  BY <1>3
<1>4. CASE top # L
  <2> DEFINE S == {l \in (top + 1)..L : ends[l] # pos}
  <2>1. S = {}
    <3>1. SUFFICES ASSUME S # {} PROVE FALSE
      OBVIOUS
    <3>2. S \in SUBSET (0..L)
      BY <1>2
    <3>3. PICK x \in S : \A y \in S : y <= x
      BY <1>2, <3>1, <3>2, BoundedMax
    <3>4. x \in (top + 1)..L /\ x \in Nat /\ sizes[x] = 0 /\ ends[x] # pos
      BY <1>2, <3>3
    <3>5. CASE x = L
      BY <1>1, <3>4, <3>5 DEF Fits
    <3>6. CASE x # L
      <4>1. x \in 0..(L - 1) /\ x + 1 \in (top + 1)..L
        BY <1>2, <3>4, <3>6
      <4>2. x + 1 \notin S
        BY <3>3, <3>4
      <4>3. ends[x + 1] = pos
        BY <4>1, <4>2
      <4>4. ends[x] = ends[x + 1] + sizes[x]
        BY <1>1, <4>1 DEF Fits
      <4> QED
        BY <3>4, <4>3, <4>4
    <3> QED
      BY <3>5, <3>6
  <2>2. ends[top + 1] = pos /\ top \in 0..(L - 1)
    BY <1>2, <1>4, <2>1
  <2>3. ends[top] = pos + sizes[top] /\ <<pos, ends[top], lv[top]>> \in G
    BY <1>1, <2>2 DEF Fits
  <2>4. \A l \in 0..(top - 1) : l \in 0..(L - 1)
    BY <1>2
  <2>5. \A l \in 0..top : l \in 0..L
    BY <1>2
  <2>6. Fits(w, B, G, pos, top, sizes, ends, lv)
    BY <1>1, <2>3, <2>4, <2>5 DEF Fits
  <2> QED
    BY <2>6 DEF OnPath
<1> QED
  BY <1>3, <1>4

(* What the entry at the place holds against its level.                     *)
LEMMA EntryFits ==
  ASSUME NEW n \in Nat, NEW w \in [0..(n - 1) -> Word], NEW B \in Nat, B <= n,
         NEW G, Charted(w, B, G), NEW pos \in Nat, pos + 1 < B, w[pos].key \in FourCC,
         NEW e, NEW v, <<pos, e, v>> \in G, pos < e
  PROVE  LET b == pos + 2 + SizeAt(w, pos)
         IN /\ b \in Nat /\ b <= e /\ e \in Nat /\ e <= B
            /\ SizeAt(w, pos) \in Nat /\ w[pos + 1].ssize # 0
            /\ w[pos + 1].type = NEST =>
                 v \in Nat /\ v < NestLimit /\ <<pos + 2, b, v + 1>> \in G
            /\ <<b, e, v>> \in G
<1>1. Judged(w, B, G, pos, e, v)
  BY DEF Charted
<1>2. SizeAt(w, pos) \in Nat
  BY SizeNat
<1>3. e \in Nat /\ e <= B /\ v \in Nat
  BY SegmentNat DEF Charted
<1> QED
  BY <1>1, <1>2, <1>3 DEF Judged

(* An entry is stepped over, a nest is entered.                             *)
LEMMA PathStepped ==
  ASSUME NEW w, NEW B \in Nat, NEW G, NEW pos \in Nat, NEW L \in Levels,
         NEW sizes \in [Levels -> Nat], NEW long \in Nat, long + 2 <= sizes[L],
         NEW ends \in [Levels -> Nat], NEW lv \in [Levels -> Nat],
         Fits(w, B, G, pos, L, sizes, ends, lv), <<pos + 2 + long, ends[L], lv[L]>> \in G
  PROVE  OnPath(w, B, G, pos + long + 2, L, [sizes EXCEPT ![L] = @ - (long + 2)])
<1> DEFINE less == [sizes EXCEPT ![L] = @ - (long + 2)]
<1>1. /\ sizes[L] \in Nat /\ L \in Nat /\ L <= NestLimit /\ ends[L] = pos + sizes[L]
  BY LimitAssumption DEF Levels, Slots, Fits
<1>2. less[L] = sizes[L] - (long + 2) /\ \A l \in 0..(L - 1) : less[l] = sizes[l]
  BY <1>1 DEF Levels, Slots
<1> HIDE DEF less
<1>3. ends[L] = pos + long + 2 + less[L] /\ pos + long + 2 = pos + 2 + long
  BY <1>1, <1>2
<1>4. Fits(w, B, G, pos + long + 2, L, less, ends, lv)
  BY <1>2, <1>3 DEF Fits
<1>5. OnPath(w, B, G, pos + long + 2, L, less)
  BY <1>4 DEF OnPath
<1> QED
  BY <1>5 DEF less

LEMMA PathOpened ==
  ASSUME NEW w, NEW B \in Nat, NEW G, NEW pos \in Nat, NEW L \in Levels, L + 1 \in Levels,
         NEW sizes \in [Levels -> Nat], NEW long \in Nat, long + 2 <= sizes[L],
         NEW ends \in [Levels -> Nat], NEW lv \in [Levels -> Nat],
         Fits(w, B, G, pos, L, sizes, ends, lv), <<pos + 2 + long, ends[L], lv[L]>> \in G,
         <<pos + 2, pos + 2 + long, lv[L] + 1>> \in G
  PROVE  OnPath(w, B, G, pos + 2, L + 1,
                [[sizes EXCEPT ![L] = @ - (long + 2)] EXCEPT ![L + 1] = long])
<1> DEFINE now  == [[sizes EXCEPT ![L] = @ - (long + 2)] EXCEPT ![L + 1] = long]
           endz == [ends EXCEPT ![L + 1] = pos + 2 + long]
           lvz  == [lv EXCEPT ![L + 1] = lv[L] + 1]
<1>1. /\ sizes[L] \in Nat /\ L \in Nat /\ L + 1 <= NestLimit /\ ends[L] = pos + sizes[L]
      /\ lv[L] \in Nat /\ lv[L] > L
  BY LimitAssumption DEF Levels, Slots, Fits
<1>2. /\ now[L + 1] = long /\ now[L] = sizes[L] - (long + 2)
      /\ \A l \in 0..(L - 1) : now[l] = sizes[l]
  <2> DEFINE less == [sizes EXCEPT ![L] = sizes[L] - (long + 2)]
  <2>1. /\ DOMAIN less = Levels /\ less[L] = sizes[L] - (long + 2)
        /\ \A l \in 0..(L - 1) : less[l] = sizes[l]
    BY <1>1 DEF Levels, Slots
  <2>2. now = [less EXCEPT ![L + 1] = long]
    OBVIOUS
  <2>3. L # L + 1 /\ L \in Levels
    BY <1>1
  <2>4. \A l \in 0..(L - 1) : l \in Levels /\ l # L + 1
    BY <1>1, LimitAssumption DEF Levels, Slots
  <2> HIDE DEF less, now
  <2> QED
    BY <2>1, <2>2, <2>3, <2>4
<1>3. /\ endz \in [Levels -> Nat] /\ endz[L + 1] = pos + 2 + long
      /\ \A l \in 0..L : endz[l] = ends[l]
  BY <1>1 DEF Levels, Slots
<1>4. /\ lvz \in [Levels -> Nat] /\ lvz[L + 1] = lv[L] + 1
      /\ \A l \in 0..L : lvz[l] = lv[l]
  BY <1>1 DEF Levels, Slots
<1> HIDE DEF now, endz, lvz
<1>5. endz[L + 1] = pos + 2 + now[L + 1] /\ <<pos + 2, endz[L + 1], lvz[L + 1]>> \in G
  BY <1>2, <1>3, <1>4
<1>6. ASSUME NEW l \in 0..L
      PROVE  endz[l] = endz[l + 1] + now[l] /\ <<endz[l + 1], endz[l], lvz[l]>> \in G
  <2>1. CASE l = L
    <3>1. endz[l] = ends[L] /\ endz[l + 1] = pos + 2 + long /\ lvz[l] = lv[L]
          /\ now[l] = sizes[L] - (long + 2)
      BY <1>2, <1>3, <1>4, <2>1
    <3> QED
      BY <1>1, <3>1
  <2>2. CASE l # L
    <3>1. l \in 0..(L - 1) /\ l + 1 \in 0..L
      BY <1>1, <2>2
    <3>2. ends[l] = ends[l + 1] + sizes[l] /\ <<ends[l + 1], ends[l], lv[l]>> \in G
      BY <3>1 DEF Fits
    <3> QED
      BY <1>2, <1>3, <1>4, <3>1, <3>2
  <2> QED
    BY <2>1, <2>2
<1>7. ASSUME NEW l \in 0..(L + 1) PROVE lvz[l] > l
  <2>1. CASE l = L + 1
    BY <1>1, <1>4, <2>1
  <2>2. CASE l # L + 1
    <3>1. l \in 0..L
      BY <1>1, <2>2
    <3> QED
      BY <1>4, <3>1 DEF Fits
  <2> QED
    BY <2>1, <2>2
<1>8. RowEnds(w, B, endz[0])
  <2>1. 0 \in 0..L
    BY <1>1
  <2> QED
    BY <1>3, <2>1 DEF Fits
<1>9. Fits(w, B, G, pos + 2, L + 1, now, endz, lvz)
  <2> DEFINE M == L + 1  here == pos + 2
  <2>1. endz[M] = here + now[M] /\ <<here, endz[M], lvz[M]>> \in G
    BY <1>5
  <2>2. ASSUME NEW l \in 0..(M - 1)
        PROVE  endz[l] = endz[l + 1] + now[l] /\ <<endz[l + 1], endz[l], lvz[l]>> \in G
    <3>1. l \in 0..L
      BY <1>1
    <3> QED
      BY <1>6, <3>1
  <2>3. \A l \in 0..M : lvz[l] > l
    BY <1>7
  <2> HIDE DEF M, here
  <2>4. Fits(w, B, G, here, M, now, endz, lvz)
    BY <1>8, <2>1, <2>2, <2>3, Zenon DEF Fits
  <2> QED
    BY <2>4 DEF M, here
<1>10. OnPath(w, B, G, pos + 2, L + 1, now)
  BY <1>3, <1>4, <1>9 DEF OnPath
<1> QED
  BY <1>10 DEF now

(* A DEVC starts the path again.                                            *)
LEMMA PathStarted ==
  ASSUME NEW w, NEW B \in Nat, NEW G, NEW pos \in Nat, NEW v \in Nat,
         NEW sizes \in [Levels -> Nat], NEW long \in Nat,
         <<pos + 2, pos + 2 + long, v + 1>> \in G, RowEnds(w, B, pos + 2 + long)
  PROVE  OnPath(w, B, G, pos + 2, 0, [sizes EXCEPT ![0] = long])
<1> DEFINE ends == [l \in Levels |-> pos + 2 + long]
           lv   == [l \in Levels |-> v + 1]
           now  == [sizes EXCEPT ![0] = long]
<1>1. 0 \in Levels
  BY LimitAssumption DEF Levels, Slots
<1>2. /\ ends \in [Levels -> Nat] /\ lv \in [Levels -> Nat]
      /\ ends[0] = pos + 2 + long /\ lv[0] = v + 1 /\ now[0] = long
  BY <1>1
<1> HIDE DEF ends, lv, now
<1>3. 0..(0 - 1) = {} /\ 0..0 = {0}
  OBVIOUS
<1>4. Fits(w, B, G, pos + 2, 0, now, ends, lv)
  BY <1>2, <1>3 DEF Fits
<1>5. OnPath(w, B, G, pos + 2, 0, now)
  BY <1>2, <1>4 DEF OnPath
<1> QED
  BY <1>5 DEF now

Held(w, s) == Stuck(w, s.pos, s.nest_level, s.nest_size)

(* A place of the walk that is not held up is a right entry of its segment. *)
LEMMA EntryOfPath ==
  ASSUME NEW w, NEW s, Usable(s), NEW G, Charted(w, s.bound, G),
         Walkable(w, s, G), s.pos + 1 < s.bound, ~Held(w, s)
  PROVE  /\ w[s.pos].key \in FourCC
         /\ \E e, v : /\ <<s.pos, e, v>> \in G /\ s.pos < e
                      /\ AtRow(w, s.bound, G, s.pos, s.nest_level, s.nest_size)
                         \/ e = s.pos + Remaining(s)
<1> DEFINE B == s.bound  pos == s.pos  L == s.nest_level  sizes == s.nest_size
<1>1. /\ B \in Nat /\ pos \in Nat /\ L \in Levels /\ L \in Nat /\ sizes \in [Levels -> Nat]
      /\ Remaining(s) = sizes[L] /\ sizes[L] \in Nat
  BY UsableFields DEF Remaining
<1>2. CASE AtRow(w, B, G, pos, L, sizes)
  <2>1. w[pos].key \in FourCC
    BY <1>2, KeyAssumption DEF AtRow
  <2>2. \E e, v : pos < e /\ <<pos, e, v>> \in G
    BY <1>2 DEF AtRow
  <2> QED
    BY <1>2, <2>1, <2>2
<1>3. CASE ~AtRow(w, B, G, pos, L, sizes)
  <2>1. /\ OnPath(w, B, G, pos, L, sizes)
        /\ sizes[L] = 0 => Stuck(w, pos, L, sizes)
        /\ sizes[L] # 0 => w[pos].key \in FourCC
    BY <1>1, <1>3 DEF Walkable, Reached
  <2>2. sizes[L] # 0 /\ w[pos].key \in FourCC
    BY <2>1 DEF Held
  <2>3. PICK ends, lv \in [Levels -> Nat] : Fits(w, B, G, pos, L, sizes, ends, lv)
    BY <2>1 DEF OnPath
  <2>4. <<pos, ends[L], lv[L]>> \in G /\ ends[L] = pos + sizes[L]
    BY <2>3 DEF Fits
  <2>5. pos < ends[L]
    BY <1>1, <2>2, <2>4
  <2> QED
    BY <1>1, <2>2, <2>4, <2>5
<1> QED
  BY <1>2, <1>3

LEMMA EntryIsRight ==
  ASSUME NEW n \in Nat, NEW w \in [0..(n - 1) -> Word], NEW s, Usable(s), s.bound <= n,
         NEW G, Charted(w, s.bound, G), Walkable(w, s, G), s.pos + 1 < s.bound, ~Held(w, s)
  PROVE  /\ w[s.pos].key \in FourCC /\ w[s.pos + 1].ssize # 0
         /\ SizeAt(w, s.pos) \in Nat
         /\ IsValidSize(s, SizeAt(w, s.pos)) /\ NameFits(w, s)
<1>1. s.bound \in Nat /\ s.pos \in Nat /\ Remaining(s) \in Nat
  BY UsableFields
<1>2. w[s.pos].key \in FourCC
  BY EntryOfPath
<1>3. PICK e, v : /\ <<s.pos, e, v>> \in G /\ s.pos < e
                  /\ AtRow(w, s.bound, G, s.pos, s.nest_level, s.nest_size)
                     \/ e = s.pos + Remaining(s)
  BY EntryOfPath
<1>4. /\ s.pos + 2 + SizeAt(w, s.pos) <= e /\ e \in Nat /\ e <= s.bound
      /\ SizeAt(w, s.pos) \in Nat /\ w[s.pos + 1].ssize # 0
  <2> DEFINE B == s.bound  pos == s.pos
  <2>1. /\ B \in Nat /\ B <= n /\ Charted(w, B, G) /\ pos \in Nat /\ pos + 1 < B
        /\ w[pos].key \in FourCC /\ <<pos, e, v>> \in G /\ pos < e
    BY <1>1, <1>2, <1>3
  <2> HIDE DEF B, pos
  <2>2. /\ pos + 2 + SizeAt(w, pos) <= e /\ e \in Nat /\ e <= B
        /\ SizeAt(w, pos) \in Nat /\ w[pos + 1].ssize # 0
    BY <2>1, EntryFits, ZenonT(30)
  <2> QED
    BY <2>2 DEF B, pos
<1>5. IsValidSize(s, SizeAt(w, s.pos))
  <2>1. CASE AtRow(w, s.bound, G, s.pos, s.nest_level, s.nest_size)
    <3>1. Remaining(s) = 0 /\ s.nest_level = 0
      BY <2>1 DEF AtRow, Remaining
    <3>2. SizeAt(w, s.pos) + 2 <= s.bound
      BY <1>1, <1>4
    <3> QED
      BY <3>1, <3>2 DEF IsValidSize
  <2>2. CASE e = s.pos + Remaining(s)
    <3>1. SizeAt(w, s.pos) + 2 <= Remaining(s)
      BY <1>1, <1>4, <2>2
    <3>2. Remaining(s) # 0
      BY <1>1, <1>3, <2>2
    <3> QED
      BY <3>1, <3>2 DEF IsValidSize
  <2> QED
    BY <1>3, <2>1, <2>2
<1>6. NameFits(w, s)
  <2>1. NameLongs(w, s.pos) <= SizeAt(w, s.pos) /\ NameLongs(w, s.pos) \in Nat
    BY <1>4 DEF NameLongs, MaxNameLongs
  <2>2. s.pos + 1 + NameLongs(w, s.pos) < s.bound
    BY <1>1, <1>4, <2>1, SMTT(30)
  <2> QED
    BY <2>2 DEF NameFits
<1> QED
  BY <1>2, <1>4, <1>5, <1>6

LEMMA HeldIsInvalid ==
  ASSUME NEW w, NEW s, Usable(s), NEW long \in Nat, Held(w, s)
  PROVE  ~IsValidSize(s, long)
<1>1. Remaining(s) = 0 /\ s.nest_level # 0
  BY UsableFields DEF Held, Stuck, Remaining
<1> QED
  BY <1>1 DEF IsValidSize

LEMMA AdvanceOnPath ==
  ASSUME NEW n \in Nat, NEW w \in [0..(n - 1) -> Word], NEW s, Usable(s), s.bound <= n,
         NEW G, Charted(w, s.bound, G), WholeDevices(w, s.bound),
         Walkable(w, s, G), s.pos + 1 < s.bound, ~Held(w, s)
  PROVE  LET step == Advance(w, s, {RECURSE})
         IN /\ step.ret = OK /\ Usable(step.ms) /\ step.ms.bound = s.bound
            /\ OnPath(w, s.bound, G, step.ms.pos, step.ms.nest_level, step.ms.nest_size)
<1> DEFINE B == s.bound  pos == s.pos  L == s.nest_level  sizes == s.nest_size
           long == SizeAt(w, s.pos)
           step == Advance(w, s, {RECURSE})
           nest == w[pos + 1].type = NEST
<1>1. /\ B \in Nat /\ pos \in Nat /\ L \in Levels /\ L \in Nat /\ L <= NestLimit
      /\ sizes \in [Levels -> Nat] /\ s.last_level_pos \in [Slots -> Nat]
      /\ Remaining(s) = sizes[L] /\ sizes[L] \in Nat /\ NestLimit \in Nat
      /\ s \in Stream
  BY UsableFields, LimitAssumption DEF Remaining, Usable
<1>2. long \in Nat /\ w[pos].key \in FourCC
  BY EntryIsRight
<1>3. CASE AtDevice(w, s)
  <2>1. /\ L = 0 /\ w[pos].key = DEVC /\ nest
    BY <1>3 DEF AtDevice
  <2> DEFINE t == StartDevice(s, long, {RECURSE})
  <2>2. step = Result(OK, t)
    BY <1>3 DEF Advance
  <2>3. PICK e, v : <<pos, e, v>> \in G /\ pos < e
    BY EntryOfPath
  <2>4. v \in Nat /\ <<pos + 2, pos + 2 + long, v + 1>> \in G
    <3>1. /\ B \in Nat /\ B <= n /\ Charted(w, B, G) /\ pos \in Nat /\ pos + 1 < B
          /\ w[pos].key \in FourCC /\ w[pos + 1].type = NEST
      BY <1>1, <1>2, <2>1
    <3> HIDE DEF B, pos
    <3>2. v \in Nat /\ <<pos + 2, pos + 2 + SizeAt(w, pos), v + 1>> \in G
      BY <2>3, <3>1, EntryFits
    <3> QED
      BY <3>2 DEF pos
  <2>5. RowEnds(w, B, pos + 2 + long)
    <3>1. pos \in 0..(B - 2)
      BY <1>1
    <3> QED
      BY <2>1, <3>1 DEF WholeDevices, RowEnds
  <2>6. OnPath(w, B, G, pos + 2, 0, [sizes EXCEPT ![0] = long])
    <3> HIDE DEF long, B, pos, sizes
    <3> QED
      BY <1>1, <1>2, <2>4, <2>5, PathStarted
  <2>7. Usable(t) /\ t.bound = B
    BY <1>2, StartDeviceUsable
  <2>8. t.pos = pos + 2 /\ t.nest_level = 0 /\ t.nest_size = [sizes EXCEPT ![0] = long]
    <3>1. t = Booked(s, pos + 2 + 0, L, [s.last_level_pos EXCEPT ![0] = pos],
                     [sizes EXCEPT ![0] = long])
      BY StartDeviceBooked
    <3>2. pos + 2 + 0 = pos + 2
      BY <1>1
    <3> HIDE DEF t
    <3> QED
      BY <1>1, <2>1, <3>1, <3>2, BookedFields
  <2> HIDE DEF t, step
  <2>9. step.ret = OK /\ step.ms = t
    BY <2>2 DEF Result
  <2> QED
    BY <2>6, <2>7, <2>8, <2>9 DEF step
<1>4. CASE ~AtDevice(w, s)
  <2>1. ~AtRow(w, B, G, pos, L, sizes)
    <3>1. SUFFICES ASSUME AtRow(w, B, G, pos, L, sizes) PROVE FALSE
      OBVIOUS
    <3>2. L = 0 /\ w[pos].key = DEVC
      BY <3>1 DEF AtRow
    <3>3. pos \in 0..(B - 2)
      BY <1>1
    <3>4. nest
      BY <3>2, <3>3 DEF WholeDevices
    <3> QED
      BY <1>4, <3>2, <3>4 DEF AtDevice
  <2>2. OnPath(w, B, G, pos, L, sizes)
    BY <1>1, <2>1 DEF Walkable, Reached
  <2>3. PICK ends, lv \in [Levels -> Nat] : Fits(w, B, G, pos, L, sizes, ends, lv)
    BY <2>2 DEF OnPath
  <2>4. /\ <<pos, ends[L], lv[L]>> \in G /\ ends[L] = pos + sizes[L] /\ lv[L] > L
        /\ lv[L] \in Nat
    BY <1>1, <2>3 DEF Fits
  <2>5. sizes[L] # 0
    <3>1. sizes[L] = 0 => Held(w, s)
      BY <1>1, <2>1 DEF Walkable, Reached, Held
    <3> QED
      BY <3>1
  <2>6. pos < ends[L]
    BY <1>1, <2>4, <2>5, SMTT(30)
  <2>7. /\ pos + 2 + long <= ends[L] /\ <<pos + 2 + long, ends[L], lv[L]>> \in G
        /\ nest => lv[L] < NestLimit /\ <<pos + 2, pos + 2 + long, lv[L] + 1>> \in G
    <3> DEFINE e == ends[L]  v == lv[L]
    <3>1. /\ pos \in Nat /\ pos + 1 < B /\ <<pos, e, v>> \in G /\ pos < e
          /\ w[pos].key \in FourCC /\ B \in Nat /\ B <= n /\ Charted(w, B, G)
      BY <1>1, <1>2, <2>4, <2>6
    <3> HIDE DEF e, v, pos, B
    <3>2. /\ pos + 2 + SizeAt(w, pos) <= e /\ <<pos + 2 + SizeAt(w, pos), e, v>> \in G
          /\ w[pos + 1].type = NEST =>
               v < NestLimit /\ <<pos + 2, pos + 2 + SizeAt(w, pos), v + 1>> \in G
      BY <3>1, EntryFits, ZenonT(30)
    <3> QED
      BY <3>2 DEF e, v, pos
  <2>8. long + 2 <= sizes[L] /\ ~(long + 2 > Remaining(s))
    <3> HIDE DEF long, L, pos, sizes
    <3> QED
      BY <1>1, <1>2, <2>4, <2>7, SMTT(30)
  <2>9. CASE nest
    <3> DEFINE less == [sizes EXCEPT ![L] = @ - (long + 2)]
               now  == [less EXCEPT ![L + 1] = long]
               last == [s.last_level_pos EXCEPT ![L] = pos]
               t    == Booked(s, pos + 2, L + 1, last, now)
    <3>1. L + 1 \in Levels /\ ~(L + 1 > NestLimit)
      <4>1. lv[L] < NestLimit
        BY <2>7, <2>9
      <4> HIDE DEF L
      <4> QED
        BY <1>1, <2>4, <4>1, SMTT(30) DEF Levels, Slots
    <3>2. step = OpenNest(s, long)
      BY <1>4, <2>8, <2>9 DEF Advance
    <3>3. step = Result(OK, t)
      <4>1. OpenNest(s, long) = Result(OK, t)
        BY <3>1, OpenNestBooked
      <4> QED
        BY <3>2, <4>1
    <3>4. OnPath(w, B, G, pos + 2, L + 1, now)
      <4> HIDE DEF long, B, L, pos, sizes, nest
      <4> QED
        BY <1>1, <1>2, <2>3, <2>7, <2>8, <2>9, <3>1, PathOpened
    <3>5. step.ret = OK /\ step.ms = t
      <4> HIDE DEF t, step
      <4> QED
        BY <3>3 DEF Result
    <3>6. Usable(step.ms) /\ step.ms.bound = B
      BY <1>2, <2>8, <3>2, <3>5, OpenNestUsable
    <3>7. t.pos = pos + 2 /\ t.nest_level = L + 1 /\ t.nest_size = now
      <4> HIDE DEF now, last
      <4> QED
        BY <1>1, BookedFields, SMTT(30)
    <3> HIDE DEF t, step, now
    <3> QED
      BY <3>4, <3>5, <3>6, <3>7 DEF step
  <2>10. CASE ~nest
    <3> DEFINE less == [sizes EXCEPT ![L] = @ - (long + 2)]
               t    == StepOver(s, long)
    <3>1. step = Result(OK, t)
      BY <1>4, <2>8, <2>10 DEF Advance
    <3>2. OnPath(w, B, G, pos + long + 2, L, less)
      <4> HIDE DEF long, B, L, pos, sizes
      <4> QED
        BY <1>1, <1>2, <2>3, <2>7, <2>8, PathStepped
    <3>3. step.ret = OK /\ step.ms = t
      <4> HIDE DEF t, step
      <4> QED
        BY <3>1 DEF Result
    <3>4. Usable(t) /\ t.bound = B
      BY <1>2, <2>8, StepOverUsable
    <3>5. t.pos = pos + long + 2 /\ t.nest_level = L /\ t.nest_size = less
      <4>1. t = Booked(s, pos + long + 2, L, s.last_level_pos, less)
        BY StepOverBooked
      <4> HIDE DEF t, less
      <4> QED
        BY <1>1, <4>1, BookedFields
    <3> HIDE DEF t, step, less
    <3> QED
      BY <3>2, <3>3, <3>4, <3>5 DEF step
  <2> QED
    BY <2>9, <2>10
<1> QED
  BY <1>3, <1>4

(* A run of padding skipped: all of it, as far as the level and the limit.  *)
Skipped(w, s, limit, t) ==
  /\ Usable(t) /\ t.bound = s.bound /\ t.nest_level = s.nest_level
  /\ \E k \in 0..Remaining(s) :
       /\ t.pos = s.pos + k
       /\ t.nest_size = [s.nest_size EXCEPT ![s.nest_level] = @ - k]
       /\ \A j \in 0..(k - 1) : s.pos + j < limit /\ w[s.pos + j].key = END
       /\ k # Remaining(s) /\ s.pos + k < limit => w[s.pos + k].key # END

LEMMA SkippedRun ==
  ASSUME NEW w, NEW s, Usable(s), NEW limit
  PROVE  Skipped(w, s, limit, SkipPadding(w, s, limit))
<1> DEFINE t == SkipPadding(w, s, limit)
           k == PaddingAt(w, s.pos, Remaining(s), limit)
<1>1. Remaining(s) \in Nat /\ s \in Stream
  BY UsableFields DEF Usable
<1>2. Usable(t) /\ t.bound = s.bound
  BY SkipPaddingUsable
<1>3. /\ t.nest_level = s.nest_level /\ t.pos = s.pos + k
      /\ t.nest_size = [s.nest_size EXCEPT ![s.nest_level] = @ - k]
  <2>1. t = Booked(s, s.pos + k, s.nest_level, s.last_level_pos,
                   [s.nest_size EXCEPT ![s.nest_level] = @ - k])
    BY SkipPaddingBooked
  <2> HIDE DEF t, k
  <2> QED
    BY <1>1, <2>1, BookedFields
<1>4. /\ k \in 0..Remaining(s)
      /\ \A j \in 0..(k - 1) : s.pos + j < limit /\ w[s.pos + j].key = END
      /\ k = Remaining(s)
         \/ ~(\A j \in 0..(k + 1 - 1) : s.pos + j < limit /\ w[s.pos + j].key = END)
  BY <1>1, PaddingRun
<1> HIDE DEF t, k
<1>5. k # Remaining(s) /\ s.pos + k < limit => w[s.pos + k].key # END
  <2> SUFFICES ASSUME k # Remaining(s), s.pos + k < limit, w[s.pos + k].key = END PROVE FALSE
    OBVIOUS
  <2>1. ASSUME NEW j \in 0..(k + 1 - 1) PROVE s.pos + j < limit /\ w[s.pos + j].key = END
    <3>1. j = k \/ j \in 0..(k - 1)
      BY <1>1, <1>4
    <3> QED
      BY <1>4, <3>1
  <2> QED
    BY <1>4, <2>1
<1> QED
  BY <1>2, <1>3, <1>4, <1>5 DEF t, Skipped

LEMMA SettledOnPath ==
  ASSUME NEW w, NEW s, Usable(s), NEW G, Charted(w, s.bound, G),
         OnPath(w, s.bound, G, s.pos, s.nest_level, s.nest_size)
  PROVE  Walkable(w, Settle(w, s), G)
<1> DEFINE B     == s.bound
           one   == SkipPadding(w, s, B)
           two   == PopEmpty(one)
           three == SkipPadding(w, two, B - 1)
<1>1. B \in Nat /\ s.pos \in Nat /\ Remaining(s) \in Nat /\ Remaining(s) = s.nest_size[s.nest_level]
      /\ s.nest_level \in Levels /\ s.nest_size \in [Levels -> Nat]
  BY UsableFields DEF Remaining
<1>2. Skipped(w, s, B, one)
  BY SkippedRun
<1> HIDE DEF one
<1>3. Usable(one) /\ one.bound = B /\ one.nest_level = s.nest_level
  BY <1>2 DEF Skipped
<1>4. PICK k \in 0..Remaining(s) :
        /\ one.pos = s.pos + k
        /\ one.nest_size = [s.nest_size EXCEPT ![s.nest_level] = @ - k]
        /\ \A j \in 0..(k - 1) : s.pos + j < B /\ w[s.pos + j].key = END
  BY <1>2 DEF Skipped
<1>5. Usable(two) /\ two.bound = B
  BY <1>3, PopEmptyUsable
<1>6. PICK top \in 0..one.nest_level :
        /\ two = Booked(one, one.pos, top, one.last_level_pos, one.nest_size)
        /\ top = 0 \/ one.nest_size[top] # 0
        /\ \A l \in (top + 1)..one.nest_level : one.nest_size[l] = 0
  BY <1>3, PopEmptyBooked
<1>7. two.pos = one.pos /\ two.nest_level = top /\ two.nest_size = one.nest_size
  BY <1>3, <1>6, BookedFields DEF Usable
<1> HIDE DEF two
<1>8. Skipped(w, two, B - 1, three)
  BY <1>5, SkippedRun
<1> HIDE DEF three
<1>9. /\ Usable(three) /\ three.bound = B /\ three.nest_level = top
  BY <1>5, <1>7, <1>8 DEF Skipped
<1>10. PICK m \in 0..Remaining(two) :
        /\ three.pos = two.pos + m
        /\ three.nest_size = [two.nest_size EXCEPT ![two.nest_level] = @ - m]
        /\ \A j \in 0..(m - 1) : two.pos + j < B - 1 /\ w[two.pos + j].key = END
        /\ m # Remaining(two) /\ two.pos + m < B - 1 => w[two.pos + m].key # END
  BY <1>8 DEF Skipped
<1>11. /\ two.pos \in Nat /\ one.pos \in Nat /\ three.pos \in Nat /\ top \in Nat /\ top \in Levels
       /\ Remaining(two) = two.nest_size[top] /\ Remaining(two) \in Nat
      /\ one.nest_size \in [Levels -> Nat] /\ two.nest_size \in [Levels -> Nat]
      /\ one.nest_level \in Levels /\ one.nest_level \in Nat /\ m \in Nat /\ k \in Nat
  BY <1>3, <1>5, <1>7, <1>9, UsableFields DEF Remaining
<1>12. CASE one.pos >= B
  <2>1. three.pos + 1 >= B
    BY <1>1, <1>7, <1>10, <1>11, <1>12
  <2> QED
    BY <1>9, <2>1 DEF Settle, one, two, three, Walkable, Reached
<1>13. CASE ~(one.pos >= B)
  <2>1. OnPath(w, B, G, one.pos, s.nest_level, one.nest_size)
    <3>1. \A j \in 0..(k - 1) : s.pos + j + 1 < B /\ w[s.pos + j].key = END
      BY <1>1, <1>4, <1>11, <1>13
    <3>2. k \in 0..s.nest_size[s.nest_level]
      BY <1>1
    <3> HIDE DEF B
    <3>3. Charted(w, B, G) /\ OnPath(w, B, G, s.pos, s.nest_level, s.nest_size)
      BY DEF B
    <3>4. OnPath(w, B, G, s.pos + k, s.nest_level, [s.nest_size EXCEPT ![s.nest_level] = @ - k])
      BY <1>1, <3>1, <3>2, <3>3, PathSkipped
    <3> QED
      BY <1>4, <3>4
  <2>2. OnPath(w, B, G, two.pos, top, two.nest_size)
    <3>1. OnPath(w, B, G, one.pos, top, one.nest_size)
      BY <1>1, <1>3, <1>6, <1>11, <2>1, PathPopped
    <3> QED
      BY <1>7, <3>1
  <2>3. OnPath(w, B, G, three.pos, top, three.nest_size)
    <3>1. \A j \in 0..(m - 1) : two.pos + j + 1 < B /\ w[two.pos + j].key = END
      BY <1>1, <1>10, <1>11
    <3>2. m \in 0..two.nest_size[top]
      BY <1>11
    <3> HIDE DEF B
    <3>3. Charted(w, B, G)
      BY DEF B
    <3>4. OnPath(w, B, G, two.pos + m, top, [two.nest_size EXCEPT ![top] = @ - m])
      BY <1>1, <1>11, <2>2, <3>1, <3>2, <3>3, PathSkipped
    <3> QED
      BY <1>7, <1>10, <3>4
  <2> DEFINE p == three.pos  z == three.nest_size
  <2>4. z[top] = two.nest_size[top] - m /\ m <= two.nest_size[top] /\ z[top] \in Nat
    BY <1>7, <1>10, <1>11
  <2>5. PICK ends, lv \in [Levels -> Nat] : Fits(w, B, G, p, top, z, ends, lv)
    BY <2>3 DEF OnPath
  <2>6. /\ <<p, ends[top], lv[top]>> \in G /\ ends[top] = p + z[top] /\ lv[top] > top
        /\ lv[top] \in Nat /\ RowEnds(w, B, ends[0])
    BY <1>11, <2>5 DEF Fits
  <2>7. Reached(w, B, G, p, top, z)
    <3>1. CASE p + 1 >= B
      BY <3>1 DEF Reached
    <3>2. CASE ~(p + 1 >= B) /\ z[top] # 0
      <4>1. w[p].key # END
        BY <1>1, <1>10, <1>11, <2>4, <3>2
      <4>2. Judged(w, B, G, p, ends[top], lv[top])
        BY <2>6 DEF Charted
      <4>3. p < ends[top] /\ p + 1 < B /\ lv[top] # 0
        BY <1>1, <1>11, <2>4, <2>6, <3>2
      <4>4. w[p].key \in FourCC
        BY <4>1, <4>2, <4>3 DEF Judged
      <4> QED
        BY <2>3, <3>2, <4>4 DEF Reached
    <3>3. CASE ~(p + 1 >= B) /\ z[top] = 0 /\ top # 0
      <4>1. two.nest_size[top] # 0
        BY <1>6, <1>7, <3>3
      <4>2. m > 0 /\ m - 1 \in 0..(m - 1) /\ p - 1 = two.pos + (m - 1) /\ p > 0
        BY <1>10, <1>11, <2>4, <3>3, <4>1
      <4>3. w[p - 1].key = END
        BY <1>10, <4>2
      <4>4. Stuck(w, p, top, z)
        BY <1>11, <3>3, <4>2, <4>3 DEF Stuck
      <4> QED
        BY <2>3, <3>3, <4>4 DEF Reached
    <3>4. CASE ~(p + 1 >= B) /\ z[top] = 0 /\ top = 0
      <4>1. ends[0] = p
        BY <1>11, <2>6, <3>4
      <4>2. p + 1 < B /\ w[p].key = DEVC
        BY <1>1, <1>11, <2>6, <3>4, <4>1 DEF RowEnds
      <4>3. <<p, p, lv[0]>> \in G
        BY <2>6, <3>4, <4>1
      <4>4. GoesOn(B, G, p)
        BY <4>3, SegmentNat DEF Charted
      <4>5. \E e, v : p < e /\ <<p, e, v>> \in G
        BY <3>4, <4>4 DEF GoesOn
      <4>6. AtRow(w, B, G, p, top, z)
        BY <3>4, <4>2, <4>5 DEF AtRow
      <4> QED
        BY <4>6 DEF Reached
    <3> QED
      BY <3>1, <3>2, <3>3, <3>4
  <2>8. Walkable(w, three, G)
    BY <1>9, <2>7 DEF Walkable
  <2> QED
    BY <2>8 DEF Settle, one, two, three
<1> QED
  BY <1>1, <1>11, <1>12, <1>13

LEMMA LandOnPath ==
  ASSUME NEW n \in Nat, NEW w \in [0..(n - 1) -> Word], NEW s, Usable(s), s.bound <= n,
         NEW G, Charted(w, s.bound, G), Walkable(w, s, G), NEW r \in Land(w, s, {RECURSE})
  PROVE  IF r.ret = BAD THEN Held(w, r.ms) ELSE Walkable(w, r.ms, G)
<1>1. TOLERANT \notin {RECURSE}
  BY DEF TOLERANT, RECURSE
<1>2. \A x : Corrupt(w, x, {RECURSE}) = {Result(BAD, x)}
  BY <1>1 DEF Corrupt
<1>3. s.pos \in Nat /\ s.bound \in Nat
  BY UsableFields
<1>4. CASE s.pos + 1 >= s.bound
  <2>1. r = Result(BUFFER_END, s)
    BY <1>4 DEF Land
  <2> QED
    BY <2>1 DEF Result, BUFFER_END, BAD
<1>5. CASE ~(s.pos + 1 >= s.bound) /\ Held(w, s)
  <2> DEFINE noted == NoteDevice(w, s)
  <2>1. SizeAt(w, s.pos) \in Nat
    BY <1>3, <1>5, SizeNat
  <2>2. CASE w[s.pos].key = DVNM => NameFits(w, s)
    <3>1. /\ Usable(noted) /\ noted.bound = s.bound /\ noted.pos = s.pos
          /\ noted.nest_level = s.nest_level /\ noted.nest_size = s.nest_size
      BY <1>3, <1>5, <2>2, NoteDeviceUsable
    <3> HIDE DEF noted
    <3>2. Held(w, noted)
      BY <1>5, <3>1 DEF Held
    <3>3. ~IsValidSize(noted, SizeAt(w, s.pos))
      BY <2>1, <3>1, <3>2, HeldIsInvalid
    <3>4. r \in {Result(BAD, s), Result(UNKNOWN_TYPE, s), Result(BAD, noted)}
      BY <1>1, <1>2, <1>5, <2>2, <3>3 DEF Land, noted
    <3>5. \/ r.ret = BAD /\ r.ms \in {s, noted}
          \/ r.ret # BAD /\ r.ms = s
      BY <3>4 DEF Result, BAD, UNKNOWN_TYPE
    <3> QED
      BY <1>5, <3>2, <3>5
  <2>3. CASE ~(w[s.pos].key = DVNM => NameFits(w, s))
    <3>1. r \in {Result(BAD, s), Result(UNKNOWN_TYPE, s)}
      BY <1>1, <1>2, <1>5, <2>3 DEF Land
    <3>2. \/ r.ret = BAD /\ r.ms = s
          \/ r.ret # BAD /\ r.ms = s
      BY <3>1 DEF Result, BAD, UNKNOWN_TYPE
    <3> QED
      BY <1>5, <3>2
  <2> QED
    BY <2>2, <2>3
<1>6. CASE ~(s.pos + 1 >= s.bound) /\ ~Held(w, s)
  <2> DEFINE noted == NoteDevice(w, s)
  <2>1. /\ w[s.pos].key \in FourCC /\ w[s.pos + 1].ssize # 0
        /\ IsValidSize(s, SizeAt(w, s.pos)) /\ NameFits(w, s)
    BY <1>3, <1>6, EntryIsRight
  <2>2. /\ Usable(noted) /\ noted.bound = s.bound /\ noted.pos = s.pos
        /\ noted.nest_level = s.nest_level /\ noted.nest_size = s.nest_size
    BY <1>3, <1>6, <2>1, NoteDeviceUsable
  <2> HIDE DEF noted
  <2>3. IsValidSize(noted, SizeAt(w, s.pos))
    BY <2>1, <2>2 DEF IsValidSize, Remaining
  <2>4. r \in {Result(UNKNOWN_TYPE, s), Result(OK, noted)}
    BY <1>1, <1>6, <2>1, <2>3 DEF Land, noted
  <2>5. r.ret # BAD /\ r.ms \in {s, noted}
    BY <2>4 DEF Result, BAD, UNKNOWN_TYPE, OK
  <2>6. Walkable(w, noted, G)
    BY <2>2 DEF Walkable
  <2> QED
    BY <2>5, <2>6
<1> QED
  BY <1>4, <1>5, <1>6

(* A recursive pass over what was judged goes on, ends, or is held up by    *)
(* the padding behind an inner nest.                                        *)
LEMMA NextOnPath ==
  ASSUME NEW n \in Nat, NEW w \in [0..(n - 1) -> Word], NEW s, Usable(s), s.bound <= n,
         NEW G, Charted(w, s.bound, G), WholeDevices(w, s.bound), Walkable(w, s, G),
         NEW r \in GPMF_Next(w, s, {RECURSE})
  PROVE  IF r.ret = BAD THEN Held(w, r.ms) ELSE Walkable(w, r.ms, G)
<1>1. TOLERANT \notin {RECURSE}
  BY DEF TOLERANT, RECURSE
<1>2. \A x : Corrupt(w, x, {RECURSE}) = {Result(BAD, x)}
  BY <1>1 DEF Corrupt
<1>3. s.pos \in Nat /\ s.bound \in Nat
  BY UsableFields
<1>4. CASE s.pos + 1 >= s.bound
  <2>1. r = Result(BUFFER_END, s)
    BY <1>4 DEF GPMF_Next
  <2> QED
    BY <2>1 DEF Result, BUFFER_END, BAD
<1>5. CASE ~(s.pos + 1 >= s.bound) /\ Held(w, s)
  <2>1. SizeAt(w, s.pos) \in Nat
    BY <1>3, <1>5, SizeNat
  <2>2. ~IsValidSize(s, SizeAt(w, s.pos))
    BY <1>5, <2>1, HeldIsInvalid
  <2>3. r = Result(BAD, s)
    BY <1>2, <1>5, <2>2 DEF GPMF_Next
  <2> QED
    BY <1>5, <2>3 DEF Result
<1>6. CASE ~(s.pos + 1 >= s.bound) /\ ~Held(w, s)
  <2> DEFINE step == Advance(w, s, {RECURSE})
             t == Settle(w, step.ms)
  <2>1. IsValidSize(s, SizeAt(w, s.pos))
    BY <1>3, <1>6, EntryIsRight
  <2>2. s.pos + 1 < s.bound
    BY <1>3, <1>6
  <2>3. /\ step.ret = OK /\ Usable(step.ms) /\ step.ms.bound = s.bound
        /\ OnPath(w, s.bound, G, step.ms.pos, step.ms.nest_level, step.ms.nest_size)
    BY <1>6, <2>2, AdvanceOnPath
  <2>4. r \in Land(w, t, {RECURSE})
    BY <1>6, <2>1, <2>3 DEF GPMF_Next
  <2> HIDE DEF step
  <2>5. Walkable(w, t, G)
    BY <2>3, SettledOnPath
  <2>6. Usable(t) /\ t.bound = s.bound
    BY <2>3, SettleUsable
  <2> HIDE DEF t
  <2> QED
    BY <2>4, <2>5, <2>6, LandOnPath
<1> QED
  BY <1>4, <1>5, <1>6

-----------------------------------------------------------------------------
(* Where the walk is: while a validation runs, where it was started.        *)
Place == IF Running THEN before.ms ELSE ms

BadNext == answer = [by |-> "next", code |-> BAD]

WalkedOnPath ==
  deep /\ WholeDevices(words, ms.bound) =>
    \A G : Charted(words, ms.bound, G) =>
      /\ BadNext => lost /\ Held(words, ms)
      /\ ~lost => Walkable(words, Place, G)

VInv ==
  /\ IInv
  /\ words[0].key = DEVC
  /\ Tracked
  /\ vetted => Accepted(words, ms.bound)
  /\ BadNext => lost
  /\ WalkedOnPath

LEMMA WalkableSame ==
  ASSUME NEW w, NEW s, Usable(s), NEW t, NEW G, Walkable(w, s, G),
         t.bound = s.bound, t.pos = s.pos, t.nest_level = s.nest_level,
         \A l \in 0..s.nest_level : t.nest_size[l] = s.nest_size[l]
  PROVE  Walkable(w, t, G)
<1> DEFINE L == s.nest_level
<1>1. L \in Nat /\ L \in 0..L /\ 0 \in 0..L /\ \A l \in 0..(L - 1) : l \in 0..L
  BY UsableFields
<1>2. t.nest_size[L] = s.nest_size[L] /\ t.nest_size[0] = s.nest_size[0]
  BY <1>1
<1>3. OnPath(w, s.bound, G, s.pos, L, s.nest_size) => OnPath(w, s.bound, G, s.pos, L, t.nest_size)
  <2>1. ASSUME NEW ends, NEW lv, Fits(w, s.bound, G, s.pos, L, s.nest_size, ends, lv)
        PROVE  Fits(w, s.bound, G, s.pos, L, t.nest_size, ends, lv)
    <3>1. \A l \in 0..(L - 1) : t.nest_size[l] = s.nest_size[l]
      BY <1>1
    <3> HIDE DEF L
    <3> QED
      BY <1>2, <2>1, <3>1 DEF Fits
  <2> HIDE DEF L
  <2> QED
    BY <2>1 DEF OnPath
<1> HIDE DEF L
<1>4. Reached(w, s.bound, G, s.pos, L, s.nest_size) => Reached(w, s.bound, G, s.pos, L, t.nest_size)
  BY <1>2, <1>3 DEF Reached, AtRow, Stuck
<1> QED
  BY <1>4 DEF Walkable, L

(* The start of the stream is on the row.                                   *)
LEMMA StartWalkable ==
  ASSUME NEW w, NEW s, Usable(s), w[0].key = DEVC, NEW G, Chart(s.bound, G),
         s.pos = 0, s.nest_level = 0, s.nest_size[0] = 0
  PROVE  Walkable(w, s, G)
<1>1. s.bound \in Nat
  BY UsableFields
<1>2. CASE s.bound <= 1
  BY <1>1, <1>2 DEF Walkable, Reached
<1>3. CASE ~(s.bound <= 1)
  <2>1. 0 < s.bound /\ 0 + 1 < s.bound /\ <<0, s.bound, 0>> \in G
    BY <1>1, <1>3 DEF Chart
  <2>2. AtRow(w, s.bound, G, 0, 0, s.nest_size)
    BY <2>1 DEF AtRow
  <2> QED
    BY <2>2 DEF Walkable, Reached
<1> QED
  BY <1>2, <1>3

LEMMA BoundKept == ASSUME IInv, [Next]_vars PROVE ms'.bound = ms.bound
<1>1. ms \in Stream
  BY DEF IInv, StreamFits
<1>2. ASSUME NEW inner \in Stream, Refuse(inner) PROVE ms'.bound = inner.bound
  BY <1>2 DEF Refuse, Stream
<1>3. CASE RefuseEntry
  BY <1>1, <1>2, <1>3 DEF RefuseEntry
<1>4. CASE RefuseDepth
  <2> DEFINE inner == [ms EXCEPT !.pos = @ + 2, !.nest_level = @ + 1]
  <2>1. Refuse(inner) /\ inner.bound = ms.bound
    BY <1>1, <1>4 DEF RefuseDepth, Stream
  <2> HIDE DEF inner
  <2> QED
    BY <2>1 DEF Refuse
<1>5. CASE \E how \in Flags : StartValidate(how)
  BY <1>5 DEF StartValidate
<1>6. CASE StepOverEntry \/ SkipEnds \/ EnterNest \/ Accept \/ Return
  BY <1>1, <1>6 DEF StepOverEntry, SkipEnds, EnterNest, Accept, Return, Resumed, Stream
<1>7. CASE \E how \in {{}, {RECURSE}} : Walk(how)
  <2>1. PICK how \in {{}, {RECURSE}} : Walk(how)
    BY <1>7
  <2>2. Usable(ms)
    BY <2>1 DEF Walk, IInv, StreamFits
  <2>3. payload.longs \in Nat /\ words \in [0..(payload.longs - 1) -> Word]
        /\ ms.bound <= payload.longs
    BY PayloadReads DEF IInv, StreamFits
  <2>4. PICK r \in GPMF_Next(words, ms, how) : ms' = r.ms
    BY <2>1 DEF Walk
  <2> QED
    BY <2>2, <2>3, <2>4, NextUsable
<1>8. CASE ResetState
  BY <1>1, <1>8, RewoundUsable DEF ResetState
<1>9. CASE UNCHANGED vars
  BY <1>9 DEF vars
<1> QED
  BY <1>3, <1>4, <1>5, <1>6, <1>7, <1>8, <1>9 DEF Next

(* A turn or the return of an inner activation does not end the call.       *)
LEMMA StillRunning ==
  ASSUME IInv, StepOverEntry \/ SkipEnds \/ EnterNest \/ Return
  PROVE  /\ Running /\ Running'
         /\ UNCHANGED <<buffer, lost, before, answer, vetted, deep>>
<1>1. frames \in Seq(Frame) /\ Len(frames) \in Nat
  BY DEF IInv, TypeOK
<1>2. CASE StepOverEntry \/ SkipEnds \/ EnterNest
  BY <1>1, <1>2 DEF StepOverEntry, AtEntry, SkipEnds, EnterNest, InLoop, Running
<1>3. CASE Return
  <2>1. Len(frames) > 1 /\ DOMAIN frames' = DOMAIN Front(frames)
    BY <1>3 DEF Return, Resumed
  <2>2. Front(frames) \in Seq(Frame) /\ Len(Front(frames)) = Len(frames) - 1
    BY <1>1, <2>1, FrontFrames
  <2>3. 1 \in DOMAIN Front(frames)
    BY <1>1, <2>1, <2>2
  <2>4. frames' # << >>
    BY <2>1, <2>3
  <2> QED
    BY <1>3, <2>4 DEF Return, Resumed, Over, Running
<1> QED
  BY <1>2, <1>3

LEMMA BeganWalkable == ASSUME Init PROVE VInv
<1>1. IInv /\ Usable(ms) /\ ms.bound = ChainEnd
  <2>1. IInv
    BY InitKept
  <2>2. Usable(ms)
    BY <2>1 DEF Init, IInv, StreamFits
  <2>3. ms.bound = ChainEnd
    BY OpenedUsable DEF Init
  <2> QED
    BY <2>1, <2>2, <2>3
<1>2. ~Running /\ Place = ms /\ ~BadNext /\ ~vetted /\ words[0].key = DEVC
  BY DEF Init, Running, Place, BadNext
<1>3. Tracked
  BY <1>2 DEF Tracked, FromStart
<1>4. ms.pos = 0 /\ ms.nest_level = 0 /\ ms.nest_size[0] = 0
  BY LimitAssumption DEF Init, Opened, Blank, Levels
<1>5. WalkedOnPath
  BY <1>1, <1>2, <1>4, StartWalkable DEF WalkedOnPath, Charted
<1> QED
  BY <1>1, <1>2, <1>3, <1>5 DEF VInv

LEMMA WalkedAfterPass ==
  ASSUME VInv, NEW how \in {{}, {RECURSE}}, Walk(how)
  PROVE  WalkedOnPath' /\ (BadNext' => lost')
<1>1. /\ frames = << >> /\ ~lost /\ Usable(ms)
      /\ UNCHANGED <<buffer, frames>> /\ deep' = (deep /\ how = {RECURSE})
  BY DEF Walk, VInv, IInv, StreamFits
<1>2. payload.longs \in Nat /\ words \in [0..(payload.longs - 1) -> Word]
      /\ ms.bound <= payload.longs
  BY PayloadReads DEF VInv, IInv, StreamFits
<1>3. PICK r \in GPMF_Next(words, ms, how) :
        ms' = r.ms /\ lost' = (r.ret = BAD) /\ answer' = [by |-> "next", code |-> r.ret]
  BY DEF Walk
<1>4. BadNext' => lost'
  BY <1>3 DEF BadNext
<1>5. ms'.bound = ms.bound /\ words' = words
  BY <1>1, <1>2, <1>3, NextUsable DEF words, payload
<1>6. Place = ms /\ Place' = ms'
  BY <1>1 DEF Place, Running
<1>7. ASSUME deep', WholeDevices(words, ms.bound), NEW G, Charted(words, ms.bound, G)
      PROVE  IF lost' THEN Held(words, ms') ELSE Walkable(words, ms', G)
  <2>1. deep /\ how = {RECURSE}
    BY <1>1, <1>7
  <2>2. Walkable(words, ms, G)
    BY <1>1, <1>6, <1>7, <2>1 DEF VInv, WalkedOnPath
  <2>3. IF r.ret = BAD THEN Held(words, r.ms) ELSE Walkable(words, r.ms, G)
    BY <1>1, <1>2, <1>7, <2>1, <2>2, NextOnPath
  <2> QED
    BY <1>3, <2>3
<1>8. WalkedOnPath'
  BY <1>4, <1>5, <1>6, <1>7 DEF WalkedOnPath
<1> QED
  BY <1>4, <1>8

LEMMA WalkedAfterReset == ASSUME VInv, ResetState PROVE WalkedOnPath' /\ (BadNext' => lost')
<1>1. /\ frames = << >> /\ ms' = Rewound(ms) /\ lost' = FALSE
      /\ answer' = [by |-> "reset", code |-> OK] /\ UNCHANGED <<buffer, frames>>
  BY DEF ResetState
<1>2. ms \in Stream
  BY DEF VInv, IInv, StreamFits
<1>3. Usable(ms') /\ ms'.bound = ms.bound
  BY <1>1, <1>2, RewoundUsable
<1>4. ms'.pos = 0 /\ ms'.nest_level = 0 /\ ms'.nest_size[0] = 0
  <2>1. ms.nest_size \in [Levels -> Nat] /\ 0 \in Levels
    BY <1>2, LimitAssumption DEF Stream, Levels
  <2> QED
    BY <1>1, <1>2, <2>1 DEF Rewound, Stream
<1>5. Place' = ms' /\ ~BadNext' /\ words' = words /\ words[0].key = DEVC
  BY <1>1 DEF Place, Running, BadNext, words, payload, VInv
<1>6. \A G : Charted(words, ms'.bound, G) => Walkable(words, ms', G)
  BY <1>3, <1>4, <1>5, StartWalkable DEF Charted
<1> QED
  BY <1>1, <1>5, <1>6 DEF WalkedOnPath

(* Validation leaves the walk where it was.                                 *)
LEMMA WalkedAfterTurn ==
  ASSUME VInv, StepOverEntry \/ SkipEnds \/ EnterNest \/ Return
  PROVE  WalkedOnPath' /\ (BadNext' => lost')
<1>1. Running /\ Running' /\ UNCHANGED <<buffer, lost, before, answer, vetted, deep>>
  BY StillRunning DEF VInv
<1>2. ms'.bound = ms.bound /\ words' = words /\ Place' = Place
  BY <1>1, BoundKept DEF VInv, words, payload, Place, Next
<1>3. ~lost /\ ~BadNext
  BY <1>1 DEF VInv, IInv, CallKept
<1> QED
  BY <1>1, <1>2, <1>3 DEF VInv, WalkedOnPath, BadNext

LEMMA WalkedAfterStart ==
  ASSUME VInv, NEW how \in Flags, StartValidate(how)
  PROVE  WalkedOnPath' /\ (BadNext' => lost')
<1>1. /\ frames = << >> /\ frames' = <<NewFrame(ms)>> /\ before'.ms = ms /\ ~lost
      /\ UNCHANGED <<buffer, ms, lost, answer, deep>>
  BY DEF StartValidate
<1>2. frames' # << >>
  BY <1>1
<1>3. Place' = Place /\ words' = words
  BY <1>1, <1>2 DEF Place, Running, words, payload
<1> QED
  BY <1>1, <1>3 DEF VInv, WalkedOnPath, BadNext

LEMMA WalkedAfterAccept == ASSUME VInv, Accept PROVE WalkedOnPath' /\ (BadNext' => lost')
<1>1. /\ Running /\ frames' = << >> /\ UNCHANGED <<buffer, lost, deep>>
      /\ answer' = [by |-> "validate", code |-> Top.ret]
  BY DEF Accept, Over, Running
<1>2. ~lost /\ Usable(before.ms) /\ SameBooks
  BY <1>1 DEF VInv, IInv, CallKept
<1>3. ~BadNext' /\ Place = before.ms /\ Place' = ms' /\ words' = words
  BY <1>1 DEF BadNext, Place, Running, words, payload
<1>4. Top.ret \in {OK, UNKNOWN_TYPE}
  BY <1>1, TopFrame DEF VInv, IInv
<1>5. Next /\ Validated /\ answer'.code # BAD
  BY <1>1, <1>4 DEF Next, Validated, Running, OK, UNKNOWN_TYPE, BAD
<1>6. /\ [ms' EXCEPT !.nest_size = before.ms.nest_size] = before.ms
      /\ \A l \in 0..ms'.nest_level : ms'.nest_size[l] = before.ms.nest_size[l]
  BY <1>5, StreamPutBack DEF VInv
<1>7. /\ ms'.bound = before.ms.bound /\ ms'.pos = before.ms.pos
      /\ ms'.nest_level = before.ms.nest_level
  <2>1. LET t == [ms' EXCEPT !.nest_size = before.ms.nest_size]
        IN t.bound = ms'.bound /\ t.pos = ms'.pos /\ t.nest_level = ms'.nest_level
    <3>1. ms' \in Stream
      BY <1>5, StepKept DEF VInv, IInv, StreamFits
    <3> QED
      BY <3>1 DEF Stream
  <2> QED
    BY <1>6, <2>1
<1>8. ms.bound = before.ms.bound
  BY <1>2 DEF SameBooks
<1>9. \A G : Walkable(words, before.ms, G) => Walkable(words, ms', G)
  BY <1>2, <1>6, <1>7, WalkableSame
<1> QED
  BY <1>1, <1>2, <1>3, <1>7, <1>8, <1>9 DEF VInv, WalkedOnPath

LEMMA WalkedKept == ASSUME VInv, [Next]_vars PROVE WalkedOnPath' /\ (BadNext' => lost')
<1>1. CASE RefuseEntry \/ RefuseDepth
  <2>1. lost' /\ answer' = [by |-> "validate", code |-> BAD]
    BY <1>1 DEF RefuseEntry, RefuseDepth, Refuse
  <2> QED
    BY <2>1 DEF WalkedOnPath, BadNext
<1>2. CASE UNCHANGED vars
  BY <1>2 DEF vars, VInv, WalkedOnPath, BadNext, Place, Running, words, payload
<1>3. CASE \E how \in Flags : StartValidate(how)
  BY <1>3, WalkedAfterStart
<1>4. CASE \E how \in {{}, {RECURSE}} : Walk(how)
  BY <1>4, WalkedAfterPass
<1> QED
  BY <1>1, <1>2, <1>3, <1>4, WalkedAfterReset, WalkedAfterTurn, WalkedAfterAccept DEF Next

LEMMA VettedKept ==
  ASSUME VInv, [Next]_vars, vetted'
  PROVE  Accepted(words', ms'.bound)
<1>1. ms'.bound = ms.bound
  BY BoundKept DEF VInv
<1>2. UNCHANGED buffer
  BY DEF Next, StartValidate, RefuseEntry, RefuseDepth, Refuse, StepOverEntry, EnterNest,
         SkipEnds, Accept, Return, Resumed, Walk, ResetState, vars
<1>3. words' = words
  BY <1>2 DEF words, payload
<1>4. CASE vetted
  BY <1>1, <1>3, <1>4 DEF VInv
<1>5. CASE ~vetted
  <2>1. Accept
    BY <1>5 DEF Next, StartValidate, RefuseEntry, RefuseDepth, Refuse, StepOverEntry, EnterNest,
                SkipEnds, Return, Resumed, Walk, ResetState, vars
  <2>2. FromStart
    BY <1>5, <2>1 DEF Accept, Over, FromStart, Running
  <2>3. Accepted(words, ms.bound)
    BY <2>1, <2>2, AcceptJudges DEF VInv
  <2> QED
    BY <1>1, <1>3, <2>3
<1> QED
  BY <1>4, <1>5

LEMMA VStepKept == ASSUME VInv, [Next]_vars PROVE VInv'
<1>1. IInv'
  BY StepKept DEF VInv
<1>2. Tracked'
  BY StepTracked DEF VInv
<1>3. UNCHANGED buffer
  BY DEF Next, StartValidate, RefuseEntry, RefuseDepth, Refuse, StepOverEntry, EnterNest,
         SkipEnds, Accept, Return, Resumed, Walk, ResetState, vars
<1>4. words'[0].key = DEVC
  BY <1>3 DEF VInv, words, payload
<1>5. WalkedOnPath' /\ (BadNext' => lost')
  BY WalkedKept
<1>6. vetted' => Accepted(words', ms'.bound)
  BY VettedKept
<1> QED
  BY <1>1, <1>2, <1>4, <1>5, <1>6 DEF VInv

(* What GPMF_Validate accepts, recursively and from the start, GPMF_Next    *)
(* walks: for every payload whose DEVCs are a row of nests, a recursive     *)
(* walk that reports a bad structure stands on the padding behind an inner  *)
(* nest that its own nest ends with.                                        *)
THEOREM VettedIsWalked == Spec => []VettedWalks
<1>1. VInv => VettedWalks
  <2> SUFFICES ASSUME VInv, WholeDevices(words, ms.bound), vetted, deep, BadNext
               PROVE  PaddedOut
    BY DEF VettedWalks, WalksOn, BadNext
  <2>1. PICK G : Charted(words, ms.bound, G)
    BY DEF VInv, Accepted
  <2>2. Held(words, ms)
    BY <2>1 DEF VInv, WalkedOnPath
  <2> QED
    BY <2>2 DEF Held, Stuck, PaddedOut, Remaining
<1>2. Init => VInv
  BY BeganWalkable
<1>3. VInv /\ [Next]_vars => VInv'
  BY VStepKept
<1> QED
  BY <1>1, <1>2, <1>3, PTL DEF Spec

-----------------------------------------------------------------------------
(* A set of naturals has a least member.                                    *)
LEMMA LeastOf ==
  ASSUME NEW S \in SUBSET Nat, S # {}
  PROVE  \E x \in S : \A y \in S : x <= y
<1> DEFINE R == OpToRel(<, Nat)
<1>1. IsWellFoundedOn(R, Nat)
  BY NatLessThanWellFounded
<1> HIDE DEF R
<1>2. PICK x \in S : \A y \in S : <<y, x>> \notin R
  BY <1>1, WFMin
<1>3. \A y \in S : ~(y < x)
  BY <1>2 DEF R, OpToRel
<1> QED
  BY <1>3

Ascends(f, goes, next) == \A i \in Nat : f[i] = IF i \in goes THEN f[next[i]] ELSE i

(* Upwards from a word, whatever looks further up has a value: a recursion  *)
(* that only goes up, and ends at word N, is a function.                    *)
LEMMA UpwardRecursion ==
  ASSUME NEW N \in Nat, NEW goes \in SUBSET Nat, NEW next \in [Nat -> Nat],
         \A i \in goes : i < N /\ i < next[i]
  PROVE  \E f \in [Nat -> Nat] : Ascends(f, goes, next)
<1> DEFINE Right(f, i) == f[i] = IF i \in goes THEN f[next[i]] ELSE i
           S == {m \in Nat : \E f \in [Nat -> Nat] : \A i \in Nat : m <= i => Right(f, i)}
<1>1. N \in S
  <2> DEFINE f == [i \in Nat |-> i]
  <2>1. f \in [Nat -> Nat] /\ \A i \in Nat : N <= i => Right(f, i)
    OBVIOUS
  <2> HIDE DEF f, Right
  <2> QED
    BY <2>1
<1>2. PICK m \in S : \A y \in S : m <= y
  <2> S \in SUBSET Nat
    OBVIOUS
  <2> HIDE DEF S
  <2> QED
    BY <1>1, LeastOf
<1>3. m \in Nat
  OBVIOUS
<1>4. PICK f \in [Nat -> Nat] : \A i \in Nat : m <= i => Right(f, i)
  OBVIOUS
<1>5. ASSUME m # 0 PROVE FALSE
  <2> DEFINE k == m - 1
             v == IF k \in goes THEN f[next[k]] ELSE k
             g == [f EXCEPT ![k] = v]
  <2>1. k \in Nat /\ ~(m <= k) /\ \A i \in Nat : k <= i => i = k \/ m <= i
    BY <1>3, <1>5
  <2>2. v \in Nat
    BY <2>1
  <2> HIDE DEF v
  <2>3. g \in [Nat -> Nat] /\ g[k] = v /\ \A i \in Nat : i # k => g[i] = f[i]
    BY <2>1, <2>2
  <2> HIDE DEF g
  <2>4. ASSUME NEW i \in Nat, k <= i PROVE Right(g, i)
    <3>1. i \in goes => next[i] \in Nat /\ i < next[i]
      OBVIOUS
    <3>2. i \in goes => g[next[i]] = f[next[i]]
      <4> HIDE DEF k
      <4> QED
        BY <2>1, <2>3, <2>4, <3>1
    <3>3. CASE i = k
      BY <2>3, <3>2, <3>3 DEF v
    <3>4. CASE i # k
      <4>1. Right(f, i) /\ g[i] = f[i]
        <5> HIDE DEF k, Right
        <5> QED
          BY <1>4, <2>1, <2>3, <2>4, <3>4
      <4> QED
        BY <3>2, <4>1
    <3> QED
      BY <3>3, <3>4
  <2>5. k \in S
    <3> HIDE DEF k, Right
    <3> QED
      BY <2>1, <2>3, <2>4
  <2> HIDE DEF S, k
  <2> QED
    BY <1>2, <2>1, <2>5
<1>6. \A i \in Nat : f[i] = IF i \in goes THEN f[next[i]] ELSE i
  BY <1>4, <1>5
<1> QED
  BY <1>6 DEF Ascends

-----------------------------------------------------------------------------
(* What an entry of the outline is.                                         *)
LEMMA ItemRead ==
  ASSUME NEW p, PayloadShape(p), WholeEntries(p), NEW i \in p.items
  PROVE  /\ i \in Nat /\ p.longs \in Nat /\ SizeAt(p.words, i) \in Nat
         /\ EndOf(p, i) \in Nat /\ i + 2 <= EndOf(p, i) /\ EndOf(p, i) <= p.longs
         /\ EndOf(p, i) = i + 2 + SizeAt(p.words, i)
         /\ p.words[i].key \in FourCC /\ p.words[i + 1].ssize # 0
<1>1. p.longs \in Nat /\ p.words \in [0..(p.longs - 1) -> Word] /\ i \in 0..(p.longs - 1)
  BY DEF PayloadShape
<1>2. i \in Nat /\ i + 2 <= p.longs /\ EndOf(p, i) <= p.longs
      /\ p.words[i].key \in FourCC /\ p.words[i + 1].ssize # 0
  BY <1>1 DEF WholeEntries, KeyOf
<1>3. i + 1 < p.longs
  BY <1>1, <1>2
<1>4. SizeAt(p.words, i) \in Nat
  BY <1>1, <1>2, <1>3, SizeNat
<1> QED
  BY <1>1, <1>2, <1>4 DEF EndOf

(* GPMF_Init opens a stream on the whole chain of DEVCs.                    *)
LEMMA ChainIsWhole ==
  ASSUME PayloadShape(payload), WholeEntries(payload), DeviceChain(payload)
  PROVE  ChainEnd = payload.longs
<1> DEFINE N == payload.longs
           D == {i \in payload.items : IsDevice(payload, i)}
           goes == {i \in Nat : i + 1 < N /\ words[i].key = DEVC}
           next == [i \in Nat |-> IF i \in goes THEN i + 2 + SizeAt(words, i) ELSE i]
           f == CHOOSE g : g = [i \in Nat |-> IF i + 1 < payload.longs /\ words[i].key = DEVC
                                              THEN g[i + 2 + SizeAt(words, i)] ELSE i]
<1>1. ChainEnd = f[0]
  BY Zenon DEF ChainEnd
<1>2. N \in Nat /\ words \in [0..(N - 1) -> Word] /\ words = payload.words
  BY DEF PayloadShape, words
<1>3. /\ next \in [Nat -> Nat]
      /\ \A i \in goes : i < N /\ i < next[i] /\ next[i] = i + 2 + SizeAt(words, i)
  <2>1. ASSUME NEW i \in goes PROVE i \in Nat /\ i + 1 < N /\ SizeAt(words, i) \in Nat
    <3>1. i \in Nat /\ i + 1 < N
      OBVIOUS
    <3> HIDE DEF goes
    <3> QED
      BY <1>2, <3>1, SizeNat
  <2> HIDE DEF N
  <2>2. goes \subseteq Nat /\ N \in Nat
    BY <1>2, <2>1
  <2> HIDE DEF goes
  <2> QED
    BY <2>1, <2>2
<1>4. \E g \in [Nat -> Nat] : Ascends(g, goes, next)
  <2>1. N \in Nat /\ goes \in SUBSET Nat /\ \A i \in goes : i < N /\ i < next[i]
    BY <1>2, <1>3
  <2> HIDE DEF goes, next, N
  <2> QED
    BY <1>3, <2>1, UpwardRecursion
<1>5. PICK g \in [Nat -> Nat] : Ascends(g, goes, next)
  BY <1>4
<1>6. g = [i \in Nat |-> IF i + 1 < payload.longs /\ words[i].key = DEVC
                         THEN g[i + 2 + SizeAt(words, i)] ELSE i]
  <2>1. \A i \in Nat : g[i] = IF i + 1 < payload.longs /\ words[i].key = DEVC
                              THEN g[i + 2 + SizeAt(words, i)] ELSE i
    <3> TAKE i \in Nat
    <3>1. g[i] = IF i \in goes THEN g[next[i]] ELSE i
      BY <1>5 DEF Ascends
    <3>2. i \in goes => next[i] = i + 2 + SizeAt(words, i)
      BY <1>3
    <3> HIDE DEF next
    <3> QED
      BY <3>1, <3>2
  <2> QED
    BY <2>1
<1>7. f = [i \in Nat |-> IF i + 1 < payload.longs /\ words[i].key = DEVC
                         THEN f[i + 2 + SizeAt(words, i)] ELSE i]
  BY <1>6, Zenon
<1> HIDE DEF f
<1>8. \A i \in Nat : f[i] = IF i \in goes THEN f[i + 2 + SizeAt(words, i)] ELSE i
  BY <1>7
<1>9. f[N] = N
  <2>1. N \in Nat /\ N \notin goes
    BY <1>2
  <2> HIDE DEF N, goes
  <2> QED
    BY <1>8, <2>1
<1>10. ASSUME NEW i \in D
       PROVE  /\ i \in Nat /\ f[i] = f[EndOf(payload, i)]
              /\ EndOf(payload, i) \in Nat /\ i < EndOf(payload, i)
              /\ EndOf(payload, i) <= N
              /\ EndOf(payload, i) = N \/ EndOf(payload, i) \in D
  <2>1. /\ i \in Nat /\ EndOf(payload, i) \in Nat /\ i + 2 <= EndOf(payload, i)
        /\ EndOf(payload, i) <= N
    BY ItemRead
  <2>2. words[i].key = DEVC
    BY <1>2 DEF DeviceChain, KeyOf
  <2>3. i + 1 < N
    <3> DEFINE e == EndOf(payload, i)
    <3>1. i \in Nat /\ e \in Nat /\ N \in Nat /\ i + 2 <= e /\ e <= N
      BY <1>2, <2>1
    <3> HIDE DEF e, N
    <3> QED
      BY <3>1
  <2>4. f[i] = f[EndOf(payload, i)]
    BY <1>2, <1>8, <2>1, <2>2, <2>3 DEF EndOf
  <2>5. EndOf(payload, i) = N \/ EndOf(payload, i) \in D
    BY DEF DeviceChain
  <2> QED
    BY <2>1, <2>4, <2>5
<1> DEFINE Far == {k \in Nat : \E i \in D : k = N - i /\ f[i] # N}
<1>11. ASSUME Far # {} PROVE FALSE
  <2>1. PICK k \in Far : \A y \in Far : k <= y
    <3>1. Far \in SUBSET Nat
      OBVIOUS
    <3> HIDE DEF Far
    <3> QED
      BY <1>11, <3>1, LeastOf
  <2>2. PICK i \in D : k = N - i /\ f[i] # N
    OBVIOUS
  <2> DEFINE e == EndOf(payload, i)
  <2>3. i \in Nat /\ f[i] = f[e] /\ e \in Nat /\ i < e /\ e <= N /\ (e = N \/ e \in D)
    BY <1>10
  <2> HIDE DEF e, D
  <2>4. e \in D /\ f[e] # N
    BY <1>9, <2>2, <2>3
  <2>5. N - e \in Nat /\ ~(k <= N - e)
    <3>1. N \in Nat /\ i \in Nat /\ e \in Nat /\ i < e /\ e <= N /\ k = N - i
      BY <1>2, <2>2, <2>3
    <3> HIDE DEF N
    <3> QED
      BY <3>1
  <2>6. N - e \in Far
    BY <2>4, <2>5
  <2> QED
    BY <2>1, <2>5, <2>6
<1>12. 0 \in D
  BY DEF DeviceChain
<1>13. f[0] = N
  <2>1. N - 0 \in Nat
    BY <1>2
  <2> HIDE DEF D
  <2> QED
    BY <1>11, <1>12, <2>1
<1> QED
  BY <1>1, <1>13

-----------------------------------------------------------------------------
(***************************************************************************)
(* A validation from the start of a payload as a writer produces it: each  *)
(* activation but the first is in a nest of the outline, and the place is  *)
(* between entries of the innermost one.                                   *)
(***************************************************************************)
(* The nest an activation is in, and where it ends.                         *)
NestOf(fr, j) == fr[j].from - 2

EndFrame(p, fr, j) == IF j = 1 THEN p.longs ELSE EndOf(p, NestOf(fr, j))

(* The entries a nest holds itself.                                         *)
Inside(p, i) == {k \in p.items \ {i} : p.up[k] = i}

(* Each nest is an entry of the one around it, at its level.                *)
Nested(p, fr, j) ==
  LET i == NestOf(fr, j)
  IN /\ i \in p.items /\ IsNest(p, i)
     /\ IF j = 2 THEN IsDevice(p, i) ELSE i \in Inside(p, NestOf(fr, j - 1))
     /\ p.lev[i] = IF j = 2 THEN 0 ELSE j - 3

(* What a waiting activation remembers of the inner nest, and of its own.   *)
Metered(p, fr, j) ==
  /\ fr[j].inner = SizeAt(p.words, NestOf(fr, j + 1))
  /\ NestOf(fr, j + 1) + fr[j].left = EndFrame(p, fr, j)

(* No entry of the innermost nest is cut by the place.                      *)
Between(p, fr, n, pos) ==
  IF n = 1 THEN pos = p.longs \/ (pos \in p.items /\ IsDevice(p, pos))
  ELSE LET i == NestOf(fr, n)
       IN i + 2 <= pos /\ \A k \in Inside(p, i) : EndOf(p, k) <= pos \/ pos <= k

OnNests(p, fr, n) ==
  /\ \A j \in 2..n : Nested(p, fr, j)
  /\ \A j \in 1..(n - 1) : Metered(p, fr, j)

(* Entries of unknown type, and devices, before a place.                    *)
Odd(p, pos) == {i \in p.items : i < pos /\ ~Known(p, i)}

DevicesTo(p, pos) == {i \in p.items : IsDevice(p, i) /\ i < pos}

(* Some activation knows of an unknown type exactly when there was one.     *)
Noticed(p, fr, n, pos, how) ==
  (\E j \in 1..n : fr[j].ret = UNKNOWN_TYPE) <=> how = {RECURSE} /\ Odd(p, pos) # {}

(* The devices the validation has left behind.                              *)
CountFor(p, fr, n, pos, how) ==
  IF how # {RECURSE} THEN 0
  ELSE Cardinality(DevicesTo(p, IF n = 1 THEN pos ELSE NestOf(fr, 2)))

Standing == Running /\ Fresh(before.ms) /\ SoundOrPadded(payload)

OnOutline ==
  LET n == Len(frames)
  IN /\ n > 1 => flags = {RECURSE}
     /\ OnNests(payload, frames, n)
     /\ ms.pos + frames[n].left = EndFrame(payload, frames, n)
     /\ Between(payload, frames, n, ms.pos)
     /\ Noticed(payload, frames, n, ms.pos, flags)
     /\ device_count = before.devices + CountFor(payload, frames, n, ms.pos, flags)

(* GPMF_Init has opened the stream on the whole payload.                    *)
BoundRight == SoundOrPadded(payload) => ms.bound = payload.longs

LEMMA SoundShape ==
  ASSUME TypeOK
  PROVE  PayloadShape(payload) /\ payload.longs \in Nat /\ words = payload.words
BY PayloadAssumption DEF TypeOK, payload, PayloadShape, words

(* The entries of the outline among each other.                             *)
LEMMA InsideOf ==
  ASSUME NEW p, PayloadShape(p), SoundOrPadded(p), NEW i \in p.items, IsNest(p, i),
         NEW k \in Inside(p, i)
  PROVE  /\ k \in p.items /\ k # i /\ p.up[k] = i /\ ~IsDevice(p, k)
         /\ i + 2 <= k /\ EndOf(p, k) <= EndOf(p, i)
<1> DEFINE covered == UNION {x..(EndOf(p, x) - 1) : x \in Inside(p, i)}
           body == (i + 2)..(EndOf(p, i) - 1)
<1>1. k \in p.items /\ k # i /\ p.up[k] = i
  BY DEF Inside
<1>2. covered \subseteq body
  BY DEF SoundOrPadded, Inside
<1>3. /\ k \in Nat /\ EndOf(p, k) \in Nat /\ k + 2 <= EndOf(p, k)
      /\ i \in Nat /\ EndOf(p, i) \in Nat
  BY <1>1, ItemRead DEF SoundOrPadded
<1> DEFINE b == EndOf(p, k)  e == EndOf(p, i)
<1>4. k..(b - 1) \subseteq body
  BY <1>2
<1>5. k \in k..(b - 1) /\ b - 1 \in k..(b - 1)
  <2>1. k \in Nat /\ b \in Nat /\ k + 2 <= b
    BY <1>3
  <2> HIDE DEF b
  <2> QED
    BY <2>1
<1>6. k \in (i + 2)..(e - 1) /\ b - 1 \in (i + 2)..(e - 1)
  <2> HIDE DEF b
  <2> QED
    BY <1>4, <1>5
<1>7. i + 2 <= k /\ b <= e
  <2>1. b \in Nat /\ e \in Nat /\ i \in Nat /\ k \in Nat
    BY <1>3
  <2> HIDE DEF b, e
  <2> QED
    BY <1>6, <2>1
<1> QED
  BY <1>1, <1>7 DEF IsDevice

LEMMA InsideApart ==
  ASSUME NEW p, SoundOrPadded(p), NEW i \in p.items, IsNest(p, i),
         NEW j \in Inside(p, i), NEW k \in Inside(p, i), j < k
  PROVE  EndOf(p, j) <= k
BY DEF SoundOrPadded, Inside

LEMMA WordInside ==
  ASSUME NEW p, PayloadShape(p), SoundOrPadded(p), NEW i \in p.items, IsNest(p, i),
         NEW x \in Nat, i + 2 <= x, x < EndOf(p, i)
  PROVE  p.words[x].key = END \/ \E k \in Inside(p, i) : k <= x /\ x < EndOf(p, k)
<1> DEFINE covered == UNION {y..(EndOf(p, y) - 1) : y \in Inside(p, i)}
           body == (i + 2)..(EndOf(p, i) - 1)
<1>1. \A w \in body \ covered : p.words[w].key = END
  BY DEF SoundOrPadded, Inside
<1>2. i \in Nat /\ EndOf(p, i) \in Nat
  BY ItemRead DEF SoundOrPadded
<1>3. x \in body
  BY <1>2
<1>4. CASE x \in covered
  <2>1. PICK k \in Inside(p, i) : x \in k..(EndOf(p, k) - 1)
    BY <1>4
  <2>2. k \in Nat /\ EndOf(p, k) \in Nat
    BY ItemRead DEF SoundOrPadded, Inside
  <2> QED
    BY <2>1, <2>2
<1> QED
  BY <1>1, <1>3, <1>4

LEMMA ItemsApart ==
  ASSUME NEW p, PayloadShape(p), SoundOrPadded(p), NEW i \in p.items, NEW j \in p.items,
         i < j, j < EndOf(p, i)
  PROVE  IsNest(p, i) /\ ~IsDevice(p, j) /\ i + 2 <= j
<1>1. IsNest(p, i) /\ p.up[j] \in i..(j - 1)
  BY DEF SoundOrPadded, Laminar
<1>2. i \in Nat /\ j \in Nat
  BY ItemRead DEF SoundOrPadded
<1>3. ~IsDevice(p, j)
  BY <1>1, <1>2 DEF IsDevice
<1>4. ASSUME j = i + 1 PROVE FALSE
  <2>1. p.up[j] = i /\ j # i
    BY <1>1, <1>2, <1>4
  <2>2. j \in Inside(p, i)
    BY <2>1 DEF Inside
  <2>3. i + 2 <= j
    BY <1>1, <2>2, InsideOf
  <2> QED
    BY <1>2, <1>4, <2>3
<1> QED
  BY <1>1, <1>2, <1>3, <1>4

(* Stacks that agree on where the nests begin and on what waits.            *)
LEMMA SameNests ==
  ASSUME NEW p, NEW fr, NEW to, NEW m \in Nat,
         \A j \in 1..m : to[j].from = fr[j].from,
         \A j \in 1..(m - 1) : to[j].inner = fr[j].inner /\ to[j].left = fr[j].left
  PROVE  /\ \A j \in 1..m : NestOf(to, j) = NestOf(fr, j) /\ EndFrame(p, to, j) = EndFrame(p, fr, j)
         /\ OnNests(p, to, m) <=> OnNests(p, fr, m)
<1>1. \A j \in 1..m : NestOf(to, j) = NestOf(fr, j) /\ EndFrame(p, to, j) = EndFrame(p, fr, j)
  BY DEF NestOf, EndFrame
<1>2. ASSUME NEW j \in 2..m PROVE Nested(p, to, j) <=> Nested(p, fr, j)
  <2>1. j \in 1..m /\ j - 1 \in 1..m
    OBVIOUS
  <2>2. NestOf(to, j) = NestOf(fr, j) /\ NestOf(to, j - 1) = NestOf(fr, j - 1)
    BY <1>1, <2>1
  <2> QED
    BY <2>2 DEF Nested
<1>3. ASSUME NEW j \in 1..(m - 1) PROVE Metered(p, to, j) <=> Metered(p, fr, j)
  <2>1. j \in 1..m /\ j + 1 \in 1..m
    OBVIOUS
  <2>2. NestOf(to, j + 1) = NestOf(fr, j + 1) /\ EndFrame(p, to, j) = EndFrame(p, fr, j)
    BY <1>1, <2>1
  <2> QED
    BY <2>2 DEF Metered
<1> QED
  BY <1>1, <1>2, <1>3 DEF OnNests

(* A validation from the start, recursive or not.                           *)
LEMMA FreshLevels ==
  ASSUME IInv, Standing
  PROVE  /\ Usable(ms) /\ ms.pos \in Nat /\ ms.bound \in Nat /\ ~lost
         /\ frames \in Seq(Frame) /\ Len(frames) \in Nat /\ Len(frames) >= 1
         /\ ms.nest_level = Len(frames) - 1 /\ Top = frames[Len(frames)]
         /\ Top \in Frame /\ Top.from \in Nat /\ Top.left \in Nat /\ Top.inner \in Nat
         /\ Top.ret \in {OK, UNKNOWN_TYPE}
         /\ PayloadShape(payload) /\ WholeEntries(payload) /\ SoundOrPadded(payload)
         /\ DeviceChain(payload) /\ payload.longs \in Nat /\ words = payload.words
<1>1. Running /\ TypeOK
  BY DEF Standing, IInv
<1>2. /\ Usable(ms) /\ ~lost
      /\ ms.nest_level = before.ms.nest_level + Len(frames) - 1
  BY <1>1 DEF IInv, CallKept, StreamFits
<1>3. Len(frames) \in Nat /\ Len(frames) >= 1
      /\ Top \in Frame /\ Top.from \in Nat /\ Top.left \in Nat /\ Top.inner \in Nat
      /\ Top.ret \in {OK, UNKNOWN_TYPE}
  BY <1>1, TopFrame DEF IInv
<1>4. before.ms.nest_level = 0
  BY DEF Standing, Fresh
<1>5. ms.nest_level = Len(frames) - 1
  BY <1>2, <1>3, <1>4
<1>6. /\ PayloadShape(payload) /\ WholeEntries(payload) /\ SoundOrPadded(payload)
      /\ DeviceChain(payload) /\ payload.longs \in Nat /\ words = payload.words
  BY <1>1, SoundShape DEF Standing, SoundOrPadded
<1> QED
  BY <1>1, <1>2, <1>3, <1>5, <1>6, UsableFields DEF TypeOK, Top

(* The nest of the innermost activation.                                    *)
LEMMA TopNest ==
  ASSUME IInv, Standing, OnOutline, Len(frames) > 1
  PROVE  LET i == NestOf(frames, Len(frames))
         IN /\ i \in payload.items /\ i \in Nat /\ IsNest(payload, i)
            /\ EndOf(payload, i) \in Nat /\ EndOf(payload, i) <= payload.longs
            /\ EndOf(payload, i) = ms.pos + Top.left
            /\ i + 2 <= ms.pos
            /\ \A k \in Inside(payload, i) : EndOf(payload, k) <= ms.pos \/ ms.pos <= k
            /\ i = Top.from - 2 /\ EndOf(payload, i) = Top.from + SizeAt(words, i)
<1> DEFINE n == Len(frames)
           i == NestOf(frames, n)
<1>1. /\ n \in Nat /\ n > 1 /\ Top = frames[n] /\ Top.from \in Nat
      /\ PayloadShape(payload) /\ WholeEntries(payload) /\ words = payload.words
  BY FreshLevels
<1>2. Nested(payload, frames, n)
  <2>1. n \in 2..n
    BY <1>1
  <2> QED
    BY <2>1 DEF OnOutline, OnNests
<1>3. i \in payload.items /\ IsNest(payload, i)
  BY <1>2 DEF Nested
<1>4. /\ i \in Nat /\ EndOf(payload, i) \in Nat /\ EndOf(payload, i) <= payload.longs
      /\ EndOf(payload, i) = i + 2 + SizeAt(words, i) /\ SizeAt(words, i) \in Nat
  BY <1>1, <1>3, ItemRead
<1>5. EndOf(payload, i) = ms.pos + Top.left
  BY <1>1 DEF OnOutline, EndFrame
<1>6. /\ i + 2 <= ms.pos
      /\ \A k \in Inside(payload, i) : EndOf(payload, k) <= ms.pos \/ ms.pos <= k
  BY <1>1 DEF OnOutline, Between
<1>7. i = Top.from - 2
  BY <1>1 DEF NestOf
<1>8. EndOf(payload, i) = Top.from + SizeAt(words, i)
  <2> HIDE DEF i
  <2> QED
    BY <1>1, <1>4, <1>7
<1> QED
  BY <1>3, <1>4, <1>5, <1>6, <1>7, <1>8

(* At level 0 the loop stands on a DEVC, or is over.                        *)
LEMMA TopDevice ==
  ASSUME IInv, Standing, OnOutline, Len(frames) = 1
  PROVE  /\ ms.pos + Top.left = payload.longs
         /\ \/ ms.pos = payload.longs
            \/ ms.pos \in payload.items /\ IsDevice(payload, ms.pos)
BY FreshLevels DEF OnOutline, EndFrame, Between

(* What the loop reads: an entry of the outline, in the innermost nest, or  *)
(* padding.                                                                 *)
LEMMA OnItem ==
  ASSUME IInv, BoundRight, Standing, OnOutline, InLoop
  PROVE  /\ key \in FourCC \union {END}
         /\ key \in FourCC =>
              /\ ms.pos \in payload.items /\ size \in Nat /\ size = SizeAt(words, ms.pos)
              /\ EndOf(payload, ms.pos) = ms.pos + 2 + size
              /\ EndOf(payload, ms.pos) <= ms.pos + Top.left
              /\ IF Len(frames) = 1 THEN IsDevice(payload, ms.pos)
                 ELSE ms.pos \in Inside(payload, NestOf(frames, Len(frames)))
         /\ Len(frames) = 1 => key = DEVC /\ key \in FourCC
<1> DEFINE i == ms.pos  n == Len(frames)  e == EndOf(payload, i)
<1>1. /\ i \in Nat /\ n \in Nat /\ n >= 1 /\ Top.left \in Nat /\ Top.left > 0
      /\ PayloadShape(payload) /\ WholeEntries(payload) /\ SoundOrPadded(payload)
      /\ DeviceChain(payload) /\ payload.longs \in Nat /\ words = payload.words
      /\ i + 1 < payload.longs
  BY FreshLevels DEF InLoop, BoundRight
<1>2. size = SizeAt(words, i) /\ key = payload.words[i].key
  BY <1>1 DEF size, desc, SizeAt, key
<1>5. (n = 1 \/ n > 1) /\ (n > 1 => n # 1)
  <2>1. n \in Nat /\ n >= 1
    BY <1>1
  <2> HIDE DEF n
  <2> QED
    BY <2>1
<1>3. CASE n = 1
  <2>1. /\ i + Top.left = payload.longs
        /\ i \in payload.items /\ IsDevice(payload, i)
    BY <1>1, <1>3, TopDevice
  <2>2. key = DEVC
    BY <1>1, <1>2, <2>1 DEF DeviceChain, KeyOf
  <2>3. e = i + 2 + size /\ size \in Nat /\ e <= payload.longs
    BY <1>1, <1>2, <2>1, ItemRead
  <2>4. e <= i + Top.left /\ key \in FourCC
    BY <2>1, <2>2, <2>3, KeyAssumption
  <2> QED
    BY <1>2, <1>3, <2>1, <2>2, <2>3, <2>4
<1>4. CASE n > 1
  <2> DEFINE o == NestOf(frames, n)
  <2>1. /\ o \in payload.items /\ o \in Nat /\ IsNest(payload, o)
        /\ EndOf(payload, o) = i + Top.left /\ o + 2 <= i
        /\ \A k \in Inside(payload, o) : EndOf(payload, k) <= i \/ i <= k
    BY <1>4, TopNest
  <2> HIDE DEF o
  <2>2. i < EndOf(payload, o)
    BY <1>1, <2>1
  <2>3. CASE payload.words[i].key = END
    <3>1. key = END /\ key \notin FourCC /\ n # 1
      BY <1>2, <1>4, <1>5, <2>3, KeyAssumption
    <3> QED
      BY <3>1
  <2>4. CASE payload.words[i].key # END
    <3>1. PICK k \in Inside(payload, o) : k <= i /\ i < EndOf(payload, k)
      BY <1>1, <2>1, <2>2, <2>4, WordInside
    <3>2. k \in payload.items /\ EndOf(payload, k) <= EndOf(payload, o)
      BY <1>1, <2>1, InsideOf
    <3>3. k \in Nat /\ EndOf(payload, k) \in Nat
      BY <1>1, <3>2, ItemRead
    <3>4. k = i
      BY <1>1, <2>1, <3>1, <3>3
    <3>5. e = i + 2 + size /\ size \in Nat /\ key \in FourCC
      BY <1>1, <1>2, <3>2, <3>4, ItemRead
    <3>6. i \in payload.items /\ i \in Inside(payload, o) /\ e <= i + Top.left /\ n # 1
      BY <1>4, <1>5, <2>1, <3>2, <3>4, <3>1
    <3> QED
      BY <1>2, <3>5, <3>6 DEF o
  <2> QED
    BY <2>3, <2>4
<1> QED
  BY <1>3, <1>4, <1>5

(* The level of an entry that is a nest in the innermost nest.              *)
LEMMA LevelInside ==
  ASSUME IInv, Standing, OnOutline, Len(frames) > 1,
         NEW i \in Inside(payload, NestOf(frames, Len(frames)))
  PROVE  payload.lev[i] = Len(frames) - 2
<1> DEFINE n == Len(frames)  p == payload  o == NestOf(frames, n)
<1>1. n \in Nat /\ n > 1 /\ SoundOrPadded(p)
  BY FreshLevels
<1>2. Nested(p, frames, n)
  <2>1. n \in 2..n
    BY <1>1
  <2> QED
    BY <2>1 DEF OnOutline, OnNests
<1>3. /\ o \in p.items /\ IsNest(p, o)
      /\ (n = 2 <=> IsDevice(p, o))
      /\ p.lev[o] = IF n = 2 THEN 0 ELSE n - 3
  <2>1. /\ o \in p.items /\ IsNest(p, o)
        /\ IF n = 2 THEN IsDevice(p, o) ELSE o \in Inside(p, NestOf(frames, n - 1))
        /\ p.lev[o] = IF n = 2 THEN 0 ELSE n - 3
    BY <1>2 DEF Nested
  <2>2. n # 2 => ~IsDevice(p, o)
    BY <2>1 DEF Inside, IsDevice
  <2> QED
    BY <2>1, <2>2
<1>4. i \in p.items /\ p.up[i] = o /\ ~IsDevice(p, i)
  BY DEF Inside, IsDevice
<1> HIDE DEF o
<1>5. p.lev[i] = IF IsDevice(p, o) THEN 0 ELSE p.lev[o] + 1
  BY <1>1, <1>4 DEF SoundOrPadded, LevelsCount
<1> HIDE DEF n
<1>6. p.lev[i] = n - 2
  BY <1>1, <1>3, <1>5
<1> QED
  BY <1>6 DEF n

(* So nothing is refused.                                                   *)
LEMMA NotRefused ==
  ASSUME IInv, BoundRight, Standing, OnOutline
  PROVE  /\ ~RefuseEntry /\ ~RefuseDepth
         /\ InLoop => ~Misplaced /\ ~Foreign /\ ~NoDevice
<1> DEFINE i == ms.pos  n == Len(frames)
<1>1. ASSUME InLoop PROVE ~NoDevice /\ ~(key \in FourCC /\ Faulty) /\ ~Foreign
  <2>1. key \in FourCC \union {END} /\ (n = 1 => key = DEVC)
    BY <1>1, OnItem
  <2>2. ~Foreign
    BY <2>1 DEF Foreign
  <2>3. ~NoDevice
    <3>1. ms.nest_level = 0 => n = 1
      BY FreshLevels
    <3> QED
      BY <2>1, <3>1 DEF NoDevice
  <2>4. ASSUME key \in FourCC PROVE ~Faulty
    <3>1. /\ i \in payload.items /\ EndOf(payload, i) = i + 2 + size /\ size \in Nat
          /\ EndOf(payload, i) <= i + Top.left
      BY <1>1, <2>4, OnItem
    <3>2. /\ i \in Nat /\ Top.left \in Nat /\ PayloadShape(payload) /\ WholeEntries(payload)
          /\ words = payload.words
      BY FreshLevels
    <3>3. desc.ssize # 0
      BY <3>1, <3>2, ItemRead DEF desc
    <3>4. ~(size + 2 > Top.left)
      BY <3>1, <3>2
    <3> QED
      BY <3>3, <3>4 DEF Faulty
  <2> QED
    BY <2>2, <2>3, <2>4
<1>2. InLoop => ~Misplaced
  BY <1>1 DEF Misplaced, Foreign
<1>3. ASSUME RefuseDepth PROVE FALSE
  <2>1. /\ InLoop /\ key \in FourCC /\ Descends /\ ms.nest_level = NestLimit
    BY <1>3 DEF RefuseDepth, AtEntry
  <2>2. /\ i \in payload.items
        /\ IF n = 1 THEN IsDevice(payload, i) ELSE i \in Inside(payload, NestOf(frames, n))
    BY <2>1, OnItem
  <2>3. n \in Nat /\ n >= 1 /\ n - 1 = NestLimit /\ NestLimit \in Nat /\ NestLimit # 0
        /\ PayloadShape(payload) /\ SoundOrPadded(payload) /\ words = payload.words
    BY <2>1, FreshLevels, LimitAssumption
  <2> DEFINE o == NestOf(frames, n)
  <2>4. n > 1 /\ i \in Inside(payload, o)
    BY <2>2, <2>3
  <2>7. ~IsDevice(payload, i)
    BY <2>4 DEF Inside, IsDevice
  <2>8. payload.lev[i] = n - 2
    BY <2>4, LevelInside
  <2>9. IsNest(payload, i)
    BY <2>1, <2>3 DEF Descends, desc, IsNest, TypeOf
  <2>10. payload.lev[i] + 1 < NestLimit
    BY <2>2, <2>3, <2>7, <2>9 DEF SoundOrPadded, LevelsCount
  <2> QED
    BY <2>3, <2>8, <2>10
<1> QED
  BY <1>1, <1>2, <1>3 DEF RefuseEntry

(* The actions, one by one.                                                 *)
LEMMA StartOnOutline ==
  ASSUME IInv, BoundRight, NEW how \in Flags, StartValidate(how), Standing'
  PROVE  OnOutline'
<1> DEFINE p == payload
<1>1. /\ frames' = <<NewFrame(ms)>> /\ before'.ms = ms /\ before'.devices = device_count
      /\ ~lost /\ UNCHANGED <<buffer, ms, device_count>>
  BY DEF StartValidate
<1>2. ms.pos = 0 /\ ms.nest_level = 0 /\ ms.nest_size[0] = 0 /\ SoundOrPadded(p)
  BY <1>1 DEF Standing, Fresh, payload
<1>3. /\ PayloadShape(p) /\ p.longs \in Nat /\ Usable(ms) /\ ms.bound = p.longs
      /\ payload' = p /\ WholeEntries(p) /\ DeviceChain(p)
  BY <1>1, <1>2, SoundShape DEF BoundRight, IInv, StreamFits, payload, SoundOrPadded
<1>4. NewFrame(ms).left = p.longs /\ NewFrame(ms).ret = OK
  BY <1>2, <1>3 DEF NewFrame, Remaining
<1>5. Len(frames') = 1 /\ frames'[1] = NewFrame(ms)
  BY <1>1
<1>6. OnNests(p, frames', 1)
  BY DEF OnNests
<1>7. 0 \in p.items /\ IsDevice(p, 0) /\ p.items \subseteq Nat
  BY <1>3 DEF DeviceChain, PayloadShape
<1>8. Odd(p, 0) = {} /\ DevicesTo(p, 0) = {}
  BY <1>7 DEF Odd, DevicesTo
<1>9. Noticed(p, frames', 1, 0, flags')
  BY <1>4, <1>5, <1>8 DEF Noticed, OK, UNKNOWN_TYPE
<1>10. CountFor(p, frames', 1, 0, flags') = 0
  BY <1>8, FS_EmptySet DEF CountFor
<1>11. device_count' = before'.devices + CountFor(p, frames', 1, 0, flags')
  BY <1>1, <1>10 DEF IInv, TypeOK
<1>12. 0 + frames'[1].left = EndFrame(p, frames', 1) /\ Between(p, frames', 1, 0)
  BY <1>3, <1>4, <1>5, <1>7 DEF EndFrame, Between
<1>13. ms'.pos = 0 /\ ~(Len(frames') > 1)
  BY <1>1, <1>2, <1>5
<1> HIDE DEF p
<1> QED
  BY <1>3, <1>5, <1>6, <1>9, <1>11, <1>12, <1>13 DEF OnOutline

(* A turn that stays in the innermost activation.                           *)
LEMMA TurnOnOutline ==
  ASSUME IInv, BoundRight, Standing, OnOutline,
         NEW pos \in Nat, NEW f \in Frame, f.from = Top.from,
         pos + f.left = ms.pos + Top.left, ms.pos <= pos,
         ms' = [ms EXCEPT !.pos = pos],
         frames' = [frames EXCEPT ![Len(frames)] = f],
         UNCHANGED <<buffer, device_count, flags, before>>,
         flags = {RECURSE} => Len(frames) > 1,
         Between(payload, frames, Len(frames), pos),
         f.ret = UNKNOWN_TYPE <=>
           \/ Top.ret = UNKNOWN_TYPE
           \/ /\ flags = {RECURSE}
              /\ \E i \in payload.items : ms.pos <= i /\ i < pos /\ ~Known(payload, i)
  PROVE  OnOutline'
<1> DEFINE n == Len(frames)  p == payload
<1>1. /\ frames \in Seq(Frame) /\ n \in Nat /\ n >= 1 /\ Usable(ms) /\ Top = frames[n]
      /\ ms.pos \in Nat /\ p.items \subseteq Nat
  BY FreshLevels DEF PayloadShape
<1>2. /\ Len(frames') = n /\ frames'[n] = f
      /\ \A i \in 1..(n - 1) : frames'[i] = frames[i]
  BY <1>1, ExceptSeq
<1>3. ms'.pos = pos /\ payload' = p
  BY <1>1, MovedStream DEF payload
<1>4. n \in 1..n /\ 1 \in 1..n /\ \A j \in 1..n : j = n \/ j \in 1..(n - 1)
  <2>1. n \in Nat /\ n >= 1
    BY <1>1
  <2> HIDE DEF n
  <2> QED
    BY <2>1
<1>5. \A j \in 1..n : frames'[j].from = frames[j].from
  BY <1>1, <1>2, <1>4
<1>6. /\ \A j \in 1..n : NestOf(frames', j) = NestOf(frames, j)
                         /\ EndFrame(p, frames', j) = EndFrame(p, frames, j)
      /\ OnNests(p, frames', n) <=> OnNests(p, frames, n)
  <2>1. \A j \in 1..(n - 1) : frames'[j].inner = frames[j].inner /\ frames'[j].left = frames[j].left
    BY <1>2
  <2>2. n \in Nat
    BY <1>1
  <2>3. PICK to : to = frames'
    OBVIOUS
  <2>4. /\ \A j \in 1..n : to[j].from = frames[j].from
        /\ \A j \in 1..(n - 1) : to[j].inner = frames[j].inner /\ to[j].left = frames[j].left
    BY <1>5, <2>1, <2>3
  <2> HIDE DEF n, p
  <2>5. /\ \A j \in 1..n : NestOf(to, j) = NestOf(frames, j)
                           /\ EndFrame(p, to, j) = EndFrame(p, frames, j)
        /\ OnNests(p, to, n) <=> OnNests(p, frames, n)
    BY <2>2, <2>4, SameNests
  <2> QED
    BY <2>3, <2>5
<1>7. OnNests(p, frames', n)
  BY <1>6 DEF OnOutline
<1>8. pos + frames'[n].left = EndFrame(p, frames', n)
  BY <1>1, <1>2, <1>4, <1>6 DEF OnOutline
<1>9. Between(p, frames', n, pos)
  BY <1>4, <1>6 DEF Between
<1>10. Odd(p, pos) # {} <=>
         Odd(p, ms.pos) # {} \/ \E i \in p.items : ms.pos <= i /\ i < pos /\ ~Known(p, i)
  <2>1. \A i \in p.items : i < pos <=> i < ms.pos \/ (ms.pos <= i /\ i < pos)
    BY <1>1
  <2> HIDE DEF p
  <2> QED
    BY <2>1 DEF Odd
<1>11. Noticed(p, frames', n, pos, flags)
  <2>1. (\E j \in 1..n : frames[j].ret = UNKNOWN_TYPE) <=> flags = {RECURSE} /\ Odd(p, ms.pos) # {}
    BY DEF OnOutline, Noticed
  <2>2. (\E j \in 1..n : frames'[j].ret = UNKNOWN_TYPE)
          <=> f.ret = UNKNOWN_TYPE \/ \E j \in 1..(n - 1) : frames[j].ret = UNKNOWN_TYPE
    <3>1. \A j \in 1..(n - 1) : j \in 1..n
      BY <1>1
    <3> HIDE DEF n
    <3> QED
      BY <1>2, <1>4, <3>1
  <2>3. (\E j \in 1..n : frames[j].ret = UNKNOWN_TYPE)
          <=> Top.ret = UNKNOWN_TYPE \/ \E j \in 1..(n - 1) : frames[j].ret = UNKNOWN_TYPE
    <3>1. \A j \in 1..(n - 1) : j \in 1..n
      BY <1>1
    <3> HIDE DEF n
    <3> QED
      BY <1>1, <1>4, <3>1
  <2>4. f.ret = UNKNOWN_TYPE <=>
           \/ Top.ret = UNKNOWN_TYPE
           \/ flags = {RECURSE} /\ \E i \in p.items : ms.pos <= i /\ i < pos /\ ~Known(p, i)
    OBVIOUS
  <2> HIDE DEF n, p
  <2> QED
    BY <1>10, <2>1, <2>2, <2>3, <2>4 DEF Noticed
<1>12. CountFor(p, frames', n, pos, flags) = CountFor(p, frames, n, ms.pos, flags)
  <2>1. flags = {RECURSE} => n # 1 /\ NestOf(frames', 2) = NestOf(frames, 2)
    <3>1. n > 1 => n # 1 /\ 2 \in 1..n
      <4>1. n \in Nat
        BY <1>1
      <4> HIDE DEF n
      <4> QED
        BY <4>1
    <3> QED
      BY <1>6, <3>1
  <2> HIDE DEF n
  <2> QED
    BY <2>1 DEF CountFor
<1>13. device_count' = before'.devices + CountFor(p, frames', n, pos, flags)
  BY <1>12 DEF OnOutline
<1>14. n > 1 => flags' = {RECURSE}
  BY DEF OnOutline
<1>15. flags' = flags
  OBVIOUS
<1> HIDE DEF p, n
<1> QED
  BY <1>2, <1>3, <1>7, <1>8, <1>9, <1>11, <1>13, <1>14, <1>15 DEF OnOutline

LEMMA StepOverOnOutline ==
  ASSUME IInv, BoundRight, Standing, OnOutline, StepOverEntry
  PROVE  OnOutline'
<1> DEFINE n == Len(frames)  p == payload  i == ms.pos
           left == Top.left - (2 + size)
           f == [Top EXCEPT !.left = left, !.ret = Noted]
           e == i + 2 + size
<1>1. /\ InLoop /\ ~Faulty /\ ~Descends /\ key \in FourCC
      /\ UNCHANGED <<buffer, device_count, flags, before>>
      /\ frames' = [frames EXCEPT ![n] = f] /\ ms' = [ms EXCEPT !.pos = e]
  BY DEF StepOverEntry, AtEntry
<1>2. /\ i \in Nat /\ n \in Nat /\ n >= 1 /\ Top \in Frame /\ Top.left \in Nat
      /\ Top.ret \in {OK, UNKNOWN_TYPE}
      /\ PayloadShape(p) /\ WholeEntries(p) /\ SoundOrPadded(p) /\ DeviceChain(p)
      /\ words = p.words
  BY FreshLevels
<1>3. /\ i \in p.items /\ size \in Nat /\ EndOf(p, i) = e /\ e <= i + Top.left
      /\ IF n = 1 THEN IsDevice(p, i) ELSE i \in Inside(p, NestOf(frames, n))
  BY <1>1, OnItem
<1>4. left \in Nat /\ e \in Nat /\ e + left = i + Top.left /\ i < e
  <2> DEFINE L == Top.left
  <2>1. L \in Nat /\ i \in Nat /\ size \in Nat /\ e <= i + L
    BY <1>2, <1>3
  <2> HIDE DEF i, L
  <2> QED
    BY <2>1 DEF L
<1>5. Noted \in {OK, UNKNOWN_TYPE}
      /\ (Noted = UNKNOWN_TYPE <=> Top.ret = UNKNOWN_TYPE \/ ~Known(p, i))
  BY <1>2 DEF Noted, Known, TypeOf, desc
<1>6. f \in Frame /\ f.from = Top.from /\ f.left = left /\ f.ret = Noted
  <2> HIDE DEF left
  <2>1. f \in Frame
    BY <1>2, <1>4, <1>5, Zenon DEF Frame
  <2>2. f.from = Top.from /\ f.left = left /\ f.ret = Noted
    BY <1>2 DEF Frame
  <2> QED
    BY <2>1, <2>2
<1>7. IsNest(p, i) <=> desc.type = NEST
  BY <1>2 DEF IsNest, TypeOf, desc
<1>8. n = 1 => flags # {RECURSE} /\ Known(p, i)
  <2>1. n = 1 => IsNest(p, i)
    BY <1>2, <1>3 DEF DeviceChain
  <2> QED
    BY <1>1, <1>7, <2>1 DEF Descends, Known, IsNest, KnownType
<1>9. n # 1 => n > 1 /\ flags = {RECURSE} /\ ~IsNest(p, i)
  <2>1. n # 1 => n > 1
    <3>1. n \in Nat /\ n >= 1
      BY <1>2
    <3> HIDE DEF n
    <3> QED
      BY <3>1
  <2> QED
    BY <1>1, <1>7, <2>1 DEF OnOutline, Descends
<1>10. ASSUME flags = {RECURSE}, NEW j \in p.items, i <= j, j < e PROVE j = i
  <2>1. ~IsNest(p, i)
    BY <1>8, <1>9, <1>10
  <2>2. j \in Nat
    BY <1>2 DEF PayloadShape
  <2>3. ~(i < j)
    BY <1>2, <1>3, <1>10, <2>1, ItemsApart
  <2> QED
    BY <1>2, <1>10, <2>2, <2>3
<1>11. Between(p, frames, n, e)
  <2>1. CASE n = 1
    <3>1. e = p.longs \/ (e \in p.items /\ IsDevice(p, e))
      BY <1>2, <1>3, <2>1 DEF DeviceChain
    <3> QED
      BY <2>1, <3>1 DEF Between
  <2>2. CASE n # 1
    <3> DEFINE o == NestOf(frames, n)
    <3>1. /\ o \in p.items /\ o \in Nat /\ IsNest(p, o) /\ o + 2 <= i
          /\ \A k \in Inside(p, o) : EndOf(p, k) <= i \/ i <= k
      BY <1>9, <2>2, TopNest
    <3>2. i \in Inside(p, o)
      BY <1>3, <2>2
    <3> HIDE DEF o
    <3>3. ASSUME NEW k \in Inside(p, o) PROVE EndOf(p, k) <= e \/ e <= k
      <4>1. k \in p.items /\ k \in Nat /\ EndOf(p, k) \in Nat
        BY <1>2, ItemRead DEF Inside
      <4>2. EndOf(p, k) <= i \/ k = i \/ i < k
        BY <1>2, <3>1, <4>1
      <4>3. i < k => e <= k
        BY <1>2, <1>3, <3>1, <3>2, InsideApart
      <4>4. k = i => EndOf(p, k) = e
        BY <1>3
      <4> HIDE DEF e
      <4> QED
        BY <1>2, <1>4, <4>1, <4>2, <4>3, <4>4
    <3>4. o + 2 <= e
      BY <1>2, <1>4, <3>1
    <3> QED
      BY <2>2, <3>3, <3>4 DEF Between, o
  <2> QED
    BY <2>1, <2>2
<1>12. f.ret = UNKNOWN_TYPE <=>
         \/ Top.ret = UNKNOWN_TYPE
         \/ flags = {RECURSE} /\ \E j \in p.items : i <= j /\ j < e /\ ~Known(p, j)
  <2>1. i <= i
    BY <1>2
  <2>2. flags = {RECURSE} => ((\E j \in p.items : i <= j /\ j < e /\ ~Known(p, j)) <=> ~Known(p, i))
    BY <1>3, <1>4, <1>10, <2>1
  <2>3. flags # {RECURSE} => Known(p, i)
    BY <1>8, <1>9
  <2> QED
    BY <1>5, <1>6, <2>2, <2>3
<1>13. flags = {RECURSE} => n > 1
  BY <1>8, <1>9
<1> HIDE DEF f, left
<1>14. ms.pos <= e /\ e + f.left = ms.pos + Top.left
  BY <1>2, <1>4, <1>6
<1> HIDE DEF e
<1> QED
  BY <1>1, <1>4, <1>6, <1>11, <1>12, <1>13, <1>14, TurnOnOutline

(* Padding holds no entry.                                                  *)
LEMMA NoItemInPadding ==
  ASSUME NEW p, PayloadShape(p), WholeEntries(p), NEW i \in Nat, NEW k \in Nat,
         \A j \in 0..(k - 1) : p.words[i + j].key = END,
         NEW c \in p.items, i <= c
  PROVE  i + k <= c
<1>1. c \in Nat /\ p.words[c].key \in FourCC
  BY ItemRead
<1>2. ASSUME c < i + k PROVE FALSE
  <2>1. c - i \in 0..(k - 1) /\ i + (c - i) = c
    BY <1>1, <1>2
  <2>2. p.words[c].key = END
    BY <2>1
  <2> QED
    BY <1>1, <2>2, KeyAssumption
<1> QED
  BY <1>1, <1>2

(* A run of GPMF_KEY_END is skipped.                                        *)
LEMMA SkipEndsOnOutline ==
  ASSUME IInv, BoundRight, Standing, OnOutline, SkipEnds
  PROVE  OnOutline'
<1> DEFINE n == Len(frames)  p == payload  i == ms.pos
           k == PaddingAt(words, ms.pos, Top.left, ms.bound)
           left == Top.left - k
           f == [Top EXCEPT !.left = left]
           e == i + k
<1>1. /\ InLoop /\ key = END
      /\ UNCHANGED <<buffer, device_count, flags, before>>
      /\ frames' = [frames EXCEPT ![n] = f] /\ ms' = [ms EXCEPT !.pos = e]
  BY DEF SkipEnds, Top
<1>2. /\ i \in Nat /\ n \in Nat /\ n >= 1 /\ Top \in Frame /\ Top.left \in Nat
      /\ PayloadShape(p) /\ WholeEntries(p) /\ SoundOrPadded(p) /\ words = p.words
  BY FreshLevels
<1>3. k \in 0..Top.left /\ \A j \in 0..(k - 1) : p.words[i + j].key = END
  BY <1>2, PaddingRun
<1> HIDE DEF k
<1>4. left \in Nat /\ e \in Nat /\ k \in Nat /\ e + left = i + Top.left /\ i <= e
  <2> DEFINE L == Top.left
  <2>1. L \in Nat /\ i \in Nat /\ k \in 0..L
    BY <1>2, <1>3
  <2> HIDE DEF i, L
  <2> QED
    BY <2>1 DEF L
<1>5. f \in Frame /\ f.from = Top.from /\ f.left = left /\ f.ret = Top.ret
  <2> HIDE DEF left
  <2> QED
    BY <1>2, <1>4 DEF Frame
<1>6. n > 1
  <2>1. n # 1
    BY <1>1, OnItem, KeyAssumption
  <2>2. n \in Nat /\ n >= 1
    BY <1>2
  <2> HIDE DEF n
  <2> QED
    BY <2>1, <2>2
<1>7. \A c \in p.items : i <= c => e <= c
  <2> HIDE DEF p, i
  <2> QED
    BY <1>2, <1>3, <1>4, NoItemInPadding
<1>8. Between(p, frames, n, e)
  <2> DEFINE o == NestOf(frames, n)
  <2>1. /\ o \in p.items /\ o \in Nat /\ o + 2 <= i
        /\ \A c \in Inside(p, o) : EndOf(p, c) <= i \/ i <= c
    BY <1>6, TopNest
  <2> HIDE DEF o
  <2>2. ASSUME NEW c \in Inside(p, o) PROVE EndOf(p, c) <= e \/ e <= c
    <3>1. c \in p.items /\ c \in Nat /\ EndOf(p, c) \in Nat
      BY <1>2, ItemRead DEF Inside
    <3>2. EndOf(p, c) <= i \/ e <= c
      BY <1>7, <2>1, <3>1
    <3> HIDE DEF e
    <3> QED
      BY <1>2, <1>4, <3>1, <3>2
  <2>3. o + 2 <= e /\ n # 1
    <3>1. n \in Nat
      BY <1>2
    <3> HIDE DEF n
    <3> QED
      BY <1>2, <1>4, <1>6, <2>1, <3>1
  <2> QED
    BY <2>2, <2>3 DEF Between, o
<1>9. ~ \E c \in p.items : i <= c /\ c < e /\ ~Known(p, c)
  <2>1. p.items \subseteq Nat
    BY <1>2 DEF PayloadShape
  <2> HIDE DEF e, p
  <2> QED
    BY <1>4, <1>7, <2>1
<1>10. f.ret = UNKNOWN_TYPE <=>
         \/ Top.ret = UNKNOWN_TYPE
         \/ flags = {RECURSE} /\ \E c \in p.items : i <= c /\ c < e /\ ~Known(p, c)
  BY <1>5, <1>9
<1> HIDE DEF f, left
<1>11. ms.pos <= e /\ e + f.left = ms.pos + Top.left
  BY <1>2, <1>4, <1>5
<1> HIDE DEF e
<1> QED
  BY <1>1, <1>4, <1>5, <1>6, <1>8, <1>10, <1>11, TurnOnOutline

(* Nests around a place: one more, and one less.                            *)
LEMMA NestMore ==
  ASSUME NEW p, NEW fr, NEW n \in Nat,
         OnNests(p, fr, n), Nested(p, fr, n + 1), Metered(p, fr, n)
  PROVE  OnNests(p, fr, n + 1)
<1>1. \A j \in 2..(n + 1) : j \in 2..n \/ j = n + 1
  OBVIOUS
<1>2. \A j \in 1..(n + 1 - 1) : j \in 1..(n - 1) \/ j = n
  OBVIOUS
<1>3. (\A j \in 2..n : Nested(p, fr, j)) /\ \A j \in 1..(n - 1) : Metered(p, fr, j)
  BY DEF OnNests
<1>4. \A j \in 2..(n + 1) : Nested(p, fr, j)
  BY <1>1, <1>3
<1>5. \A j \in 1..(n + 1 - 1) : Metered(p, fr, j)
  BY <1>2, <1>3
<1> QED
  BY <1>4, <1>5 DEF OnNests

LEMMA EnterOnOutline ==
  ASSUME IInv, BoundRight, Standing, OnOutline, EnterNest
  PROVE  OnOutline'
<1> DEFINE n == Len(frames)  p == payload  i == ms.pos
<1>1. /\ InLoop /\ key \in FourCC /\ desc.type = NEST /\ flags = {RECURSE}
      /\ UNCHANGED <<buffer, device_count, flags, before>>
  BY DEF EnterNest, AtEntry, Descends
<1>2. /\ i \in Nat /\ n \in Nat /\ n >= 1 /\ Top = frames[n]
      /\ PayloadShape(p) /\ WholeEntries(p) /\ SoundOrPadded(p) /\ DeviceChain(p)
      /\ words = p.words
  BY FreshLevels
<1>3. /\ i \in p.items /\ size \in Nat /\ EndOf(p, i) = i + 2 + size /\ size = SizeAt(words, i)
      /\ IF n = 1 THEN IsDevice(p, i) ELSE i \in Inside(p, NestOf(frames, n))
  BY <1>1, OnItem
<1>4. IsNest(p, i) /\ Known(p, i)
  BY <1>1, <1>2 DEF IsNest, Known, TypeOf, desc, KnownType
<1>5. PICK to : to = frames'
  OBVIOUS
<1>6. /\ Len(to) = n + 1 /\ \A j \in 1..(n - 1) : to[j] = frames[j]
      /\ to[n].from = frames[n].from /\ to[n].left = Top.left
      /\ to[n].inner = size /\ to[n].ret = frames[n].ret
      /\ to[n + 1].from = i + 2 /\ to[n + 1].left = size /\ to[n + 1].ret = OK
      /\ ms'.pos = i + 2
  BY <1>2, <1>5, EnterFrames
<1>7. (n = 1 \/ n > 1) /\ \A j \in 1..n : j = n \/ j \in 1..(n - 1)
  <2>1. n \in Nat /\ n >= 1
    BY <1>2
  <2> HIDE DEF n
  <2> QED
    BY <2>1
<1>8. /\ \A j \in 1..n : NestOf(to, j) = NestOf(frames, j)
                         /\ EndFrame(p, to, j) = EndFrame(p, frames, j)
      /\ OnNests(p, to, n) <=> OnNests(p, frames, n)
  <2>1. \A j \in 1..n : to[j].from = frames[j].from
    BY <1>6, <1>7
  <2>2. \A j \in 1..(n - 1) : to[j].inner = frames[j].inner /\ to[j].left = frames[j].left
    BY <1>6
  <2>3. n \in Nat
    BY <1>2
  <2> HIDE DEF n, p
  <2> QED
    BY <2>1, <2>2, <2>3, SameNests
<1>9. NestOf(to, n + 1) = i /\ EndFrame(p, to, n + 1) = EndOf(p, i)
  <2>1. NestOf(to, n + 1) = i
    <3>2. to[n + 1].from = i + 2
      BY <1>6
    <3>3. i \in Nat
      BY <1>2
    <3> HIDE DEF n, i
    <3> QED
      BY <3>2, <3>3 DEF NestOf
  <2>2. n + 1 # 1
    BY <1>2
  <2> QED
    BY <2>1, <2>2 DEF EndFrame
<1>10. Nested(p, to, n + 1)
  <2>1. n + 1 - 1 = n /\ n \in 1..n /\ n + 1 - 3 = n - 2 /\ (n + 1 = 2 <=> n = 1)
    <3>1. n \in Nat /\ n >= 1
      BY <1>2
    <3> HIDE DEF n
    <3> QED
      BY <3>1
  <2>2. NestOf(to, n + 1 - 1) = NestOf(frames, n)
    BY <1>8, <2>1
  <2>3. p.lev[i] = IF n = 1 THEN 0 ELSE n - 2
    <3>1. n = 1 => p.lev[i] = 0
      BY <1>2, <1>3 DEF DeviceChain
    <3>2. n > 1 => n # 1 /\ p.lev[i] = n - 2
      <4>1. n > 1 => n # 1
        BY <1>2
      <4> QED
        BY <1>3, <4>1, LevelInside
    <3> QED
      BY <1>7, <3>1, <3>2
  <2> HIDE DEF n, p, i
  <2> QED
    BY <1>3, <1>4, <1>9, <2>1, <2>2, <2>3 DEF Nested
<1>11. Metered(p, to, n)
  <2>1. i + Top.left = EndFrame(p, frames, n)
    BY <1>2 DEF OnOutline
  <2>2. n \in 1..n
    BY <1>2
  <2>3. EndFrame(p, to, n) = EndFrame(p, frames, n)
    BY <1>8, <2>2
  <2> HIDE DEF n
  <2> QED
    BY <1>2, <1>3, <1>6, <1>9, <2>1, <2>3 DEF Metered
<1>12. OnNests(p, to, n + 1)
  <2>1. OnNests(p, to, n)
    BY <1>8 DEF OnOutline
  <2>2. n \in Nat
    BY <1>2
  <2> HIDE DEF n, p
  <2> QED
    BY <1>10, <1>11, <2>1, <2>2, NestMore
<1>13. i + 2 + to[n + 1].left = EndFrame(p, to, n + 1)
  BY <1>3, <1>6, <1>9
<1>14. Between(p, to, n + 1, i + 2)
  <2>1. \A k \in Inside(p, i) : i + 2 <= k
    BY <1>2, <1>3, <1>4, InsideOf
  <2>2. n + 1 # 1 /\ i + 2 <= i + 2
    BY <1>2
  <2> HIDE DEF n, i, p
  <2> QED
    BY <1>9, <2>1, <2>2 DEF Between
<1>15. Odd(p, i + 2) = Odd(p, i)
  <2>1. ASSUME NEW x \in p.items, i < x, x < i + 2 PROVE FALSE
    <3>1. x < EndOf(p, i) /\ x \in Nat
      <4>1. x \in Nat /\ i + 2 <= EndOf(p, i) /\ EndOf(p, i) \in Nat
        BY <1>2, <1>3, ItemRead DEF PayloadShape
      <4> QED
        BY <1>2, <2>1, <4>1
    <3>2. i + 2 <= x
      BY <1>2, <1>3, <2>1, <3>1, ItemsApart
    <3> QED
      BY <1>2, <2>1, <3>1, <3>2
  <2>2. \A x \in p.items : x \in Nat
    BY <1>2 DEF PayloadShape
  <2>3. ASSUME NEW x \in p.items PROVE x < i + 2 <=> x < i \/ x = i
    <3>1. x \in Nat
      BY <2>2
    <3> HIDE DEF p, i
    <3> QED
      BY <1>2, <2>1, <3>1
  <2> HIDE DEF p, i
  <2> QED
    BY <1>4, <2>3 DEF Odd
<1>16. Noticed(p, to, n + 1, i + 2, flags)
  <2>1. (\E j \in 1..n : frames[j].ret = UNKNOWN_TYPE) <=> flags = {RECURSE} /\ Odd(p, i) # {}
    BY DEF OnOutline, Noticed
  <2>2. \A j \in 1..n : to[j].ret = frames[j].ret
    BY <1>6, <1>7
  <2>3. /\ \A j \in 1..(n + 1) : j \in 1..n \/ j = n + 1
        /\ \A j \in 1..n : j \in 1..(n + 1)
    <3>1. n \in Nat
      BY <1>2
    <3> HIDE DEF n
    <3> QED
      BY <3>1
  <2>4. to[n + 1].ret # UNKNOWN_TYPE
    BY <1>6 DEF OK, UNKNOWN_TYPE
  <2>5. (\E j \in 1..(n + 1) : to[j].ret = UNKNOWN_TYPE)
          <=> \E j \in 1..n : frames[j].ret = UNKNOWN_TYPE
    <3> HIDE DEF n
    <3> QED
      BY <2>2, <2>3, <2>4
  <2> HIDE DEF n, p, i
  <2> QED
    BY <1>15, <2>1, <2>5 DEF Noticed
<1>17. CountFor(p, to, n + 1, i + 2, flags) = CountFor(p, frames, n, i, flags)
  <2>1. n + 1 # 1
    BY <1>2
  <2>2. NestOf(to, 2) = IF n = 1 THEN i ELSE NestOf(frames, 2)
    <3>1. n = 1 => n + 1 = 2
      OBVIOUS
    <3>2. n > 1 => n # 1 /\ 2 \in 1..n
      <4>1. n \in Nat
        BY <1>2
      <4> HIDE DEF n
      <4> QED
        BY <4>1
    <3> HIDE DEF n, p, i
    <3> QED
      BY <1>7, <1>8, <1>9, <3>1, <3>2
  <2> HIDE DEF n, p, i
  <2> QED
    BY <2>1, <2>2 DEF CountFor
<1>18. device_count' = before'.devices + CountFor(p, to, n + 1, i + 2, flags)
  BY <1>1, <1>17 DEF OnOutline
<1>19. payload' = p /\ flags' = flags
  BY <1>1 DEF payload
<1>20. Len(frames') = n + 1
  BY <1>5, <1>6
<1> HIDE DEF p, n, i
<1> QED
  BY <1>1, <1>5, <1>6, <1>12, <1>13, <1>14, <1>16, <1>18, <1>19, <1>20 DEF OnOutline

LEMMA NestsFewer ==
  ASSUME NEW p, NEW fr, NEW n \in Nat, n > 1, OnNests(p, fr, n)
  PROVE  /\ OnNests(p, fr, n - 1)
         /\ Nested(p, fr, n) /\ Metered(p, fr, n - 1)
<1>1. (\A j \in 2..n : Nested(p, fr, j)) /\ \A j \in 1..(n - 1) : Metered(p, fr, j)
  BY DEF OnNests
<1>2. n \in 2..n /\ n - 1 \in 1..(n - 1)
  OBVIOUS
<1>3. (\A j \in 2..(n - 1) : j \in 2..n) /\ \A j \in 1..(n - 1 - 1) : j \in 1..(n - 1)
  OBVIOUS
<1>4. (\A j \in 2..(n - 1) : Nested(p, fr, j)) /\ \A j \in 1..(n - 1 - 1) : Metered(p, fr, j)
  BY <1>1, <1>3
<1> QED
  BY <1>1, <1>2, <1>4 DEF OnNests

(* No entry is left where an activation is over.                            *)
LEMMA NothingLeft ==
  ASSUME IInv, BoundRight, Standing, OnOutline, Over, NEW c \in payload.items, ms.pos <= c
  PROVE  ms.pos + Top.left <= c
<1> DEFINE p == payload  i == ms.pos  L == Top.left
<1>1. /\ i \in Nat /\ L \in Nat /\ ms.bound = p.longs /\ p.longs \in Nat
      /\ PayloadShape(p) /\ WholeEntries(p)
  BY FreshLevels DEF BoundRight
<1>2. ~InLoop
  BY NotRefused DEF Over
<1>3. ~(i + 1 < p.longs) \/ ~(L > 0)
  BY <1>1, <1>2 DEF InLoop, Standing, Running
<1>4. c \in Nat /\ c + 2 <= p.longs
  <2>1. c \in Nat /\ EndOf(p, c) \in Nat /\ c + 2 <= EndOf(p, c) /\ EndOf(p, c) <= p.longs
    BY <1>1, ItemRead
  <2> DEFINE e == EndOf(p, c)
  <2> HIDE DEF e
  <2> QED
    BY <1>1, <2>1 DEF e
<1> HIDE DEF p, i, L
<1>5. i <= c
  BY DEF i
<1>6. i + L <= c
  BY <1>1, <1>3, <1>4, <1>5
<1> QED
  BY <1>6 DEF i, L

LEMMA ReturnOnOutline ==
  ASSUME IInv, BoundRight, Standing, OnOutline, Return
  PROVE  OnOutline'
<1> DEFINE n == Len(frames)  m == n - 1  p == payload  i == ms.pos
           o == NestOf(frames, n)  e == EndOf(p, o)
           outer == frames[m]
<1>1. /\ Over /\ n > 1 /\ UNCHANGED <<buffer, flags, before>> /\ flags = {RECURSE}
  BY DEF Return, Resumed, OnOutline
<1>2. /\ i \in Nat /\ n \in Nat /\ n >= 1 /\ Top = frames[n] /\ Top.left \in Nat
      /\ PayloadShape(p) /\ WholeEntries(p) /\ SoundOrPadded(p) /\ DeviceChain(p)
      /\ words = p.words /\ ms.nest_level = n - 1 /\ p.longs \in Nat
      /\ frames \in Seq(Frame)
  BY FreshLevels
<1>3. /\ o \in p.items /\ o \in Nat /\ IsNest(p, o) /\ e \in Nat /\ e = i + Top.left
      /\ o + 2 <= i /\ e = Top.from + SizeAt(words, o)
  BY <1>1, TopNest
<1>4. OnNests(p, frames, m) /\ Nested(p, frames, n) /\ Metered(p, frames, m)
  <2>1. OnNests(p, frames, n)
    BY DEF OnOutline
  <2> HIDE DEF n, p
  <2> QED
    BY <1>1, <1>2, <2>1, NestsFewer
<1>5. m \in Nat /\ m >= 1 /\ m + 1 = n /\ m # n /\ m - 1 = n - 2 /\ m = n - 1
      /\ (m = 1 \/ m > 1) /\ (m = 1 <=> n = 2) /\ (m = 1 <=> ms.nest_level - 1 = 0) /\ n # 1
  <2>1. n \in Nat /\ n > 1 /\ ms.nest_level = n - 1
    BY <1>1, <1>2
  <2> HIDE DEF n
  <2> QED
    BY <2>1
<1>6. PICK to : to = frames'
  OBVIOUS
<1>7. PICK k, left \in Nat :
        /\ outer.left = 2 + outer.inner + left /\ k <= left
        /\ \A j \in 0..(k - 1) : words[Top.from + outer.inner + j].key = END
        /\ Len(to) = m
        /\ \A j \in 1..(n - 2) : to[j] = frames[j]
        /\ to[m].from = outer.from /\ to[m].inner = outer.inner
        /\ to[m].left = left - k
        /\ to[m].ret = IF Top.ret = UNKNOWN_TYPE THEN UNKNOWN_TYPE ELSE outer.ret
        /\ ms'.pos = Top.from + outer.inner + k
        /\ device_count' = IF ms.nest_level - 1 = 0 THEN device_count + 1 ELSE device_count
  BY <1>6, ReturnFrames
<1>8. outer.inner = SizeAt(words, o) /\ o + outer.left = EndFrame(p, frames, m)
  <2>1. frames[m].inner = SizeAt(p.words, NestOf(frames, m + 1))
        /\ NestOf(frames, m + 1) + frames[m].left = EndFrame(p, frames, m)
    BY <1>4 DEF Metered
  <2> HIDE DEF n, m, p
  <2> QED
    BY <1>2, <1>5, <2>1
<1>9. Top.from + outer.inner = e /\ e = o + 2 + outer.inner /\ outer.inner \in Nat
  <2>1. e = o + 2 + SizeAt(words, o) /\ SizeAt(words, o) \in Nat
    BY <1>2, <1>3, ItemRead
  <2> HIDE DEF e, o, outer
  <2> QED
    BY <1>3, <1>8, <2>1
<1> HIDE DEF n, o, e, outer
<1>10. ms'.pos = e + k /\ \A j \in 0..(k - 1) : p.words[e + j].key = END
  BY <1>2, <1>7, <1>9
<1>11. e + left = EndFrame(p, frames, m)
  <2>1. e + left = o + outer.left
    <3> DEFINE L == outer.left  N == outer.inner
    <3>1. L = 2 + N + left /\ left \in Nat /\ N \in Nat /\ o \in Nat /\ e = o + 2 + N
      BY <1>3, <1>7, <1>9
    <3> HIDE DEF L, N
    <3>2. e + left = o + L
      BY <3>1
    <3> QED
      BY <3>2 DEF L
  <2> QED
    BY <1>8, <2>1
<1>12. \A c \in p.items : i <= c => e + k <= c
  <2>1. ASSUME NEW c \in p.items, i <= c PROVE e <= c
    BY <1>1, <1>3, <2>1, NothingLeft
  <2> HIDE DEF p, i
  <2> QED
    BY <1>2, <1>3, <1>7, <1>10, <2>1, NoItemInPadding
<1>13. i <= e /\ i <= e + k /\ e + k \in Nat
  <2> DEFINE L == Top.left
  <2>1. i \in Nat /\ L \in Nat /\ k \in Nat /\ e = i + L
    BY <1>2, <1>3, <1>7
  <2> HIDE DEF i, L
  <2> QED
    BY <2>1
<1>14. /\ \A j \in 1..m : NestOf(to, j) = NestOf(frames, j)
                          /\ EndFrame(p, to, j) = EndFrame(p, frames, j)
       /\ OnNests(p, to, m) <=> OnNests(p, frames, m)
  <2>1. \A j \in 1..m : j = m \/ j \in 1..(n - 2)
    <3> HIDE DEF m
    <3> QED
      BY <1>5
  <2>2. \A j \in 1..m : to[j].from = frames[j].from
    BY <1>7, <2>1 DEF outer
  <2>3. \A j \in 1..(m - 1) : to[j].inner = frames[j].inner /\ to[j].left = frames[j].left
    BY <1>5, <1>7
  <2> HIDE DEF m, p
  <2> QED
    BY <1>5, <2>2, <2>3, SameNests
<1>15. 1 \in 1..m /\ m \in 1..m
  <2> HIDE DEF m
  <2> QED
    BY <1>5
<1>16. e + k + to[m].left = EndFrame(p, to, m)
  <2>1. e + k + to[m].left = e + left
    BY <1>3, <1>7
  <2> QED
    BY <1>11, <1>14, <1>15, <2>1
<1>17. Between(p, to, m, e + k)
  <2>1. CASE m = 1
    <3>1. IsDevice(p, o)
      BY <1>4, <1>5, <2>1 DEF Nested, o
    <3>2. e = p.longs \/ (e \in p.items /\ IsDevice(p, e))
      BY <1>2, <1>3, <3>1 DEF DeviceChain, e
    <3>3. e = p.longs => k = 0
      <4>1. e + left = p.longs
        BY <1>11, <2>1 DEF EndFrame
      <4> QED
        BY <1>3, <1>7, <4>1
    <3>4. e \in p.items => k = 0
      BY <1>3, <1>7, <1>12, <1>13
    <3>5. e + k = e
      BY <1>3, <3>2, <3>3, <3>4
    <3> QED
      BY <2>1, <3>2, <3>5 DEF Between
  <2>2. CASE m > 1
    <3> DEFINE q == NestOf(frames, m)
    <3>1. m # 1 /\ n # 2 /\ m \in 2..m
      <4> HIDE DEF m
      <4> QED
        BY <1>5, <2>2
    <3>2. o \in Inside(p, q)
      BY <1>4, <3>1 DEF Nested, o, n
    <3>3. q \in p.items /\ IsNest(p, q)
      BY <1>4, <3>1 DEF OnNests, Nested
    <3> HIDE DEF q
    <3>4. q + 2 <= o /\ q \in Nat
      BY <1>2, <3>2, <3>3, InsideOf, ItemRead
    <3>5. ASSUME NEW c \in Inside(p, q) PROVE EndOf(p, c) <= e + k \/ e + k <= c
      <4>1. c \in p.items /\ c \in Nat /\ EndOf(p, c) \in Nat
        BY <1>2, ItemRead DEF Inside
      <4>2. c = o => EndOf(p, c) = e
        BY DEF e
      <4>3. c < o => EndOf(p, c) <= o
        BY <1>2, <3>2, <3>3, InsideApart
      <4>4. o < c => e <= c
        BY <1>2, <3>2, <3>3, InsideApart DEF e
      <4>5. o < c => e + k <= c
        <5>1. e <= c => i <= c
          <6>1. i \in Nat /\ e \in Nat /\ c \in Nat /\ i <= e
            BY <1>2, <1>3, <1>13, <4>1
          <6> HIDE DEF i, p
          <6> QED
            BY <6>1
        <5> QED
          BY <1>12, <4>1, <4>4, <5>1
      <4>6. c = o \/ c < o \/ o < c
        BY <1>3, <4>1
      <4>7. o <= e
        BY <1>3, <1>9
      <4> DEFINE z == EndOf(p, c)
      <4> HIDE DEF z
      <4>8. z <= e + k \/ e + k <= c
        <5>1. z \in Nat /\ (c = o => z = e) /\ (c < o => z <= o)
          BY <4>1, <4>2, <4>3 DEF z
        <5> QED
          BY <1>3, <1>7, <4>1, <4>5, <4>6, <4>7, <5>1
      <4> QED
        BY <4>8 DEF z
    <3>6. q + 2 <= e + k
      BY <1>3, <1>7, <1>9, <3>4
    <3>7. NestOf(to, m) = q
      BY <1>14, <1>15 DEF q
    <3> QED
      BY <3>1, <3>5, <3>6, <3>7 DEF Between
  <2> QED
    BY <1>5, <2>1, <2>2
<1>18. Odd(p, e + k) = Odd(p, i)
  <2>1. ASSUME NEW x \in p.items PROVE x < e + k <=> x < i
    <3>1. x \in Nat
      BY <1>2 DEF PayloadShape
    <3> HIDE DEF p, i
    <3> QED
      BY <1>2, <1>12, <1>13, <3>1
  <2> HIDE DEF p, i
  <2> QED
    BY <2>1 DEF Odd
<1>19. Noticed(p, to, m, e + k, flags)
  <2>1. (\E j \in 1..n : frames[j].ret = UNKNOWN_TYPE) <=> flags = {RECURSE} /\ Odd(p, i) # {}
    BY DEF OnOutline, Noticed, n
  <2>2. /\ \A j \in 1..n : j \in 1..(n - 2) \/ j = m \/ j = n
        /\ \A j \in 1..m : j \in 1..(n - 2) \/ j = m
        /\ \A j \in 1..(n - 2) : j \in 1..n /\ j \in 1..m
        /\ m \in 1..n /\ n \in 1..n /\ m \in 1..m
    <3> HIDE DEF m
    <3> QED
      BY <1>2, <1>5
  <2>3. to[m].ret = UNKNOWN_TYPE <=> frames[n].ret = UNKNOWN_TYPE \/ frames[m].ret = UNKNOWN_TYPE
    BY <1>2, <1>7 DEF outer
  <2>4. \A j \in 1..(n - 2) : to[j].ret = frames[j].ret
    BY <1>7
  <2> HIDE DEF m, p, i
  <2>5. (\E j \in 1..n : frames[j].ret = UNKNOWN_TYPE)
          <=> \/ frames[n].ret = UNKNOWN_TYPE \/ frames[m].ret = UNKNOWN_TYPE
              \/ \E j \in 1..(n - 2) : frames[j].ret = UNKNOWN_TYPE
    BY <2>2
  <2>6. (\E j \in 1..m : to[j].ret = UNKNOWN_TYPE)
          <=> \/ to[m].ret = UNKNOWN_TYPE
              \/ \E j \in 1..(n - 2) : frames[j].ret = UNKNOWN_TYPE
    BY <2>2, <2>4
  <2> QED
    BY <1>18, <2>1, <2>3, <2>5, <2>6 DEF Noticed
<1>20. device_count' = before.devices + CountFor(p, to, m, e + k, flags)
  <2>1. device_count = before.devices + CountFor(p, frames, n, i, flags)
    BY DEF OnOutline, n
  <2>2. CASE m > 1
    <3>1. m # 1 /\ 2 \in 1..m
      <4> HIDE DEF m
      <4> QED
        BY <1>5, <2>2
    <3>2. NestOf(to, 2) = NestOf(frames, 2)
      BY <1>14, <3>1
    <3>3. CountFor(p, to, m, e + k, flags) = CountFor(p, frames, n, i, flags)
      <4> HIDE DEF m
      <4> QED
        BY <1>5, <3>1, <3>2 DEF CountFor
    <3>4. device_count' = device_count
      BY <1>5, <1>7, <3>1
    <3> QED
      BY <2>1, <3>3, <3>4
  <2>3. CASE m = 1
    <3> DEFINE D == DevicesTo(p, o)
    <3>1. DevicesTo(p, e + k) = D \union {o}
      <4>1. IsDevice(p, o)
        BY <1>4, <1>5, <2>3 DEF Nested, o
      <4>2. ASSUME NEW x \in p.items, IsDevice(p, x) PROVE x < e + k <=> x < o \/ x = o
        <5>1. x \in Nat
          BY <1>2 DEF PayloadShape
        <5>2. o < x => ~(x < e)
          BY <1>2, <1>3, <4>2, ItemsApart DEF e
        <5>3. i <= x => e + k <= x
          BY <1>12
        <5>4. o < e
          BY <1>3, <1>9
        <5>5. i \in Nat /\ o \in Nat /\ e \in Nat /\ k \in Nat /\ i <= e
          BY <1>2, <1>3, <1>7, <1>13
        <5> HIDE DEF i, p
        <5> QED
          BY <5>1, <5>2, <5>3, <5>4, <5>5
      <4> HIDE DEF p
      <4> QED
        BY <1>3, <4>1, <4>2 DEF DevicesTo
    <3>2. IsFiniteSet(D) /\ o \notin D
      <4>1. p.items \subseteq 0..(p.longs - 1)
        BY <1>2 DEF PayloadShape
      <4>2. IsFiniteSet(0..(p.longs - 1))
        <5>1. 0 \in Int /\ p.longs - 1 \in Int
          BY <1>2
        <5> QED
          BY <5>1, FS_Interval, Zenon
      <4>3. D \subseteq 0..(p.longs - 1)
        BY <4>1 DEF DevicesTo
      <4>4. o \notin D
        BY <1>3 DEF DevicesTo
      <4> QED
        BY <4>2, <4>3, <4>4, FS_Subset
    <3>3. Cardinality(D \union {o}) = Cardinality(D) + 1 /\ Cardinality(D) \in Nat
      <4> HIDE DEF D
      <4> QED
        BY <3>2, FS_AddElement, FS_CardinalityType
    <3>4. CountFor(p, to, m, e + k, flags) = Cardinality(D) + 1
      BY <1>1, <2>3, <3>1, <3>3 DEF CountFor
    <3>5. CountFor(p, frames, n, i, flags) = Cardinality(D)
      <4>1. NestOf(frames, 2) = o
        BY <1>5, <2>3 DEF o
      <4> QED
        BY <1>1, <1>5, <4>1 DEF CountFor
    <3>6. device_count' = device_count + 1
      BY <1>5, <1>7, <2>3
    <3>7. before.devices \in Nat
      BY DEF IInv, TypeOK
    <3> HIDE DEF D
    <3> QED
      BY <2>1, <3>3, <3>4, <3>5, <3>6, <3>7
  <2> QED
    BY <1>5, <2>2, <2>3
<1>21. payload' = p /\ flags' = flags /\ before' = before
  BY <1>1 DEF payload
<1>22. OnNests(p, to, m)
  BY <1>4, <1>14
<1>23. Len(frames') = m
  BY <1>6, <1>7
<1> HIDE DEF p, m, i
<1> QED
  BY <1>1, <1>6, <1>10, <1>16, <1>17, <1>19, <1>20, <1>21, <1>22, <1>23 DEF OnOutline

(* The invariant of a validation from the start.                            *)
OInv == IInv /\ BoundRight /\ (Standing => OnOutline)

LEMMA BeganOnOutline == ASSUME Init PROVE OInv
<1>1. IInv
  BY InitKept
<1>2. ms.bound = ChainEnd
  <2>1. Usable(ms)
    BY <1>1 DEF Init, IInv, StreamFits
  <2> QED
    BY <2>1, OpenedUsable DEF Init
<1>3. BoundRight
  BY <1>1, <1>2, SoundShape, ChainIsWhole DEF BoundRight, SoundOrPadded, IInv
<1>4. ~Standing
  BY DEF Init, Standing, Running
<1> QED
  BY <1>1, <1>3, <1>4 DEF OInv

LEMMA OutlineKept == ASSUME OInv, [Next]_vars PROVE OInv'
<1>1. IInv' /\ IInv /\ BoundRight
  BY StepKept DEF OInv
<1>2. UNCHANGED buffer
  BY DEF Next, StartValidate, RefuseEntry, RefuseDepth, Refuse, StepOverEntry, EnterNest,
         SkipEnds, Accept, Return, Resumed, Walk, ResetState, vars
<1>3. payload' = payload
  BY <1>2 DEF payload
<1>4. BoundRight'
  <2>1. ms'.bound = ms.bound
    BY <1>1, BoundKept
  <2> QED
    BY <1>1, <1>3, <2>1 DEF BoundRight
<1>5. ASSUME Standing' PROVE OnOutline'
  <2>1. frames' # << >> /\ Fresh(before'.ms) /\ SoundOrPadded(payload)
    BY <1>3, <1>5 DEF Standing, Running
  <2>2. CASE \E how \in Flags : StartValidate(how)
    BY <1>1, <1>5, <2>2, StartOnOutline
  <2>3. CASE StepOverEntry \/ SkipEnds \/ EnterNest \/ Return
    <3>1. Running /\ UNCHANGED before
      BY <1>1, <2>3, StillRunning
    <3>2. Standing /\ OnOutline
      BY <2>1, <3>1 DEF Standing, OInv
    <3> QED
      BY <1>1, <2>3, <3>2, StepOverOnOutline, SkipEndsOnOutline, EnterOnOutline, ReturnOnOutline
  <2>4. CASE RefuseEntry \/ RefuseDepth \/ Accept
    BY <2>1, <2>4 DEF RefuseEntry, RefuseDepth, Refuse, Accept
  <2>5. CASE (\E how \in {{}, {RECURSE}} : Walk(how)) \/ ResetState
    BY <2>1, <2>5 DEF Walk, ResetState
  <2>6. CASE UNCHANGED vars
    <3>1. Standing /\ OnOutline
      BY <2>1, <2>6 DEF vars, Standing, Running, OInv
    <3>2. /\ frames' = frames /\ flags' = flags /\ ms' = ms /\ before' = before
          /\ device_count' = device_count
      BY <2>6 DEF vars
    <3> QED
      BY <1>3, <3>1, <3>2 DEF OnOutline
  <2> QED
    BY <2>2, <2>3, <2>4, <2>5, <2>6 DEF Next
<1> QED
  BY <1>1, <1>4, <1>5 DEF OInv

(* What the loop at level 0 has met when it is over.                        *)
LEMMA OutlineDone ==
  ASSUME IInv, BoundRight, Standing, OnOutline, Accept
  PROVE  /\ answer'.code =
              IF flags = {RECURSE} /\ {i \in payload.items : ~Known(payload, i)} # {}
              THEN UNKNOWN_TYPE ELSE OK
         /\ device_count' = before.devices +
              IF flags # {RECURSE} THEN 0
              ELSE Cardinality({i \in payload.items : IsDevice(payload, i)})
<1> DEFINE p == payload
<1>1. /\ Len(frames) = 1 /\ Over /\ answer'.code = Top.ret /\ device_count' = device_count
  BY DEF Accept
<1>2. /\ ms.pos \in Nat /\ p.longs \in Nat /\ PayloadShape(p) /\ WholeEntries(p)
      /\ Top = frames[1] /\ Top.ret \in {OK, UNKNOWN_TYPE}
  BY <1>1, FreshLevels
<1>3. ASSUME NEW c \in p.items PROVE c < ms.pos
  <2>1. c \in Nat /\ c < p.longs
    <3>1. p.items \subseteq 0..(p.longs - 1)
      BY <1>2 DEF PayloadShape
    <3>2. c \in 0..(p.longs - 1)
      BY <3>1
    <3> QED
      BY <1>2, <3>2
  <2>2. ms.pos <= c => p.longs <= c
    <3>1. ms.pos + Top.left = p.longs
      BY <1>1, TopDevice
    <3> QED
      BY <1>1, <3>1, NothingLeft
  <2> QED
    BY <1>2, <2>1, <2>2
<1>4. Odd(p, ms.pos) = {i \in p.items : ~Known(p, i)}
  BY <1>3 DEF Odd
<1>5. DevicesTo(p, ms.pos) = {i \in p.items : IsDevice(p, i)}
  BY <1>3 DEF DevicesTo
<1>6. Top.ret = UNKNOWN_TYPE <=> flags = {RECURSE} /\ Odd(p, ms.pos) # {}
  <2>1. (\E j \in 1..1 : frames[j].ret = UNKNOWN_TYPE) <=> flags = {RECURSE} /\ Odd(p, ms.pos) # {}
    BY <1>1 DEF OnOutline, Noticed
  <2>2. \A j \in 1..1 : j = 1
    OBVIOUS
  <2>3. 1 \in 1..1
    OBVIOUS
  <2> QED
    BY <1>2, <2>1, <2>2, <2>3
<1>7. device_count = before.devices + CountFor(p, frames, 1, ms.pos, flags)
  BY <1>1 DEF OnOutline
<1>8. CountFor(p, frames, 1, ms.pos, flags)
        = IF flags # {RECURSE} THEN 0 ELSE Cardinality({i \in p.items : IsDevice(p, i)})
  BY <1>5 DEF CountFor
<1>9. answer'.code = IF flags = {RECURSE} /\ {i \in p.items : ~Known(p, i)} # {}
                     THEN UNKNOWN_TYPE ELSE OK
  BY <1>1, <1>2, <1>4, <1>6 DEF OK, UNKNOWN_TYPE
<1> QED
  BY <1>1, <1>7, <1>8, <1>9

(* And it ends with nothing but Accept.                                     *)
LEMMA SoundVerdict ==
  ASSUME OInv, [Next]_vars, Validated, Fresh(before.ms), SoundOrPadded(payload)
  PROVE  LET odd     == {i \in payload.items : ~Known(payload, i)}
             devices == {i \in payload.items : IsDevice(payload, i)}
         IN IF flags = {RECURSE}
            THEN /\ answer'.code = IF odd = {} THEN OK ELSE UNKNOWN_TYPE
                 /\ device_count' = before.devices + Cardinality(devices)
            ELSE answer'.code = OK /\ device_count' = before.devices
<1>1. IInv /\ BoundRight /\ Standing /\ OnOutline /\ before.devices \in Nat
  BY DEF OInv, Standing, Validated, Running, IInv, TypeOK
<1>2. Accept
  <2>1. ~RefuseEntry /\ ~RefuseDepth
    BY <1>1, NotRefused
  <2>2. ~(StepOverEntry \/ SkipEnds \/ EnterNest \/ Return)
    BY <1>1, StillRunning DEF Validated, Running
  <2>3. ~(\E how \in Flags : StartValidate(how))
    BY DEF Validated, StartValidate
  <2>4. ~(\E how \in {{}, {RECURSE}} : Walk(how)) /\ ~ResetState
    BY DEF Validated, Walk, ResetState
  <2>5. ~UNCHANGED vars
    BY DEF Validated, vars
  <2> QED
    BY <2>1, <2>2, <2>3, <2>4, <2>5 DEF Next
<1> QED
  BY <1>1, <1>2, OutlineDone

(* A payload a writer produces, padded or not, is accepted by GPMF_Validate *)
(* from its start: the answer names an unknown type exactly when the        *)
(* validation visits an entry of one, and device_count grows by the number  *)
(* of devices, or not at all if the validation does not descend.            *)
THEOREM SoundIsAccepted == Spec => VerdictOnSound
<1>1. Init => OInv
  BY BeganOnOutline
<1>2. OInv /\ [Next]_vars => OInv'
  BY OutlineKept
<1>3. OInv /\ [Next]_vars =>
        [Validated /\ Fresh(before.ms) /\ SoundOrPadded(payload) =>
           LET odd     == {i \in payload.items : ~Known(payload, i)}
               devices == {i \in payload.items : IsDevice(payload, i)}
           IN IF flags = {RECURSE}
              THEN /\ answer'.code = IF odd = {} THEN OK ELSE UNKNOWN_TYPE
                   /\ device_count' = before.devices + Cardinality(devices)
              ELSE answer'.code = OK /\ device_count' = before.devices]_vars
  BY SoundVerdict
<1> QED
  BY <1>1, <1>2, <1>3, PTL DEF Spec, VerdictOnSound
=============================================================================
